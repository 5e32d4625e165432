-------------------------- MODULE McpSessions_proofs --------------------------
(***************************************************************************)
(* McpSessions for any number of requests, sessions and restarts: the      *)
(* types, what the map and the gauge hold, and that results reach their    *)
(* callers.  RequestsInv says what a request has done by the time it       *)
(* awaits something; the properties are inductive beside it.               *)
(***************************************************************************)
EXTENDS McpSessions, FiniteSetTheorems, TLAPS

\* A request that has not arrived has left no trace.
FreshRequest(h) ==
  pc[h] = "idle" => /\ kind[h] = "none" /\ id[h] = NoId /\ reply[h] = "none"
                    /\ tool[h] = "none" /\ connected[h]

\* An open request arrived in this process, is not answered, and is of a kind
\* that waits where it does.
OpenRequest(h) ==
  /\ life[h] <= restarts
  /\ pc[h] \in {"authenticating", "streaming"} => life[h] = restarts /\ reply[h] = "none"
  /\ pc[h] = "authenticating" => kind[h] = "initialize" /\ tool[h] = "none"
  /\ pc[h] = "streaming" => kind[h] \in {"call", "get"} /\ id[h] # NoId

\* An id in a header was told in the answer to an initialize.
IdWasTold(h) == id[h] # NoId => kind[id[h]] = "initialize" /\ reply[id[h]] = "ok"

\* A tool runs for a call, and a call whose stream is gone was told so or its
\* client has left.
ToolOfCall(h) ==
  /\ tool[h] # "none" => kind[h] = "call" /\ id[h] # NoId
  /\ kind[h] = "call" /\ pc[h] = "streaming" => tool[h] = "running"
  /\ tool[h] = "running" => reply[h] \in {"none", "ended"}
  /\ tool[h] = "running" /\ connected[h] /\ pc[h] # "streaming" => reply[h] = "ended"
  /\ kind[h] = "delete" /\ reply[h] = "ok" => id[h] # NoId

RequestInv(h) == FreshRequest(h) /\ OpenRequest(h) /\ IdWasTold(h) /\ ToolOfCall(h)
RequestsInv == \A h \in Http : RequestInv(h)

-----------------------------------------------------------------------------
\* No gauge of a set of sessions is out of range.
LEMMA GaugeInRange ==
  ASSUME NEW S \in SUBSET Http
  PROVE  Cardinality(S) \in 0..Requests
<1>1. IsFiniteSet(Http) /\ Cardinality(Http) = Requests
  BY McpSessionsAssumption, FS_Interval DEF Http
<1>2. IsFiniteSet(S) /\ Cardinality(S) <= Requests
  BY <1>1, FS_Subset
<1>3. Cardinality(S) \in Nat
  BY <1>2, FS_CardinalityType
<1> QED
  BY <1>2, <1>3, McpSessionsAssumption

\* Nothing is wrong before the first request.
LEMMA InitTypeOK == Init => TypeOK
BY McpSessionsAssumption DEF Init, TypeOK, Http, NoId, Kind, Reply

LEMMA InitRequestsInv == Init => RequestsInv
BY McpSessionsAssumption
   DEF Init, RequestsInv, RequestInv, FreshRequest, OpenRequest, IdWasTold, ToolOfCall, NoId

\* Every step keeps the types; streams are those of sessions in the map.
LEMMA TypeStep == TypeOK /\ RequestsInv /\ [Next]_vars => TypeOK'
<1> SUFFICES ASSUME TypeOK, RequestsInv, [Next]_vars PROVE TypeOK'
  OBVIOUS
<1> USE McpSessionsAssumption
    DEF TypeOK, NoId, Kind, Reply, Arrives, Answer, Leave, Nothing, Known, Told
<1>1. ASSUME NEW h \in Http, Refused(h) PROVE TypeOK'
  BY <1>1 DEF Refused
<1>2. ASSUME NEW h \in Http, PostInitialize(h) PROVE TypeOK'
  BY <1>2 DEF PostInitialize
<1>3. ASSUME NEW h \in Http, PostCall(h) PROVE TypeOK'
  BY <1>3 DEF PostCall, RequestsInv, RequestInv, FreshRequest
<1>4. ASSUME NEW h \in Http, GetStream(h) PROVE TypeOK'
  BY <1>4 DEF GetStream, RequestsInv, RequestInv, FreshRequest
<1>5. ASSUME NEW h \in Http, DeleteSession(h) PROVE TypeOK'
  BY <1>5, GaugeInRange DEF DeleteSession, Streams
<1>6. ASSUME NEW h \in Http, DeleteUnknown(h) PROVE TypeOK'
  BY <1>6 DEF DeleteUnknown
<1>7. ASSUME NEW h \in Http, AuthenticationFails(h) PROVE TypeOK'
  BY <1>7 DEF AuthenticationFails
<1>8. ASSUME NEW h \in Http, Authenticated(h) PROVE TypeOK'
  BY <1>8, GaugeInRange DEF Authenticated
<1>9. ASSUME NEW h \in Http, ToolReturns(h) PROVE TypeOK'
  BY <1>9 DEF ToolReturns
<1>10. ASSUME NEW h \in Http, ClientLeaves(h) PROVE TypeOK'
  BY <1>10 DEF ClientLeaves
<1>11. CASE Restart
  BY <1>11 DEF Restart
<1>12. CASE UNCHANGED vars
  BY <1>12 DEF vars
<1> QED
  BY <1>1, <1>2, <1>3, <1>4, <1>5, <1>6, <1>7, <1>8, <1>9, <1>10, <1>11, <1>12
  DEF Next, Proceed

\* What it means for a request to arrive, without how many there may be
LEMMA Arrival ==
  ASSUME TypeOK, RequestsInv, NEW h \in Http, NEW what, NEW session,
         Arrives(h, what, session)
  PROVE  /\ pc[h] = "idle" /\ FreshRequest(h)
         /\ session # NoId =>
              /\ session \in Http /\ session # h
              /\ kind[session] = "initialize" /\ reply[session] = "ok"
         /\ kind' = [kind EXCEPT ![h] = what]
         /\ id' = [id EXCEPT ![h] = session]
         /\ life' = [life EXCEPT ![h] = restarts]
         /\ connected' = connected /\ restarts' = restarts
<1>1. pc[h] = "idle" /\ FreshRequest(h)
  BY DEF Arrives, RequestsInv, RequestInv
<1>2. kind[h] = "none"
  BY <1>1 DEF FreshRequest
<1>3. session \in Told \cup {NoId}
  BY DEF Arrives
<1>4. ASSUME session # NoId
      PROVE  /\ session \in Http /\ session # h
             /\ kind[session] = "initialize" /\ reply[session] = "ok"
  BY <1>2, <1>3, <1>4 DEF Told
<1> QED
  BY <1>1, <1>4 DEF Arrives

\* Every step keeps what is said of the requests.
LEMMA RequestsStep == TypeOK /\ RequestsInv /\ [Next]_vars => RequestsInv'
<1> SUFFICES ASSUME TypeOK, RequestsInv, [Next]_vars PROVE RequestsInv'
  OBVIOUS
<1> USE McpSessionsAssumption
    DEF TypeOK, NoId, Arrives, Answer, Leave, Nothing, Known, Told, RequestsInv,
        RequestInv, FreshRequest, OpenRequest, IdWasTold, ToolOfCall
<1>1. ASSUME NEW h \in Http, Refused(h) PROVE RequestsInv'
  BY <1>1 DEF Refused
<1>2. ASSUME NEW h \in Http, PostInitialize(h) PROVE RequestsInv'
  <2>1. PICK session \in Told \cup {NoId} :
          /\ Arrives(h, "initialize", session)
          /\ \/ session = NoId /\ Leave(h, "authenticating")
             \/ session = NoId /\ Answer(h, "401")
             \/ session # NoId /\ Answer(h, "400")
    BY <1>2 DEF PostInitialize
  <2>2. tool' = tool
    BY <1>2 DEF PostInitialize
  <2> HIDE DEF Arrives, Told
  <2> QED
    BY <2>1, <2>2, Arrival
<1>3. ASSUME NEW h \in Http, PostCall(h) PROVE RequestsInv'
  <2>1. PICK session \in Told \cup {NoId} :
          /\ Arrives(h, "call", session)
          /\ \/ /\ Known(session) /\ Leave(h, "streaming")
                /\ tool' = [tool EXCEPT ![h] = "running"]
             \/ Answer(h, "400") /\ tool' = tool
    BY <1>3 DEF PostCall
  <2>2. NoId \notin sessions
    BY DEF Http
  <2> HIDE DEF Arrives, Told
  <2> QED
    BY <2>1, <2>2, Arrival
<1>4. ASSUME NEW h \in Http, GetStream(h) PROVE RequestsInv'
  <2>1. PICK session \in Told \cup {NoId} :
          /\ Arrives(h, "get", session)
          /\ \/ Answer(h, "400")
             \/ Known(session) /\ Answer(h, "409")
             \/ Known(session) /\ Leave(h, "streaming")
          /\ tool' = tool
    BY <1>4 DEF GetStream
  <2>2. NoId \notin sessions
    BY DEF Http
  <2> HIDE DEF Arrives, Told
  <2> QED
    BY <2>1, <2>2, Arrival
<1>5. ASSUME NEW h \in Http, DeleteSession(h) PROVE RequestsInv'
  <2> HIDE DEF Arrives, Told
  <2>1. PICK session \in Told \cup {NoId} :
          /\ Arrives(h, "delete", session)
          /\ session \in sessions
          /\ pc' = [g \in Http |-> IF g = h \/ g \in Streams(session) THEN "done" ELSE pc[g]]
          /\ reply' = [g \in Http |-> IF g = h THEN "ok"
                                      ELSE IF g \in Streams(session) THEN "ended" ELSE reply[g]]
          /\ tool' = tool
    BY <1>5 DEF DeleteSession
  <2>2. NoId \notin sessions
    BY DEF Http
  <2> QED
    BY <2>1, <2>2, Arrival DEF Streams
<1>6. ASSUME NEW h \in Http, DeleteUnknown(h) PROVE RequestsInv'
  <2> HIDE DEF Arrives, Told
  <2>1. PICK session \in Told \cup {NoId} :
          Arrives(h, "delete", session) /\ Answer(h, "400") /\ tool' = tool
    BY <1>6 DEF DeleteUnknown
  <2> QED
    BY <2>1, Arrival
<1>7. ASSUME NEW h \in Http, AuthenticationFails(h) PROVE RequestsInv'
  BY <1>7 DEF AuthenticationFails
<1>8. ASSUME NEW h \in Http, Authenticated(h) PROVE RequestsInv'
  BY <1>8 DEF Authenticated
<1>9. ASSUME NEW h \in Http, ToolReturns(h) PROVE RequestsInv'
  BY <1>9 DEF ToolReturns
<1>10. ASSUME NEW h \in Http, ClientLeaves(h) PROVE RequestsInv'
  BY <1>10 DEF ClientLeaves
<1>11. CASE Restart
  BY <1>11 DEF Restart
<1>12. CASE UNCHANGED vars
  BY <1>12 DEF vars
<1> QED
  BY <1>1, <1>2, <1>3, <1>4, <1>5, <1>6, <1>7, <1>8, <1>9, <1>10, <1>11, <1>12
  DEF Next, Proceed

-----------------------------------------------------------------------------
\* A step that enters no session and deletes none leaves both sets alone.
LEMMA SameSessions ==
  ASSUME TypeOK, TypeOK', restarts' = restarts,
         \A h \in Http : h \in Entered' <=> h \in Entered,
         \A h \in Http : (kind'[h] = "delete" /\ reply'[h] = "ok")
                            <=> (kind[h] = "delete" /\ reply[h] = "ok"),
         \A h \in Http : kind[h] = "delete" => id'[h] = id[h]
  PROVE  Entered' = Entered /\ Deleted' = Deleted
<1>1. Entered \subseteq Http /\ Entered' \subseteq Http
  BY DEF Entered
<1>2. Deleted = {id[h] : h \in {g \in Http : kind[g] = "delete" /\ reply[g] = "ok"}}
  BY DEF Deleted
<1>3. Deleted' = {id'[h] : h \in {g \in Http : kind'[g] = "delete" /\ reply'[g] = "ok"}}
  BY DEF Deleted
<1> QED
  BY <1>1, <1>2, <1>3

LEMMA MapStep ==
  TypeOK /\ TypeOK' /\ RequestsInv /\ MapHoldsOpenSessions /\ [Next]_vars
    => MapHoldsOpenSessions'
<1> SUFFICES ASSUME TypeOK, TypeOK', RequestsInv, MapHoldsOpenSessions, [Next]_vars
             PROVE MapHoldsOpenSessions'
  OBVIOUS
<1> USE McpSessionsAssumption
    DEF TypeOK, NoId, Answer, Leave, Nothing, Known, RequestsInv, RequestInv,
        FreshRequest, OpenRequest, IdWasTold, ToolOfCall, MapHoldsOpenSessions
<1>1. ASSUME NEW h \in Http,
             Refused(h) \/ PostInitialize(h) \/ PostCall(h) \/ GetStream(h) \/ DeleteUnknown(h)
      PROVE  MapHoldsOpenSessions'
  <2>1. \E what, session : Arrives(h, what, session)
    BY <1>1 DEF Refused, PostInitialize, PostCall, GetStream, DeleteUnknown
  <2>2. reply'[h] # "ok" /\ \A g \in Http : g # h => reply'[g] = reply[g]
    <3>1. pc[h] = "idle"
      BY <2>1, Arrival
    <3> QED
      BY <1>1, <3>1 DEF Refused, PostInitialize, PostCall, GetStream, DeleteUnknown
  <2>3. Entered' = Entered /\ Deleted' = Deleted
    BY <2>1, <2>2, Arrival, SameSessions DEF Entered
  <2>4. sessions' = sessions /\ gauge' = gauge
    BY <1>1 DEF Refused, PostInitialize, PostCall, GetStream, DeleteUnknown
  <2> QED
    BY <2>3, <2>4
<1>2. ASSUME NEW h \in Http, AuthenticationFails(h) \/ ToolReturns(h) \/ ClientLeaves(h)
      PROVE  MapHoldsOpenSessions'
  <2>1. Entered' = Entered /\ Deleted' = Deleted
    BY <1>2, SameSessions DEF AuthenticationFails, ToolReturns, ClientLeaves, Entered
  <2>2. sessions' = sessions /\ gauge' = gauge
    BY <1>2 DEF AuthenticationFails, ToolReturns, ClientLeaves
  <2> QED
    BY <2>1, <2>2
<1>3. ASSUME NEW h \in Http, Authenticated(h)
      PROVE  MapHoldsOpenSessions'
  <2>1. CASE reply'[h] # "ok"
    <3>1. Entered' = Entered /\ Deleted' = Deleted
      BY <1>3, <2>1, SameSessions DEF Authenticated, Entered
    <3>2. sessions' = sessions /\ gauge' = gauge
      BY <1>3, <2>1 DEF Authenticated
    <3> QED
      BY <3>1, <3>2
  <2>2. CASE reply'[h] = "ok"
    <3>1. sessions' = sessions \cup {h} /\ gauge' = Cardinality(sessions')
      BY <1>3, <2>2 DEF Authenticated
    <3>2. Entered' = Entered \cup {h}
      BY <1>3, <2>2 DEF Authenticated, Entered
    <3>3. Deleted' = Deleted
      BY <1>3 DEF Authenticated, Deleted
    <3>4. h \notin Deleted
      BY <1>3 DEF Authenticated, Deleted
    <3> QED
      BY <3>1, <3>2, <3>3, <3>4
  <2> QED
    BY <2>1, <2>2
<1>4. ASSUME NEW h \in Http, DeleteSession(h)
      PROVE  MapHoldsOpenSessions'
  <2>1. PICK session \in Told \cup {NoId} :
          /\ Arrives(h, "delete", session)
          /\ Known(session)
          /\ sessions' = sessions \ {session}
          /\ gauge' = Cardinality(sessions')
          /\ reply' = [g \in Http |-> IF g = h THEN "ok"
                                      ELSE IF g \in Streams(session) THEN "ended" ELSE reply[g]]
    BY <1>4 DEF DeleteSession
  <2>2. Entered' = Entered
    BY <2>1, Arrival DEF Entered, Streams
  <2>3. Deleted' = Deleted \cup {session}
    <3>1. \A g \in Http : (kind'[g] = "delete" /\ reply'[g] = "ok")
            <=> (g = h \/ (kind[g] = "delete" /\ reply[g] = "ok"))
      BY <2>1, Arrival DEF Streams
    <3>2. id'[h] = session /\ \A g \in Http : g # h => id'[g] = id[g]
      BY <2>1, Arrival
    <3>3. ~(kind[h] = "delete" /\ reply[h] = "ok")
      BY <2>1, Arrival
    <3> QED
      BY <3>1, <3>2, <3>3 DEF Deleted
  <2> QED
    BY <2>1, <2>2, <2>3
<1>5. CASE Restart
  <2>1. Entered' = {}
    BY <1>5 DEF Restart, Entered
  <2>2. sessions' = {} /\ gauge' = 0
    BY <1>5 DEF Restart
  <2> QED
    BY <2>1, <2>2, FS_EmptySet
<1>6. CASE UNCHANGED vars
  BY <1>6 DEF vars, Entered, Deleted
<1> QED
  BY <1>1, <1>2, <1>3, <1>4, <1>5, <1>6 DEF Next, Proceed

\* Every step leaves the calls of open sessions answered: only DELETE and a restart
\* take a session from the map, and both end its streams with it.
LEMMA AnsweredStep ==
  TypeOK /\ TypeOK' /\ RequestsInv /\ AnsweredUnlessClosed /\ [Next]_vars
    => AnsweredUnlessClosed'
<1> SUFFICES ASSUME TypeOK, TypeOK', RequestsInv, AnsweredUnlessClosed, [Next]_vars
             PROVE AnsweredUnlessClosed'
  OBVIOUS
<1> USE McpSessionsAssumption
    DEF TypeOK, NoId, Answer, Leave, Nothing, Known, RequestsInv, RequestInv,
        FreshRequest, OpenRequest, IdWasTold, ToolOfCall
<1>1. ASSUME NEW h \in Http, Refused(h) \/ PostInitialize(h) \/ GetStream(h) \/ DeleteUnknown(h)
      PROVE  AnsweredUnlessClosed'
  <2>1. PICK what, session : what # "call" /\ Arrives(h, what, session)
    BY <1>1 DEF Refused, PostInitialize, GetStream, DeleteUnknown
  <2>2. sessions' = sessions /\ tool' = tool /\ \A g \in Http : g # h => reply'[g] = reply[g]
    BY <1>1 DEF Refused, PostInitialize, GetStream, DeleteUnknown
  <2> QED
    BY <2>1, <2>2, Arrival DEF AnsweredUnlessClosed
<1>2. ASSUME NEW h \in Http, PostCall(h)
      PROVE  AnsweredUnlessClosed'
  <2>1. PICK session \in Told \cup {NoId} :
          /\ Arrives(h, "call", session)
          /\ \/ /\ session \in sessions /\ reply' = reply
                /\ tool' = [tool EXCEPT ![h] = "running"]
             \/ reply' = [reply EXCEPT ![h] = "400"] /\ tool' = tool
    BY <1>2 DEF PostCall
  <2>2. sessions' = sessions
    BY <1>2 DEF PostCall
  <2> QED
    BY <2>1, <2>2, Arrival DEF AnsweredUnlessClosed
<1>3. ASSUME NEW h \in Http, DeleteSession(h)
      PROVE  AnsweredUnlessClosed'
  <2>1. PICK session \in Told \cup {NoId} :
          /\ Arrives(h, "delete", session)
          /\ sessions' = sessions \ {session}
          /\ reply' = [g \in Http |-> IF g = h THEN "ok"
                                      ELSE IF g \in Streams(session) THEN "ended" ELSE reply[g]]
          /\ tool' = tool
    BY <1>3 DEF DeleteSession
  <2> QED
    BY <2>1, Arrival DEF AnsweredUnlessClosed, Streams
<1>4. ASSUME NEW h \in Http, AuthenticationFails(h)
      PROVE  AnsweredUnlessClosed'
  BY <1>4 DEF AuthenticationFails, AnsweredUnlessClosed
<1>5. ASSUME NEW h \in Http, Authenticated(h)
      PROVE  AnsweredUnlessClosed'
  <2>1. h # NoId
    BY McpSessionsAssumption DEF Http, NoId
  <2>2. reply[h] = "none"
    BY <1>5 DEF Authenticated, RequestsInv, RequestInv, OpenRequest
  <2>3. \A g \in Http : id[g] # h
    BY <2>1, <2>2 DEF RequestsInv, RequestInv, IdWasTold
  <2> QED
    BY <1>5, <2>3 DEF Authenticated, AnsweredUnlessClosed
<1>6. ASSUME NEW h \in Http, ToolReturns(h)
      PROVE  AnsweredUnlessClosed'
  BY <1>6 DEF ToolReturns, AnsweredUnlessClosed
<1>7. ASSUME NEW h \in Http, ClientLeaves(h)
      PROVE  AnsweredUnlessClosed'
  BY <1>7 DEF ClientLeaves, AnsweredUnlessClosed
<1>8. CASE Restart
  BY <1>8 DEF Restart, AnsweredUnlessClosed
<1>9. CASE UNCHANGED vars
  BY <1>9 DEF vars, AnsweredUnlessClosed
<1> QED
  BY <1>1, <1>2, <1>3, <1>4, <1>5, <1>6, <1>7, <1>8, <1>9 DEF Next, Proceed

-----------------------------------------------------------------------------
\* The variables of the /mcp endpoint keep their types; in particular a stream is
\* always one of a session in the map, and a session has at most one event
\* stream (http.ts, the GET and DELETE handlers).
THEOREM TypeCorrect == Spec => []TypeOK
<1>1. Init => TypeOK /\ RequestsInv
  BY InitTypeOK, InitRequestsInv
<1>2. TypeOK /\ RequestsInv /\ [Next]_vars => TypeOK' /\ RequestsInv'
  BY TypeStep, RequestsStep
<1> QED
  BY <1>1, <1>2, PTL DEF Spec

\* What is said of the requests holds throughout, whatever arrives, leaves or
\* is closed.
THEOREM RequestsInvariant == Spec => []RequestsInv
<1>1. Init => TypeOK /\ RequestsInv
  BY InitTypeOK, InitRequestsInv
<1>2. TypeOK /\ RequestsInv /\ [Next]_vars => TypeOK' /\ RequestsInv'
  BY TypeStep, RequestsStep
<1> QED
  BY <1>1, <1>2, PTL DEF Spec

\* The map holds the sessions initialised in this process and not deleted, and
\* the gauge counts them (http.ts, onsessioninitialized and onclose).
THEOREM MapFollowsSessions == Spec => []MapHoldsOpenSessions
<1>1. Init => MapHoldsOpenSessions
  <2> SUFFICES ASSUME Init PROVE MapHoldsOpenSessions
    OBVIOUS
  <2>1. Entered = {} /\ sessions = {} /\ gauge = 0
    BY DEF Init, Entered
  <2> QED
    BY <2>1, FS_EmptySet DEF MapHoldsOpenSessions
<1>2. TypeOK /\ TypeOK' /\ RequestsInv /\ MapHoldsOpenSessions /\ [Next]_vars
        => MapHoldsOpenSessions'
  BY MapStep
<1> QED
  BY <1>1, <1>2, TypeCorrect, RequestsInvariant, PTL DEF Spec

\* The result of a tool reaches its caller unless it left or its session was
\* closed, and then its stream was ended (http.ts, the POST and DELETE handlers).
THEOREM ResultsReachCallers == Spec => []AnsweredUnlessClosed
<1>1. Init => AnsweredUnlessClosed
  BY DEF Init, AnsweredUnlessClosed
<1>2. TypeOK /\ TypeOK' /\ RequestsInv /\ AnsweredUnlessClosed /\ [Next]_vars
        => AnsweredUnlessClosed'
  BY AnsweredStep
<1> QED
  BY <1>1, <1>2, TypeCorrect, RequestsInvariant, PTL DEF Spec
=============================================================================
