----------------------- MODULE ConsoleSessions_proofs -----------------------
(***************************************************************************)
(* Safety of ConsoleSessions, for every set of calls, keys and tokens and  *)
(* every size of the pool.                                                 *)
(*                                                                         *)
(* A call that enters may evict sessions and share one; a call that        *)
(* reconnects takes the socket of its session away; a call that has        *)
(* connected gives the session its own.  All other steps change a call, a  *)
(* socket or a timestamp and leave the sessions' fields alone, but for the *)
(* credentials or the authenticated flag of the call's own session.        *)
(***************************************************************************)
EXTENDS ConsoleInvariant, FiniteSetTheorems, TLAPS

USE ConsoleSessionsAssumption

-----------------------------------------------------------------------------
(* Type correctness. *)

\* ConsoleSession.close keeps the types of what it clears.
LEMMA CloseType ==
  ASSUME TypeOK, NEW S, CloseSessions(S)
  PROVE  /\ ws' \in [Calls -> Calls \cup {Nobody}]
         /\ authenticated' \in [Calls -> BOOLEAN]
         /\ credentials' \in [Calls -> Tokens \cup {NoToken}]
         /\ socket' \in [Calls -> SocketState]
BY DEF TypeOK, CloseSessions, SocketState

\* Call c gets the session s, after these sessions were evicted.
Enters(c, s, evicted) ==
  /\ CloseSessions(evicted)
  /\ Stored' = (Stored \ evicted) \cup {s}
  /\ sessions' \in [Keys -> Calls \cup {Nobody}]
  /\ session' = [session EXCEPT ![c] = s]
  /\ lastUsed' = [lastUsed EXCEPT ![s] = now]
  /\ disturbed' = [d \in Calls |->
       \/ disturbed[d]
       \/ UnderWay(d) /\ session[d] \in evicted \cup {s}
       \/ d = c /\ \E e \in Calls : UnderWay(e) /\ session[e] = s]

\* A call enters with a session that is stored, or with one of its own.
LEMMA EnterFacts ==
  ASSUME TypeOK, NEW c \in Calls, NEW k \in Keys, NEW t \in Tokens, Enter(c, k, t)
  PROVE  \E evicted \in Evictions, s \in Calls : Enters(c, s, evicted)
<1>1. PICK evicted \in Evictions :
       LET found == IF sessions[k] \in evicted THEN Nobody ELSE sessions[k]
           s == IF found = Nobody THEN c ELSE found
       IN /\ CloseSessions(evicted)
          /\ sessions' = [q \in Keys |-> IF q = k THEN s
                                         ELSE IF sessions[q] \in evicted THEN Nobody
                                         ELSE sessions[q]]
          /\ session' = [session EXCEPT ![c] = s]
          /\ lastUsed' = [lastUsed EXCEPT ![s] = now]
          /\ disturbed' = [d \in Calls |->
               \/ disturbed[d]
               \/ UnderWay(d) /\ session[d] \in evicted \cup {s}
               \/ d = c /\ \E e \in Calls : UnderWay(e) /\ session[e] = s]
  BY DEF Enter
<1> DEFINE found == IF sessions[k] \in evicted THEN Nobody ELSE sessions[k]
           s == IF found = Nobody THEN c ELSE found
<1>2. s \in Calls
  BY DEF TypeOK
<1>3. sessions[k] # Nobody /\ sessions[k] \notin evicted => s = sessions[k]
  OBVIOUS
<1> HIDE DEF s, found
<1>4. sessions' = [q \in Keys |-> IF q = k THEN s
                                  ELSE IF sessions[q] \in evicted THEN Nobody
                                  ELSE sessions[q]]
  BY <1>1 DEF s, found
<1>5. sessions' \in [Keys -> Calls \cup {Nobody}]
  BY <1>2, <1>4 DEF TypeOK
<1>6. Stored' = (Stored \ evicted) \cup {s}
  <2>1. s # Nobody
    BY <1>2
  <2>2. ASSUME NEW x \in Stored' PROVE x \in (Stored \ evicted) \cup {s}
    BY <1>4, <2>2 DEF Stored
  <2>3. s \in Stored'
    BY <1>4, <2>1 DEF Stored
  <2>4. ASSUME NEW x \in Stored \ evicted PROVE x \in Stored' \cup {s}
    BY <1>3, <1>4, <2>4 DEF Stored
  <2> QED
    BY <2>2, <2>3, <2>4
<1> QED
  BY <1>1, <1>2, <1>5, <1>6 DEF s, found, Enters

\* Every step keeps the types.
LEMMA TypeStep == TypeOK /\ CallsHaveSessions /\ [Next]_vars => TypeOK'
<1> SUFFICES ASSUME TypeOK, CallsHaveSessions, [Next]_vars PROVE TypeOK'
  OBVIOUS
<1> USE DEF TypeOK, PC, Result, SocketState, fields, calls
<1>1. ASSUME NEW c \in Calls, NEW k \in Keys, NEW t \in Tokens, Enter(c, k, t)
      PROVE  TypeOK'
  <2>1. PICK evicted \in Evictions, s \in Calls : Enters(c, s, evicted)
    BY <1>1, EnterFacts
  <2>2. /\ token' = [token EXCEPT ![c] = t]
        /\ pc' = [pc EXCEPT ![c] = "import"]
        /\ UNCHANGED <<now, crashed, using, result>>
    BY <1>1 DEF Enter
  <2> QED
    BY <2>1, <2>2, CloseType DEF Enters
<1>2. ASSUME NEW c \in Calls, Reuse(c) PROVE TypeOK'
  BY <1>2 DEF Reuse, Goes
<1>3. ASSUME NEW c \in Calls, Reconnect(c) PROVE TypeOK'
  BY <1>3, CloseType DEF Reconnect, Goes
<1>4. ASSUME NEW c \in Calls, OpenSocket(c) \/ CannotOpen(c) PROVE TypeOK'
  BY <1>4 DEF OpenSocket, CannotOpen, SetCredentials, Socket, Goes, Fail
<1>5. ASSUME NEW c \in Calls, AuthTimesOut(c) \/ AuthTimesOutConnecting(c) PROVE TypeOK'
  BY <1>5 DEF AuthTimesOut, AuthTimesOutConnecting, Shaking, Socket, Fail
<1>6. ASSUME NEW c \in Calls, SetSocket(c) \/ Collect(c) PROVE TypeOK'
  BY <1>6 DEF SetSocket, Collect, Goes, CallsHaveSessions
<1>7. ASSUME NEW c \in Calls, NotConnected(c) \/ CollectEnds(c) PROVE TypeOK'
  BY <1>7 DEF NotConnected, CollectEnds, EndUsing
<1>8. ASSUME NEW c \in Calls,
             Opens(c) \/ ConnectFails(c) \/ AuthSucceeds(c) \/ AuthFails(c) \/ ClosedEarly(c)
      PROVE  TypeOK'
  <2>1. CASE Opens(c) \/ ConnectFails(c)
    BY <2>1 DEF Opens, ConnectFails, Shaking, Socket, Fail
  <2>2. CASE AuthSucceeds(c) \/ AuthFails(c)
    BY <2>2 DEF AuthSucceeds, RestOfChunk, AuthFails, Shaking, Socket, Goes, Fail
  <2>3. CASE ClosedEarly(c)
    BY <2>3 DEF ClosedEarly, Shaking, Socket, Goes, Fail
  <2> QED
    BY <1>8, <2>1, <2>2, <2>3
<1>9. ASSUME NEW c \in Calls, TokenExpires(c) \/ Dropped(c) \/ ProtocolError(c) PROVE TypeOK'
  <2>1. CASE TokenExpires(c) \/ Dropped(c)
    BY <2>1 DEF TokenExpires, Dropped, Socket
  <2>2. CASE ProtocolError(c)
    BY <2>2 DEF ProtocolError
  <2> QED
    BY <1>9, <2>1, <2>2
<1>10. CASE Tick
  BY <1>10 DEF Tick
<1>11. CASE UNCHANGED vars
  BY <1>11 DEF vars
<1> HIDE DEF TypeOK, PC, Result, SocketState, fields, calls
<1> QED
  BY <1>1, <1>2, <1>3, <1>4, <1>5, <1>6, <1>7, <1>8, <1>9, <1>10, <1>11
     DEF Next, Continues, Event

-----------------------------------------------------------------------------
(* The steps of a call between its entry and its end. *)

\* Who holds which session does not change.
SameSessions == UNCHANGED <<sessions, ws, session, token, disturbed>>

\* Opens, errors, closings and the timer move a call on its handshake, or end
\* it: its socket is not accepted yet, so no session holds it.
LEMMA ShakingStep ==
  ASSUME IInv, NEW c \in Calls, SameSessions, UNCHANGED <<authenticated, credentials>>,
         pc[c] = "handshake", pc'[c] \in {"handshake", "done"},
         pc'[c] = "done" => socket'[c] \notin {"open", "accepted"},
         result'[c] # "not_connected" \/ result'[c] = result[c],
         \A d \in Calls \ {c} :
           pc'[d] = pc[d] /\ socket'[d] = socket[d] /\ result'[d] = result[d]
  PROVE  SessionInv'
<1> USE DEF IInv, SessionInv, SameSessions
<1>1. CallsHaveSessions' /\ SocketsOfCalls'
  BY DEF CallsHaveSessions, SocketsOfCalls
<1>2. \A s \in Calls : ws[s] # c
  BY DEF HeldSockets
<1>3. HeldSockets' /\ ReadyCalls'
  BY <1>2 DEF HeldSockets, ReadyCalls, CallsHaveSessions, TypeOK
<1>4. OverlapsAreKnown' /\ HeldWhileConnecting'
  BY DEF OverlapsAreKnown, HeldWhileConnecting, UnderWay
<1>5. UndisturbedSession'
  BY DEF UndisturbedSession, UnderWay, Stored
<1>6. OpenSocketsHeld' /\ ConnectedWhenAlone'
  BY DEF OpenSocketsHeld, ConnectedWhenAlone, IsOpen, Stored
<1> QED
  BY <1>1, <1>3, <1>4, <1>5, <1>6

\* Calls that have connected go on to collect, or end.
LEMMA CollectingStep ==
  ASSUME IInv, SameSessions, UNCHANGED <<authenticated, credentials, socket>>,
         \A d \in Calls :
           \/ pc'[d] = pc[d] /\ result'[d] = result[d]
           \/ /\ pc[d] \in {"connected", "collect"} /\ pc'[d] \in {"collect", "done"}
              /\ result'[d] = "not_connected" => result[d] = "not_connected" \/ disturbed[d]
  PROVE  SessionInv'
<1> USE DEF IInv, SessionInv, SameSessions
<1>1. CallsHaveSessions' /\ SocketsOfCalls'
  BY DEF CallsHaveSessions, SocketsOfCalls
<1>2. HeldSockets' /\ ReadyCalls'
  BY DEF HeldSockets, ReadyCalls
<1>3. OverlapsAreKnown' /\ HeldWhileConnecting'
  BY DEF OverlapsAreKnown, HeldWhileConnecting, UnderWay
<1>4. UndisturbedSession'
  BY DEF UndisturbedSession, UnderWay, Stored
<1>5. OpenSocketsHeld' /\ ConnectedWhenAlone'
  BY DEF OpenSocketsHeld, ConnectedWhenAlone, IsOpen, Stored
<1> QED
  BY <1>1, <1>2, <1>3, <1>4, <1>5

\* A socket is dropped by the other end while no call is about to send on it.
LEMMA DroppedStep ==
  ASSUME IInv, NEW c \in Calls, Dropped(c)
  PROVE  SessionInv'
<1> USE DEF IInv, SessionInv, Dropped, Socket, fields, calls
<1>1. /\ \A d \in Calls : pc[d] \notin {"closing", "settled", "connected"}
      /\ socket[c] = "accepted" /\ socket'[c] = "dropped"
      /\ \A d \in Calls \ {c} : socket'[d] = socket[d]
  BY DEF Quiet, TypeOK
<1>2. CallsHaveSessions' /\ SocketsOfCalls'
  BY <1>1 DEF CallsHaveSessions, SocketsOfCalls
<1>3. HeldSockets' /\ ReadyCalls'
  BY <1>1 DEF HeldSockets, ReadyCalls
<1>4. OverlapsAreKnown' /\ HeldWhileConnecting' /\ UndisturbedSession'
  BY DEF OverlapsAreKnown, HeldWhileConnecting, UndisturbedSession, UnderWay, Stored
<1>5. OpenSocketsHeld' /\ ConnectedWhenAlone'
  BY <1>1 DEF OpenSocketsHeld, ConnectedWhenAlone, IsOpen, Stored
<1> QED
  BY <1>2, <1>3, <1>4, <1>5

\* Wings accepts the token of a call, which marks its session; the socket may be
\* gone with the rest of the chunk.
LEMMA AuthSucceedsStep ==
  ASSUME IInv, NEW c \in Calls, AuthSucceeds(c)
  PROVE  SessionInv'
<1> USE DEF IInv, SessionInv, AuthSucceeds, RestOfChunk, Socket, Goes, calls
<1>1. /\ pc[c] = "handshake" /\ pc'[c] = "settled" /\ socket'[c] \in {"accepted", "dropped"}
      /\ \A d \in Calls \ {c} : pc'[d] = pc[d] /\ socket'[d] = socket[d]
      /\ \A d \in Calls : pc[d] \notin {"closing", "settled", "connected"}
      /\ \A s \in Calls : authenticated[s] => authenticated'[s]
      /\ authenticated'[session[c]]
  BY DEF TypeOK, Quiet, CallsHaveSessions
<1>2. CallsHaveSessions' /\ SocketsOfCalls'
  BY <1>1 DEF CallsHaveSessions, SocketsOfCalls
<1>3. \A s \in Calls : ws[s] # c
  BY <1>1 DEF HeldSockets
<1>4. HeldSockets' /\ ReadyCalls'
  BY <1>1, <1>3 DEF HeldSockets, ReadyCalls
<1>5. OverlapsAreKnown' /\ HeldWhileConnecting'
  BY <1>1 DEF OverlapsAreKnown, HeldWhileConnecting, UnderWay
<1>6. UndisturbedSession'
  BY <1>1 DEF UndisturbedSession, UnderWay, Stored
<1>7. OpenSocketsHeld' /\ ConnectedWhenAlone'
  BY <1>1 DEF OpenSocketsHeld, ConnectedWhenAlone, IsOpen, Stored
<1> QED
  BY <1>2, <1>4, <1>5, <1>6, <1>7

\* A call takes the connection of its session over as it is.
LEMMA ReuseStep ==
  ASSUME IInv, NEW c \in Calls, Reuse(c)
  PROVE  SessionInv'
<1> USE DEF IInv, SessionInv, Reuse, Goes, fields, calls
<1>1. /\ pc[c] = "import" /\ pc'[c] = "connected"
      /\ \A d \in Calls \ {c} : pc'[d] = pc[d]
      /\ Reusable(session[c], token[c])
  BY DEF TypeOK
<1>2. CallsHaveSessions' /\ SocketsOfCalls'
  BY <1>1 DEF CallsHaveSessions, SocketsOfCalls
<1>3. session[c] \in Calls /\ ws[session[c]] \in Calls /\ IsOpen(ws[session[c]])
  BY <1>1 DEF CallsHaveSessions, Reusable, TypeOK
<1>4. socket[ws[session[c]]] = "accepted"
  BY <1>3 DEF HeldSockets, IsOpen
<1>5. HeldSockets' /\ ReadyCalls'
  BY <1>1, <1>4 DEF HeldSockets, ReadyCalls
<1>6. OverlapsAreKnown' /\ HeldWhileConnecting'
  BY <1>1 DEF OverlapsAreKnown, HeldWhileConnecting, UnderWay
<1>7. UndisturbedSession'
  BY <1>1 DEF UndisturbedSession, Reusable, UnderWay, Stored
<1>8. OpenSocketsHeld' /\ ConnectedWhenAlone'
  BY <1>1 DEF OpenSocketsHeld, ConnectedWhenAlone, SocketsOfCalls, IsOpen, Stored
<1> QED
  BY <1>2, <1>5, <1>6, <1>7, <1>8

\* A call opens its socket, or fails to: its credentials are the session's now.
LEMMA OpenStep ==
  ASSUME IInv, NEW c \in Calls, OpenSocket(c) \/ CannotOpen(c)
  PROVE  SessionInv'
<1> USE DEF IInv, SessionInv, calls
<1>1. /\ SameSessions /\ authenticated' = authenticated
      /\ pc[c] = "closing" /\ pc'[c] \in {"handshake", "done"}
      /\ pc'[c] = "done" => socket'[c] \notin {"open", "accepted"}
      /\ result'[c] # "not_connected" \/ result'[c] = result[c]
      /\ \A d \in Calls \ {c} :
           pc'[d] = pc[d] /\ socket'[d] = socket[d] /\ result'[d] = result[d]
      /\ credentials' = [credentials EXCEPT ![session[c]] = token[c]]
  BY DEF OpenSocket, CannotOpen, SetCredentials, Socket, Goes, Fail, TypeOK, SameSessions,
     SocketsOfCalls
<1> USE DEF SameSessions
<1>2. CallsHaveSessions' /\ SocketsOfCalls'
  BY <1>1 DEF CallsHaveSessions, SocketsOfCalls
<1>3. \A s \in Calls : ws[s] # c
  BY <1>1 DEF HeldSockets
<1>4. \A s, u \in Calls : ws[s] = u => credentials'[s] = credentials[s] \/ disturbed[u]
  BY <1>1 DEF HeldWhileConnecting, TypeOK
<1>5. HeldSockets' /\ ReadyCalls'
  BY <1>1, <1>3, <1>4 DEF HeldSockets, ReadyCalls, CallsHaveSessions, TypeOK
<1>6. OverlapsAreKnown' /\ HeldWhileConnecting'
  BY <1>1 DEF OverlapsAreKnown, HeldWhileConnecting, UnderWay
<1>7. UndisturbedSession'
  <2>1. \A d \in Calls : disturbed[d] \/ ~UnderWay(d) \/ d = c \/ session[d] # session[c]
    BY <1>1 DEF OverlapsAreKnown, UnderWay
  <2>2. credentials'[session[c]] = token[c]
    BY <1>1 DEF CallsHaveSessions, TypeOK
  <2> QED
    BY <1>1, <2>1, <2>2 DEF UndisturbedSession, UnderWay, Stored, TypeOK
<1>8. OpenSocketsHeld' /\ ConnectedWhenAlone'
  BY <1>1 DEF OpenSocketsHeld, ConnectedWhenAlone, IsOpen, Stored
<1> QED
  BY <1>2, <1>5, <1>6, <1>7, <1>8

\* A call that has connected gives the session its socket: the one that it
\* replaces belongs to a call that overlapped it.
LEMMA SetSocketStep ==
  ASSUME IInv, NEW c \in Calls, SetSocket(c)
  PROVE  SessionInv'
<1> USE DEF IInv, SessionInv, SetSocket, Goes, calls
<1> DEFINE s == session[c]
<1>1. /\ pc[c] = "settled" /\ pc'[c] = "connected"
      /\ socket[c] \in {"accepted", "dropped"}
      /\ \A d \in Calls \ {c} : pc'[d] = pc[d]
      /\ s \in Calls /\ ws'[s] = c
      /\ \A q \in Calls \ {s} : ws'[q] = ws[q]
  BY DEF TypeOK, SocketsOfCalls, CallsHaveSessions
<1>2. CallsHaveSessions' /\ SocketsOfCalls'
  BY <1>1 DEF CallsHaveSessions, SocketsOfCalls
<1>3. HeldSockets'
  BY <1>1 DEF HeldSockets, UndisturbedSession
<1>4. \A d \in Calls : d # c /\ UnderWay(d) /\ session[d] = s => disturbed[c] /\ disturbed[d]
  BY <1>1 DEF OverlapsAreKnown, UnderWay
<1>5. ReadyCalls'
  BY <1>1, <1>4 DEF ReadyCalls, CallsHaveSessions, UnderWay
<1>6. OverlapsAreKnown' /\ HeldWhileConnecting'
  BY <1>1, <1>4 DEF OverlapsAreKnown, HeldWhileConnecting, CallsHaveSessions, UnderWay
<1>7. UndisturbedSession'
  BY <1>1, <1>4 DEF UndisturbedSession, UnderWay, Stored
<1>8. OpenSocketsHeld' /\ ConnectedWhenAlone'
  BY <1>1 DEF OpenSocketsHeld, ConnectedWhenAlone, HeldWhileConnecting, UndisturbedSession,
     IsOpen, Stored, UnderWay
<1> QED
  BY <1>2, <1>3, <1>5, <1>6, <1>7, <1>8

-----------------------------------------------------------------------------
(* The steps that close sessions. *)

\* Closing sessions closes the open sockets they hold, and only those.
LEMMA CloseFacts ==
  ASSUME IInv, NEW S \in SUBSET Calls, CloseSessions(S)
  PROVE  /\ \A s \in Calls :
              IF s \in S THEN ws'[s] = Nobody
              ELSE /\ ws'[s] = ws[s] /\ credentials'[s] = credentials[s]
                   /\ authenticated'[s] = authenticated[s]
         /\ \A u \in Calls :
              \/ socket'[u] = socket[u]
              \/ /\ socket[u] \in {"open", "accepted"} /\ socket'[u] = "closed"
                 /\ session[u] \in S /\ ws[session[u]] = u
         /\ \A u \in Calls :
              session[u] \in S /\ ws[session[u]] = u => socket'[u] \notin {"open", "accepted"}
<1> USE DEF CloseSessions
<1>1. \A s \in Calls :
        IF s \in S THEN ws'[s] = Nobody
        ELSE /\ ws'[s] = ws[s] /\ credentials'[s] = credentials[s]
             /\ authenticated'[s] = authenticated[s]
  BY DEF IInv, TypeOK
<1>2. ASSUME NEW u \in Calls, NEW s \in S, ws[s] = u
      PROVE  session[u] = s
  BY <1>2 DEF IInv, SessionInv, HeldSockets, TypeOK
<1>3. ASSUME NEW u \in Calls
      PROVE  \/ socket'[u] = socket[u]
             \/ /\ socket[u] \in {"open", "accepted"} /\ socket'[u] = "closed"
                /\ session[u] \in S /\ ws[session[u]] = u
  BY <1>2 DEF IsOpen
<1>4. ASSUME NEW u \in Calls, session[u] \in S, ws[session[u]] = u
      PROVE  socket'[u] \notin {"open", "accepted"}
  BY <1>4 DEF IsOpen
<1> QED
  BY <1>1, <1>3, <1>4

\* A call that cannot reuse the connection closes its session: the calls that
\* are at work on it overlap this one.
LEMMA ReconnectStep ==
  ASSUME IInv, NEW c \in Calls, Reconnect(c)
  PROVE  SessionInv'
<1> USE DEF IInv, SessionInv
<1> DEFINE S == {session[c]}
<1>1. /\ pc[c] = "import" /\ pc'[c] = "closing"
      /\ \A d \in Calls \ {c} : pc'[d] = pc[d]
      /\ UNCHANGED <<sessions, session, token, disturbed, result>>
      /\ S \subseteq Calls /\ CloseSessions(S)
  BY DEF Reconnect, Goes, calls, TypeOK, CallsHaveSessions
<1>2. /\ \A s \in Calls :
           IF s \in S THEN ws'[s] = Nobody
           ELSE /\ ws'[s] = ws[s] /\ credentials'[s] = credentials[s]
                /\ authenticated'[s] = authenticated[s]
      /\ \A u \in Calls :
           \/ socket'[u] = socket[u]
           \/ /\ socket[u] \in {"open", "accepted"} /\ socket'[u] = "closed"
              /\ session[u] \in S /\ ws[session[u]] = u
      /\ \A u \in Calls :
           session[u] \in S /\ ws[session[u]] = u => socket'[u] \notin {"open", "accepted"}
  BY <1>1, CloseFacts
<1>3. CallsHaveSessions' /\ OverlapsAreKnown'
  BY <1>1 DEF CallsHaveSessions, OverlapsAreKnown, UnderWay
<1>4. SocketsOfCalls'
  BY <1>1, <1>2 DEF SocketsOfCalls, HeldSockets, CallsHaveSessions
<1>5. HeldSockets'
  BY <1>1, <1>2 DEF HeldSockets
<1>6. ReadyCalls'
  BY <1>1, <1>2 DEF ReadyCalls, HeldSockets, CallsHaveSessions, TypeOK
<1>7. HeldWhileConnecting'
  BY <1>1, <1>2 DEF HeldWhileConnecting, CallsHaveSessions
<1>8. UndisturbedSession'
  <2>1. \A d \in Calls \ {c} : disturbed[d] \/ ~UnderWay(d) \/ session[d] \notin S
    BY <1>1 DEF OverlapsAreKnown, UnderWay
  <2> QED
    BY <1>1, <1>2, <2>1 DEF UndisturbedSession, CallsHaveSessions, UnderWay, Stored
<1>9. OpenSocketsHeld' /\ ConnectedWhenAlone'
  BY <1>1, <1>2 DEF OpenSocketsHeld, ConnectedWhenAlone, CallsHaveSessions, IsOpen, Stored
<1> QED
  BY <1>3, <1>4, <1>5, <1>6, <1>7, <1>8, <1>9

\* A call that enters disturbs the calls of its session and of those that it
\* evicts, and is disturbed by the calls it finds at work on its session.
LEMMA EnterStep ==
  ASSUME IInv, NEW c \in Calls, NEW k \in Keys, NEW t \in Tokens, Enter(c, k, t)
  PROVE  SessionInv'
<1> USE DEF IInv, SessionInv
<1>1. PICK evicted \in Evictions, s \in Calls : Enters(c, s, evicted)
  BY EnterFacts
<1>2. /\ pc[c] = "idle" /\ pc'[c] = "import" /\ token'[c] = t /\ result' = result
      /\ \A d \in Calls \ {c} : pc'[d] = pc[d] /\ token'[d] = token[d]
  BY DEF Enter, TypeOK
<1>3. /\ session'[c] = s
      /\ \A d \in Calls \ {c} : session'[d] = session[d]
      /\ Stored' = (Stored \ evicted) \cup {s}
      /\ CloseSessions(evicted)
  BY <1>1 DEF Enters, TypeOK
<1>4. /\ \A d \in Calls : disturbed[d] => disturbed'[d]
      /\ \A d \in Calls :
           UnderWay(d) /\ session[d] \in evicted \cup {s} => disturbed'[d]
      /\ \A e \in Calls : UnderWay(e) /\ session[e] = s => disturbed'[c]
  BY <1>1 DEF Enters
<1>5. /\ \A q \in Calls :
           IF q \in evicted THEN ws'[q] = Nobody
           ELSE /\ ws'[q] = ws[q] /\ credentials'[q] = credentials[q]
                /\ authenticated'[q] = authenticated[q]
      /\ \A u \in Calls :
           \/ socket'[u] = socket[u]
           \/ /\ socket[u] \in {"open", "accepted"} /\ socket'[u] = "closed"
              /\ session[u] \in evicted /\ ws[session[u]] = u
      /\ \A u \in Calls :
           session[u] \in evicted /\ ws[session[u]] = u
             => socket'[u] \notin {"open", "accepted"}
  <2>1. Stored \subseteq Calls
    BY DEF Stored, TypeOK
  <2>2. PICK S \in Overflows(Stored \ IdleSessions) : evicted = IdleSessions \cup S
    BY DEF Evictions
  <2>3. S \subseteq Stored
    BY DEF Overflows
  <2>4. evicted \subseteq Calls
    BY <2>1, <2>2, <2>3 DEF IdleSessions
  <2> QED
    BY <1>3, <2>4, CloseFacts
<1>6. CallsHaveSessions'
  BY <1>2, <1>3 DEF CallsHaveSessions
<1>7. OverlapsAreKnown'
  BY <1>2, <1>3, <1>4 DEF OverlapsAreKnown, UnderWay
<1>8. SocketsOfCalls'
  BY <1>2, <1>3, <1>5 DEF SocketsOfCalls, HeldSockets, CallsHaveSessions
<1>9. HeldSockets'
  BY <1>2, <1>3, <1>4, <1>5 DEF HeldSockets
<1>10. ReadyCalls'
  BY <1>2, <1>3, <1>4, <1>5 DEF ReadyCalls, HeldSockets, CallsHaveSessions, TypeOK
<1>11. HeldWhileConnecting'
  BY <1>2, <1>3, <1>4, <1>5 DEF HeldWhileConnecting, CallsHaveSessions
<1>12. UndisturbedSession'
  BY <1>2, <1>3, <1>4, <1>5 DEF UndisturbedSession, CallsHaveSessions, UnderWay
<1>13. OpenSocketsHeld' /\ ConnectedWhenAlone'
  BY <1>2, <1>3, <1>4, <1>5 DEF OpenSocketsHeld, ConnectedWhenAlone, CallsHaveSessions, IsOpen
<1> QED
  BY <1>6, <1>7, <1>8, <1>9, <1>10, <1>11, <1>12, <1>13

\* evictOverflow leaves MaxSessions at the most, and the call adds one.
LEMMA PoolStep ==
  ASSUME IInv, NEW c \in Calls, NEW k \in Keys, NEW t \in Tokens, Enter(c, k, t)
  PROVE  FewSessions'
<1>1. PICK evicted \in Evictions, s \in Calls : Enters(c, s, evicted)
  BY EnterFacts DEF IInv
<1> DEFINE left == Stored \ IdleSessions
<1>2. PICK S \in Overflows(left) : evicted = IdleSessions \cup S
  BY DEF Evictions
<1>3. IsFiniteSet(left) /\ Cardinality(left) \in Nat
  BY FS_Subset, FS_CardinalityType DEF IInv, FewSessions
<1>4. /\ S \subseteq left
      /\ Cardinality(left \ S) = IF Cardinality(left) > MaxSessions
                                   THEN MaxSessions ELSE Cardinality(left)
  BY DEF Overflows
<1>5. IsFiniteSet(left \ S) /\ Cardinality(left \ S) <= MaxSessions
  BY <1>3, <1>4, FS_Subset
<1>6. Stored' = (left \ S) \cup {s}
  BY <1>1, <1>2 DEF Enters
<1> HIDE DEF left
<1>7. Cardinality(left \ S) \in Nat
  BY <1>5, FS_CardinalityType
<1>8. /\ IsFiniteSet((left \ S) \cup {s})
      /\ Cardinality((left \ S) \cup {s}) <= Cardinality(left \ S) + 1
  <2>1. /\ IsFiniteSet((left \ S) \cup {s})
        /\ \/ Cardinality((left \ S) \cup {s}) = Cardinality(left \ S)
           \/ Cardinality((left \ S) \cup {s}) = Cardinality(left \ S) + 1
    BY <1>5, FS_AddElement, Zenon
  <2> QED
    BY <1>7, <2>1
<1>9. Cardinality((left \ S) \cup {s}) \in Nat
  BY <1>8, FS_CardinalityType
<1> QED
  BY <1>5, <1>6, <1>7, <1>8, <1>9 DEF FewSessions, AtMostOneTooMany

-----------------------------------------------------------------------------
(* The invariant. *)

\* No call has a socket at first, and no session is stored.
LEMMA InitIInv == Init => IInv
<1> SUFFICES ASSUME Init PROVE IInv
  OBVIOUS
<1> USE DEF Init
<1>1. TypeOK
  BY DEF TypeOK, PC, Result, SocketState
<1>2. SessionInv
  BY DEF SessionInv, CallsHaveSessions, SocketsOfCalls, HeldSockets, ReadyCalls,
     OverlapsAreKnown, HeldWhileConnecting, UndisturbedSession, OpenSocketsHeld,
     ConnectedWhenAlone, UnderWay, IsOpen
<1>3. Stored = {}
  BY DEF Stored
<1>4. FewSessions
  BY <1>3, FS_EmptySet DEF FewSessions, AtMostOneTooMany
<1> QED
  BY <1>1, <1>2, <1>4 DEF IInv

\* The steps of a call that has entered
LEMMA CallStep ==
  ASSUME IInv, NEW c \in Calls, Continues(c) \/ Event(c)
  PROVE  SessionInv' /\ sessions' = sessions
<1> USE DEF fields, calls
<1>1. CASE Reuse(c)
  BY <1>1, ReuseStep DEF Reuse
<1>2. CASE Reconnect(c)
  BY <1>2, ReconnectStep DEF Reconnect
<1>3. CASE OpenSocket(c) \/ CannotOpen(c)
  BY <1>3, OpenStep DEF OpenSocket, CannotOpen
<1>4. CASE SetSocket(c)
  BY <1>4, SetSocketStep DEF SetSocket
<1>5. CASE AuthSucceeds(c)
  BY <1>5, AuthSucceedsStep DEF AuthSucceeds
<1>6. CASE Dropped(c)
  BY <1>6, DroppedStep DEF Dropped
<1>7. CASE \/ Opens(c) \/ ConnectFails(c) \/ AuthFails(c) \/ ClosedEarly(c)
           \/ AuthTimesOut(c) \/ AuthTimesOutConnecting(c)
  <2> USE DEF SameSessions, IInv, TypeOK
  <2>1. SameSessions /\ UNCHANGED <<authenticated, credentials>> /\ pc[c] = "handshake"
    BY <1>7 DEF Opens, ConnectFails, AuthFails, ClosedEarly, AuthTimesOut,
       AuthTimesOutConnecting, Shaking
  <2>2. /\ pc'[c] \in {"handshake", "done"}
        /\ pc'[c] = "done" => socket'[c] \notin {"open", "accepted"}
        /\ result'[c] # "not_connected" \/ result'[c] = result[c]
        /\ \A d \in Calls \ {c} :
             pc'[d] = pc[d] /\ socket'[d] = socket[d] /\ result'[d] = result[d]
    <3>1. CASE Opens(c) \/ ConnectFails(c) \/ AuthFails(c)
      BY <3>1 DEF Opens, ConnectFails, AuthFails, Shaking, Socket, Fail
    <3>2. CASE ClosedEarly(c)
      BY <3>2 DEF ClosedEarly, Shaking, Socket, Goes, Fail
    <3>3. CASE AuthTimesOut(c) \/ AuthTimesOutConnecting(c)
      BY <3>3 DEF AuthTimesOut, AuthTimesOutConnecting, Shaking, Socket, Fail
    <3> QED
      BY <1>7, <3>1, <3>2, <3>3
  <2> HIDE DEF IInv, TypeOK
  <2> QED
    BY <2>1, <2>2, ShakingStep
<1>8. CASE \/ Collect(c) \/ NotConnected(c) \/ CollectEnds(c)
           \/ TokenExpires(c) \/ ProtocolError(c)
  <2> USE DEF SameSessions
  <2>1. SameSessions /\ UNCHANGED <<authenticated, credentials, socket>>
    BY <1>8 DEF Collect, NotConnected, CollectEnds, TokenExpires, ProtocolError
  <2>2. \A d \in Calls :
           \/ pc'[d] = pc[d] /\ result'[d] = result[d]
           \/ /\ pc[d] \in {"connected", "collect"} /\ pc'[d] \in {"collect", "done"}
              /\ result'[d] = "not_connected" => result[d] = "not_connected" \/ disturbed[d]
    <3>1. CASE Collect(c) \/ CollectEnds(c)
      BY <3>1 DEF Collect, CollectEnds, Goes, EndUsing, IInv, TypeOK
    <3>2. CASE NotConnected(c)
      BY <3>2 DEF NotConnected, EndUsing, IInv, TypeOK, SessionInv, UndisturbedSession
    <3>3. CASE TokenExpires(c) \/ ProtocolError(c)
      BY <3>3 DEF TokenExpires, ProtocolError
    <3> QED
      BY <1>8, <3>1, <3>2, <3>3
  <2> QED
    BY <2>1, <2>2, CollectingStep
<1> QED
  BY <1>1, <1>2, <1>3, <1>4, <1>5, <1>6, <1>7, <1>8 DEF Continues, Event

\* Every step keeps the invariant.
LEMMA StepIInv == IInv /\ [Next]_vars => IInv'
<1> SUFFICES ASSUME IInv, [Next]_vars PROVE IInv'
  OBVIOUS
<1>1. TypeOK'
  BY TypeStep DEF IInv, SessionInv
<1>2. ASSUME NEW c \in Calls, NEW k \in Keys, NEW t \in Tokens, Enter(c, k, t)
      PROVE  IInv'
  BY <1>1, <1>2, EnterStep, PoolStep DEF IInv
<1>3. ASSUME NEW c \in Calls, Continues(c) \/ Event(c)
      PROVE  IInv'
  <2>1. FewSessions'
    BY <1>3, CallStep DEF IInv, FewSessions, AtMostOneTooMany, Stored
  <2> QED
    BY <1>1, <1>3, <2>1, CallStep DEF IInv
<1>4. CASE Tick \/ UNCHANGED vars
  <2>1. UNCHANGED <<sessions, ws, authenticated, credentials, socket, pc, session, token,
                    result, disturbed>>
    BY <1>4 DEF Tick, vars, fields, calls
  <2>2. SessionInv'
    BY <2>1 DEF IInv, SessionInv, CallsHaveSessions, SocketsOfCalls, HeldSockets, ReadyCalls,
       OverlapsAreKnown, HeldWhileConnecting, UndisturbedSession, OpenSocketsHeld,
       ConnectedWhenAlone, UnderWay, IsOpen, Stored
  <2>3. FewSessions'
    BY <2>1 DEF IInv, FewSessions, AtMostOneTooMany, Stored
  <2> QED
    BY <1>1, <2>2, <2>3 DEF IInv
<1> QED
  BY <1>2, <1>3, <1>4 DEF Next

\* The invariant that the results about the console sessions rest on
THEOREM SessionInvariant == Spec => []IInv
BY InitIInv, StepIInv, PTL DEF Spec

-----------------------------------------------------------------------------
(* What a caller of the pool can rely on. *)

\* Every variable has its type.
THEOREM TypeCorrect == Spec => []TypeOK
BY SessionInvariant, PTL DEF IInv

\* A call that connected finds its session connected unless another call or
\* an eviction came between, however the calls interleave.
THEOREM ConnectionsKept == Spec => []ConnectedWhenAlone
BY SessionInvariant, PTL DEF IInv, SessionInv

\* The pool exceeds CONSOLE_MAX_SESSIONS by one at the most, for every size of
\* the pool and any number of keys.
THEOREM PoolBound == Spec => []AtMostOneTooMany
BY SessionInvariant, PTL DEF IInv, FewSessions

\* A socket left open by a call that was not disturbed is held by a stored
\* session.
THEOREM SocketsKept == Spec => []NoSocketLost
<1>1. IInv => NoSocketLost
  <2> SUFFICES ASSUME IInv, NEW c \in Calls, pc[c] = "done", IsOpen(c), ~disturbed[c]
               PROVE  \E s \in Stored : ws[s] = c
    BY DEF NoSocketLost
  <2> QED
    BY DEF IInv, SessionInv, OpenSocketsHeld
<1> QED
  BY <1>1, SessionInvariant, PTL

\* Only reuse takes a call from its entry to the end of connect, and only the
\* sending of its request takes it from there to collecting.
LEMMA StepsOfACall ==
  ASSUME IInv, Next, NEW c \in Calls
  PROVE  /\ pc[c] = "import" /\ pc'[c] = "connected" => Reuse(c)
         /\ pc[c] = "connected" /\ pc'[c] = "collect" => Collect(c)
<1> DEFINE Claim == /\ pc[c] = "import" /\ pc'[c] = "connected" => Reuse(c)
                    /\ pc[c] = "connected" /\ pc'[c] = "collect" => Collect(c)
<1>1. TypeOK
  BY DEF IInv
<1>2. ASSUME NEW d \in Calls, NEW k \in Keys, NEW t \in Tokens, Enter(d, k, t)
      PROVE  Claim
  BY <1>1, <1>2 DEF Enter, TypeOK
<1>3. ASSUME NEW d \in Calls, Reuse(d) \/ Collect(d)
      PROVE  Claim
  <2>1. CASE d = c
    BY <1>1, <1>3, <2>1 DEF Reuse, Collect, Goes, TypeOK
  <2>2. CASE d # c
    BY <1>1, <1>3, <2>2 DEF Reuse, Collect, Goes, TypeOK
  <2> QED
    BY <2>1, <2>2
<1>4. ASSUME NEW d \in Calls,
             \/ Reconnect(d) \/ OpenSocket(d) \/ CannotOpen(d)
             \/ AuthTimesOut(d) \/ AuthTimesOutConnecting(d)
      PROVE  Claim
  BY <1>1, <1>4 DEF Reconnect, OpenSocket, CannotOpen, AuthTimesOut, AuthTimesOutConnecting,
     Shaking, Goes, Fail, TypeOK
<1>5. ASSUME NEW d \in Calls, SetSocket(d) \/ NotConnected(d) \/ CollectEnds(d)
      PROVE  Claim
  BY <1>1, <1>5 DEF SetSocket, NotConnected, CollectEnds, Goes, EndUsing, TypeOK
<1>6. ASSUME NEW d \in Calls,
             Opens(d) \/ ConnectFails(d) \/ AuthSucceeds(d) \/ AuthFails(d) \/ ClosedEarly(d)
      PROVE  Claim
  BY <1>1, <1>6 DEF Opens, ConnectFails, AuthSucceeds, AuthFails, ClosedEarly, Shaking, Goes,
     Fail, TypeOK
<1>7. ASSUME NEW d \in Calls, TokenExpires(d) \/ Dropped(d) \/ ProtocolError(d)
      PROVE  Claim
  BY <1>1, <1>7 DEF TokenExpires, Dropped, ProtocolError, TypeOK
<1>8. ASSUME Tick PROVE Claim
  BY <1>8 DEF Tick
<1> HIDE DEF Claim
<1>9. Claim
  BY <1>2, <1>3, <1>4, <1>5, <1>6, <1>7, <1>8 DEF Next, Continues, Event
<1> QED
  BY <1>9 DEF Claim

\* A request is sent on a socket on which Wings has accepted the call's token,
\* unless calls overlapped: no task of the event loop comes between connect and
\* fn.  Only the rest of the chunk that brought "auth success" does, and so a
\* call may send on the socket it has just opened although it was closed.
THEOREM RequestsOnAcceptedSockets == Spec => SentOnAcceptedSocket
<1>1. IInv /\ [Next]_vars =>
        [\A c \in Calls :
           pc[c] = "connected" /\ pc'[c] = "collect" =>
             LET u == using'[c]
             IN /\ socket[u] \in {"accepted", "dropped"}
                /\ socket[u] = "accepted" \/ u = c \/ disturbed[c]
                /\ token[u] = token[c] \/ disturbed[u] \/ disturbed[c]]_vars
  <2> SUFFICES ASSUME IInv, Next, NEW c \in Calls, pc[c] = "connected", pc'[c] = "collect"
               PROVE  LET u == using'[c]
                      IN /\ socket[u] \in {"accepted", "dropped"}
                         /\ socket[u] = "accepted" \/ u = c \/ disturbed[c]
                         /\ token[u] = token[c] \/ disturbed[u] \/ disturbed[c]
    BY DEF vars
  <2>1. Collect(c)
    BY StepsOfACall
  <2>2. /\ using'[c] = ws[session[c]] /\ ws[session[c]] # Nobody
        /\ session[c] \in Calls /\ ws[session[c]] \in Calls
    BY <2>1 DEF Collect, IInv, SessionInv, CallsHaveSessions, TypeOK
  <2>3. socket[ws[session[c]]] = "accepted" \/ ws[session[c]] = c \/ disturbed[c]
    BY <2>2 DEF IInv, SessionInv, ReadyCalls
  <2>4. /\ socket[ws[session[c]]] \in {"accepted", "dropped"}
        /\ \/ token[ws[session[c]]] = credentials[session[c]]
           \/ disturbed[ws[session[c]]]
    BY <2>2 DEF IInv, SessionInv, HeldSockets
  <2>5. credentials[session[c]] = token[c] \/ disturbed[c]
    BY DEF IInv, SessionInv, UndisturbedSession
  <2> QED
    BY <2>2, <2>3, <2>4, <2>5
<1> QED
  BY <1>1, SessionInvariant, PTL DEF Spec, SentOnAcceptedSocket

\* A call that reuses a connection reuses one that Wings opened to its own
\* token, or one that an overlap of calls left to the session.
THEOREM ReusesItsOwnToken == Spec => ReusedWithOwnToken
<1>1. IInv /\ [Next]_vars =>
        [\A c \in Calls : pc[c] = "import" /\ pc'[c] = "connected" =>
           LET u == ws[session[c]] IN token[u] = token[c] \/ disturbed[u]]_vars
  <2> SUFFICES ASSUME IInv, Next, NEW c \in Calls, pc[c] = "import", pc'[c] = "connected"
               PROVE  LET u == ws[session[c]] IN token[u] = token[c] \/ disturbed[u]
    BY DEF vars
  <2>1. Reusable(session[c], token[c])
    BY StepsOfACall DEF Reuse
  <2>2. session[c] \in Calls /\ ws[session[c]] \in Calls
    BY <2>1 DEF Reusable, IInv, SessionInv, CallsHaveSessions, TypeOK
  <2> QED
    BY <2>1, <2>2 DEF Reusable, IInv, SessionInv, HeldSockets
<1> QED
  BY <1>1, SessionInvariant, PTL DEF Spec, ReusedWithOwnToken

=============================================================================
