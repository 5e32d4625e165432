----------------------------- MODULE McpSessions -----------------------------
(***************************************************************************)
(* The /mcp endpoint (http.ts): the map of MCP sessions and its gauge,     *)
(* under initialize, tool calls, event streams and DELETE that overlap,    *)
(* clients that go away, and restarts.                                     *)
(*                                                                         *)
(* HTTP requests are numbered in the order they arrive.  A session id is   *)
(* the number of the request that initialised the session: a UUID never    *)
(* repeats.  A client uses an id only after it was told it.                *)
(*                                                                         *)
(* StreamableHTTPServerTransport and McpServer come from the MCP SDK.      *)
(* Modelled from how http.ts uses them: handleRequest may refuse a request *)
(* for its headers; initialising a session calls onsessioninitialized      *)
(* before the answer goes out; DELETE closes the transport, which ends its *)
(* streams and calls onclose; the result of a tool goes to the stream of   *)
(* its request, if that is still there; no client sends a                  *)
(* notifications/cancelled, on which the SDK would drop that result.  What *)
(* a tool does is modelled in ServerTools and ConfirmedTools: here it runs *)
(* and returns.                                                            *)
(***************************************************************************)
EXTENDS Integers, FiniteSets

CONSTANTS
  Requests,     \* how many HTTP requests are made
  WithoutId,    \* how many of them may come without a session id
  MaxRestarts   \* bound on restarts of the process

ASSUME McpSessionsAssumption ==
  /\ Requests \in Nat \ {0}
  /\ WithoutId \in Nat
  /\ MaxRestarts \in Nat

Http == 1..Requests
NoId == 0

VARIABLES
  pc,        \* what each request awaits
  kind,      \* what each request asks for
  id,        \* its mcp-session-id header
  reply,     \* what it was answered, to a client that may have gone
  connected, \* its client has not gone away
  tool,      \* what became of the tool it called
  life,      \* the process it arrived in
  sessions,  \* the keys of the map
  gauge,     \* pterodactyl_mcp_active_sessions
  restarts   \* restarts so far

vars == <<pc, kind, id, reply, connected, tool, life, sessions, gauge, restarts>>

Kind == {"initialize", "call", "get", "delete", "other"}

\* `ok` is the whole answer, `ended` the end of a stream without one; the
\* others are the status codes, `refused` those of the middleware and the SDK.
Reply == {"none", "ok", "ended", "refused", "400", "401", "409", "500"}

TypeOK ==
  /\ pc \in [Http -> {"idle", "authenticating", "streaming", "done"}]
  /\ kind \in [Http -> Kind \cup {"none"}]
  /\ id \in [Http -> Http \cup {NoId}]
  /\ reply \in [Http -> Reply]
  /\ connected \in [Http -> BOOLEAN]
  /\ tool \in [Http -> {"none", "running", "returned", "lost"}]
  /\ life \in [Http -> 0..MaxRestarts]
  /\ sessions \subseteq Http
  /\ gauge \in 0..Requests
  /\ restarts \in 0..MaxRestarts
  \* A stream is that of a session in the map, and a session has one GET stream.
  /\ \A h \in Http : pc[h] = "streaming" => id[h] \in sessions /\ connected[h]
  /\ \A g, h \in Http : /\ pc[g] = "streaming" /\ pc[h] = "streaming" /\ id[g] = id[h]
                        /\ kind[g] = "get" /\ kind[h] = "get"
                        => g = h

Init ==
  /\ pc = [h \in Http |-> "idle"]
  /\ kind = [h \in Http |-> "none"]
  /\ id = [h \in Http |-> NoId]
  /\ reply = [h \in Http |-> "none"]
  /\ connected = [h \in Http |-> TRUE]
  /\ tool = [h \in Http |-> "none"]
  /\ life = [h \in Http |-> 0]
  /\ sessions = {}
  /\ gauge = 0
  /\ restarts = 0

-----------------------------------------------------------------------------
\* The ids some client was told
Told == {h \in Http : kind[h] = "initialize" /\ reply[h] = "ok" /\ connected[h]}

\* Request h arrives, for a session its client was told of or for none.
Arrives(h, what, session) ==
  /\ pc[h] = "idle" /\ \A g \in 1..(h - 1) : pc[g] # "idle"
  /\ session \in Told \cup {NoId}
  /\ kind' = [kind EXCEPT ![h] = what]
  /\ id' = [id EXCEPT ![h] = session]
  /\ life' = [life EXCEPT ![h] = restarts]
  /\ UNCHANGED <<connected, restarts>>
  /\ session = NoId =>
       Cardinality({g \in Http : kind[g] # "none" /\ id[g] = NoId}) < WithoutId

\* The request is answered at once, or is left open.
Answer(h, how) ==
  /\ pc' = [pc EXCEPT ![h] = "done"]
  /\ reply' = [reply EXCEPT ![h] = how]
Leave(h, where) ==
  /\ pc' = [pc EXCEPT ![h] = where]
  /\ UNCHANGED reply

Nothing == UNCHANGED <<sessions, gauge, tool>>

\* sessions.has of the header
Known(session) == session \in sessions

\* The middleware (MCP_ENABLED, the IP allowlist) or the SDK refuses a request,
\* whatever it asks for.
Refused(h) ==
  /\ Arrives(h, "other", NoId)
  /\ Answer(h, "refused")
  /\ Nothing

\* POST of an initialize: the account is asked for before anything is made.
\* With the id of a session it goes to that session's transport, which has
\* been initialised already.
PostInitialize(h) ==
  \E session \in Told \cup {NoId} :
    /\ Arrives(h, "initialize", session)
    /\ \/ session = NoId /\ Leave(h, "authenticating")
       \/ session = NoId /\ Answer(h, "401")
       \/ session # NoId /\ Answer(h, "400")
    /\ Nothing

\* POST of a tool call
PostCall(h) ==
  \E session \in Told \cup {NoId} :
    /\ Arrives(h, "call", session)
    /\ IF Known(session)
         THEN /\ Leave(h, "streaming")
              /\ tool' = [tool EXCEPT ![h] = "running"]
         ELSE Answer(h, "400") /\ UNCHANGED tool
    /\ UNCHANGED <<sessions, gauge>>

\* GET of the event stream, of which a session has one
GetStream(h) ==
  \E session \in Told \cup {NoId} :
    /\ Arrives(h, "get", session)
    /\ \/ ~Known(session) /\ Answer(h, "400")
       \/ /\ Known(session)
          /\ IF \E g \in Http : pc[g] = "streaming" /\ kind[g] = "get" /\ id[g] = session
               THEN Answer(h, "409") ELSE Leave(h, "streaming")
    /\ Nothing

\* Slip: the session is entered before the panel has accepted the account.
AuthenticationFailsEntered(h) ==
  /\ pc[h] = "authenticating"
  /\ Answer(h, "500")
  /\ sessions' = sessions \cup {h}
  /\ gauge' = Cardinality(sessions')
  /\ UNCHANGED <<kind, id, connected, tool, life, restarts>>

\* authenticateRequest or createMcpServer throws.
AuthenticationFails(h) ==
  /\ pc[h] = "authenticating"
  /\ Answer(h, "500")
  /\ Nothing /\ UNCHANGED <<kind, id, connected, life, restarts>>

\* The panel knows the account: server and transport are made, and the
\* transport refuses the request or initialises the session.  If the client
\* has gone away the session is there all the same.
Authenticated(h) ==
  /\ pc[h] = "authenticating"
  /\ \/ Answer(h, "refused") /\ UNCHANGED <<sessions, gauge>>
     \/ /\ sessions' = sessions \cup {h}
        /\ gauge' = Cardinality(sessions')
        /\ Answer(h, "ok")
  /\ UNCHANGED <<kind, id, connected, tool, life, restarts>>

Streams(session) == {g \in Http : pc[g] = "streaming" /\ id[g] = session}

\* Slip: the tools of the session end with it.
DeleteSessionAborting(h) ==
  \E session \in Told \cup {NoId} :
    /\ Arrives(h, "delete", session)
    /\ Known(session)
    /\ sessions' = sessions \ {session}
    /\ gauge' = Cardinality(sessions')
    /\ pc' = [g \in Http |-> IF g = h \/ g \in Streams(session) THEN "done" ELSE pc[g]]
    /\ reply' = [g \in Http |-> IF g = h THEN "ok"
                                ELSE IF g \in Streams(session) THEN "ended" ELSE reply[g]]
    /\ tool' = [g \in Http |-> IF g \in Streams(session) /\ tool[g] = "running"
                                 THEN "none" ELSE tool[g]]

\* Slip: close does not end the streams.
DeleteSessionKeepingStreams(h) ==
  \E session \in Told \cup {NoId} :
    /\ Arrives(h, "delete", session)
    /\ Known(session)
    /\ sessions' = sessions \ {session}
    /\ gauge' = Cardinality(sessions')
    /\ Answer(h, "ok")
    /\ UNCHANGED tool

\* DELETE of a session in the map: its transport closes, with its streams, and
\* onclose takes it out of the map; the tools it runs are not told.
DeleteSession(h) ==
  \E session \in Told \cup {NoId} :
    /\ Arrives(h, "delete", session)
    /\ Known(session)
    /\ sessions' = sessions \ {session}
    /\ gauge' = Cardinality(sessions')
    /\ pc' = [g \in Http |-> IF g = h \/ g \in Streams(session) THEN "done" ELSE pc[g]]
    /\ reply' = [g \in Http |-> IF g = h THEN "ok"
                                ELSE IF g \in Streams(session) THEN "ended" ELSE reply[g]]
    /\ UNCHANGED tool

\* DELETE of one that is not
DeleteUnknown(h) ==
  \E session \in Told \cup {NoId} :
    Arrives(h, "delete", session) /\ ~Known(session) /\ Answer(h, "400") /\ Nothing

\* Slip: the result goes nowhere once another stream of the session is open.
ToolReturnsElsewhere(h) ==
  /\ tool[h] = "running"
  /\ tool' = [tool EXCEPT ![h] = "returned"]
  /\ pc' = [pc EXCEPT ![h] = "done"]
  /\ reply' = IF pc[h] = "streaming" /\ Streams(id[h]) = {h} THEN [reply EXCEPT ![h] = "ok"] ELSE reply
  /\ UNCHANGED <<kind, id, connected, life, sessions, gauge, restarts>>

\* A tool returns; its result goes to the stream of its request, or nowhere.
ToolReturns(h) ==
  /\ tool[h] = "running"
  /\ tool' = [tool EXCEPT ![h] = "returned"]
  /\ pc' = [pc EXCEPT ![h] = "done"]
  /\ reply' = IF pc[h] = "streaming" THEN [reply EXCEPT ![h] = "ok"] ELSE reply
  /\ UNCHANGED <<kind, id, connected, life, sessions, gauge, restarts>>

\* A client closes the connection of a request: its stream is gone, and what
\* was begun for it goes on.
ClientLeaves(h) ==
  /\ pc[h] \in {"authenticating", "streaming"} /\ connected[h]
  /\ connected' = [connected EXCEPT ![h] = FALSE]
  /\ pc' = [pc EXCEPT ![h] = IF @ = "streaming" THEN "done" ELSE @]
  /\ UNCHANGED <<kind, id, reply, tool, life, sessions, gauge, restarts>>

\* The process ends and starts again, with an empty map.
Restart ==
  /\ restarts < MaxRestarts
  /\ restarts' = restarts + 1
  /\ pc' = [h \in Http |-> IF pc[h] = "idle" THEN "idle" ELSE "done"]
  /\ reply' = [h \in Http |-> IF pc[h] \in {"authenticating", "streaming"} /\ connected[h]
                                THEN "ended" ELSE reply[h]]
  /\ tool' = [h \in Http |-> IF tool[h] = "running" THEN "lost" ELSE tool[h]]
  /\ sessions' = {} /\ gauge' = 0
  /\ UNCHANGED <<kind, id, connected, life>>

\* A request that was let in goes on to its end.
Proceed(h) == AuthenticationFails(h) \/ Authenticated(h) \/ ToolReturns(h)

Next ==
  \/ \E h \in Http :
       \/ Refused(h) \/ PostInitialize(h) \/ PostCall(h) \/ GetStream(h)
       \/ DeleteSession(h) \/ DeleteUnknown(h) \/ Proceed(h) \/ ClientLeaves(h)
  \/ Restart

\* The panel answers or the request for the account times out (PanelRequest),
\* and tools return (CallReturns of ServerTools and ConfirmedTools).
Fairness == \A h \in Http : WF_vars(Proceed(h))

Spec == Init /\ [][Next]_vars /\ Fairness

-----------------------------------------------------------------------------
\* The requests that entered a session in this process, whether their client
\* learned it or had gone away; and the sessions a DELETE was accepted for
Entered ==
  {h \in Http : kind[h] = "initialize" /\ reply[h] = "ok" /\ life[h] = restarts}
Deleted == {id[h] : h \in {g \in Http : kind[g] = "delete" /\ reply[g] = "ok"}}

\* The map holds exactly the sessions that were initialised in this process
\* and not deleted, and the gauge says how many: a failed or refused
\* initialize leaves nothing behind, nothing that other clients do takes a
\* session away, and a session whose client went away without DELETE, even
\* before it learned the id, stays until the process ends.
MapHoldsOpenSessions ==
  /\ sessions = Entered \ Deleted
  /\ gauge = Cardinality(sessions)

\* A tool that returns is answered to its caller, whatever else its session is
\* used for, unless the caller went away or the session was closed meanwhile;
\* then the caller's stream was ended and did not wait.
AnsweredUnlessClosed ==
  \A h \in Http : kind[h] = "call" /\ tool[h] # "none" =>
    /\ tool[h] = "returned" /\ connected[h] /\ id[h] \in sessions => reply[h] = "ok"
    /\ reply[h] = "ended" => id[h] \notin sessions
    /\ tool[h] = "running" /\ id[h] \notin sessions /\ connected[h] => reply[h] = "ended"
    /\ reply[h] = "ok" => tool[h] = "returned" /\ connected[h]

\* Every client that waits for the answer to an initialize or a call gets one
\* or the end of its stream, and every tool that was started returns, also when
\* its session is closed or its client gone: what it did gets its audit record.
RequestsEnd ==
  \A h \in Http :
    /\ pc[h] = "authenticating" ~> pc[h] = "done"
    /\ pc[h] = "streaming" /\ kind[h] = "call" ~> pc[h] = "done"
    /\ tool[h] = "running" ~> tool[h] \in {"returned", "lost"}
=============================================================================
