--------------------------- MODULE ConsoleSessions --------------------------
(***************************************************************************)
(* The pool of Wings console connections of pterodactyl/console-session.ts *)
(* (ConsoleSession and ConsoleSessionManager), as get_console_output,      *)
(* bulk_get_console_output and send_console_command use it: a call finds   *)
(* or makes the session of its key, connects it with the credentials it    *)
(* has just fetched, and collects output on the session's socket.  Calls   *)
(* of one key share a session and nothing keeps them apart.                *)
(*                                                                         *)
(* A step is what runs between two awaits.  Where a promise that is        *)
(* already settled is awaited, the call continues in a microtask: other    *)
(* microtasks may come first, but no timer, no new call and no data from   *)
(* the network (Quiet).  The frames that came in one chunk of data are all *)
(* handled before any microtask, so "auth success" is one step with the    *)
(* frames behind it (AuthSucceeds).                                        *)
(*                                                                         *)
(* Abstracted: a session object is named by the call that made it, and a   *)
(* socket by the call that opened it, since a call makes at most one of    *)
(* each; CLOSING and CLOSED are one; the events "auth success" and         *)
(* "status" are one, as they have one effect; timers may fire at any time; *)
(* the lines are left out.                                                 *)
(***************************************************************************)
EXTENDS Integers, FiniteSets

CONSTANTS
  Calls,        \* calls of withSession
  Keys,         \* values of sessionKey: API key and server
  Tokens,       \* tokens of the panel's console credentials
  Nobody,       \* no session, no socket
  NoToken,      \* no credentials
  MaxSessions,  \* CONSOLE_MAX_SESSIONS
  IdleTimeout,  \* CONSOLE_SESSION_IDLE_MS
  MaxTime       \* bound on the clock

ASSUME ConsoleSessionsAssumption ==
  /\ Nobody \notin Calls
  /\ NoToken \notin Tokens
  /\ MaxSessions \in Nat \ {0}
  /\ IdleTimeout \in Nat \ {0}
  /\ MaxTime \in Nat

VARIABLES
  now,           \* Date.now()
  crashed,       \* an 'error' event had no listener: the process is gone
  sessions,      \* ConsoleSessionManager.sessions: the session of each key
  lastUsed,      \* lastUsed, of the entry of each session
  ws,            \* this.ws, of each session
  authenticated, \* this.authenticated, of each session
  credentials,   \* this.credentials, of each session
  socket,        \* the state of the socket each call opened
  pc,            \* what each call awaits
  session,       \* the session each call got
  token,         \* the credentials each call came with
  using,         \* the socket each call collects on
  result,        \* how each call ended
  disturbed      \* history: another call entered the session, or it was
                 \* evicted, while this call was under way

fields == <<ws, authenticated, credentials>>
calls == <<session, token>>
vars == <<now, crashed, sessions, lastUsed, fields, socket, pc, calls, using, result, disturbed>>

\* Open and accepted are readyState OPEN, before and after Wings took the
\* token; closed is by ws.close(), dropped by the other end.
SocketState == {"none", "connecting", "open", "accepted", "closed", "dropped"}
PC == {"idle", "import", "closing", "handshake", "settled", "connected", "collect", "done"}
Result == {"none", "ok", "failed", "not_connected", "expired"}

TypeOK ==
  /\ now \in Nat
  /\ crashed \in BOOLEAN
  /\ sessions \in [Keys -> Calls \cup {Nobody}]
  /\ lastUsed \in [Calls -> Nat]
  /\ ws \in [Calls -> Calls \cup {Nobody}]
  /\ authenticated \in [Calls -> BOOLEAN]
  /\ credentials \in [Calls -> Tokens \cup {NoToken}]
  /\ socket \in [Calls -> SocketState]
  /\ pc \in [Calls -> PC]
  /\ session \in [Calls -> Calls \cup {Nobody}]
  /\ token \in [Calls -> Tokens \cup {NoToken}]
  /\ using \in [Calls -> Calls \cup {Nobody}]
  /\ result \in [Calls -> Result]
  /\ disturbed \in [Calls -> BOOLEAN]

Init ==
  /\ now = 1
  /\ crashed = FALSE
  /\ sessions = [k \in Keys |-> Nobody]
  /\ lastUsed = [c \in Calls |-> 0]
  /\ ws = [c \in Calls |-> Nobody]
  /\ authenticated = [c \in Calls |-> FALSE]
  /\ credentials = [c \in Calls |-> NoToken]
  /\ socket = [c \in Calls |-> "none"]
  /\ pc = [c \in Calls |-> "idle"]
  /\ session = [c \in Calls |-> Nobody]
  /\ token = [c \in Calls |-> NoToken]
  /\ using = [c \in Calls |-> Nobody]
  /\ result = [c \in Calls |-> "none"]
  /\ disturbed = [c \in Calls |-> FALSE]

-----------------------------------------------------------------------------
Stored == {sessions[k] : k \in Keys} \ {Nobody}

UnderWay(c) == pc[c] \notin {"idle", "done"}

IsOpen(c) == socket[c] \in {"open", "accepted"}

\* No microtask is waiting: the event loop takes the next task, a timer, a
\* call or a chunk of data.
Quiet == ~crashed /\ \A c \in Calls : pc[c] \notin {"closing", "settled", "connected"}

\* Slip: close leaves this.ws as it is.
CloseSessionsKeepingSocket(S) ==
  /\ socket' = [c \in Calls |-> IF IsOpen(c) /\ (\E s \in S : ws[s] = c)
                                  THEN "closed" ELSE socket[c]]
  /\ UNCHANGED ws
  /\ authenticated' = [s \in Calls |-> s \notin S /\ authenticated[s]]
  /\ credentials' = [s \in Calls |-> IF s \in S THEN NoToken ELSE credentials[s]]

\* ConsoleSession.close of these sessions: only a socket that this.ws holds
\* is closed, not one that a call is still connecting.
CloseSessions(S) ==
  /\ socket' = [c \in Calls |-> IF IsOpen(c) /\ (\E s \in S : ws[s] = c)
                                  THEN "closed" ELSE socket[c]]
  /\ ws' = [s \in Calls |-> IF s \in S THEN Nobody ELSE ws[s]]
  /\ authenticated' = [s \in Calls |-> s \notin S /\ authenticated[s]]
  /\ credentials' = [s \in Calls |-> IF s \in S THEN NoToken ELSE credentials[s]]

\* evictIdleSessions
IdleSessions == {s \in Stored : now - lastUsed[s] > IdleTimeout}

\* Slip: evictOverflow is not called.
OverflowsNone(left) == {{}}

\* evictOverflow: the least recently used go, in any order where times are
\* equal, until MaxSessions are left.
Overflows(left) ==
  {S \in SUBSET left :
     /\ Cardinality(left \ S) = IF Cardinality(left) > MaxSessions
                                  THEN MaxSessions ELSE Cardinality(left)
     /\ \A s \in S, r \in left \ S : lastUsed[s] <= lastUsed[r]}

\* What withSession evicts before it looks for its own entry
Evictions == {IdleSessions \cup S : S \in Overflows(Stored \ IdleSessions)}

\* The call ends; `fn` ran, so finally sets lastUsed, on the entry it got,
\* in the map or not.
EndUsing(c, how) ==
  /\ pc' = [pc EXCEPT ![c] = "done"]
  /\ result' = [result EXCEPT ![c] = how]
  /\ lastUsed' = [lastUsed EXCEPT ![session[c]] = now]

\* connect rejects: outside the try block of withSession.
Fail(c) ==
  /\ pc' = [pc EXCEPT ![c] = "done"]
  /\ result' = [result EXCEPT ![c] = "failed"]
  /\ UNCHANGED lastUsed

Goes(c, to) ==
  /\ pc' = [pc EXCEPT ![c] = to]
  /\ UNCHANGED <<result, lastUsed>>

Socket(c, state) == socket' = [socket EXCEPT ![c] = state]

-----------------------------------------------------------------------------
\* withSession, up to the import of ws in connect
Enter(c, k, t) ==
  /\ Quiet
  /\ pc[c] = "idle"
  /\ \E evicted \in Evictions :
       LET found == IF sessions[k] \in evicted THEN Nobody ELSE sessions[k]
           s == IF found = Nobody THEN c ELSE found
       IN /\ CloseSessions(evicted)
          /\ sessions' = [q \in Keys |-> IF q = k THEN s
                                         ELSE IF sessions[q] \in evicted THEN Nobody
                                         ELSE sessions[q]]
          /\ session' = [session EXCEPT ![c] = s]
          /\ lastUsed' = [lastUsed EXCEPT ![s] = now]
          /\ disturbed' = [d \in Calls |->
               \/ disturbed[d]
               \/ UnderWay(d) /\ session[d] \in evicted \cup {s}
               \/ d = c /\ \E e \in Calls : UnderWay(e) /\ session[e] = s]
  /\ token' = [token EXCEPT ![c] = t]
  /\ pc' = [pc EXCEPT ![c] = "import"]
  /\ UNCHANGED <<now, crashed, using, result>>

\* Slip: connect without the test of the credentials, or of readyState.
ReusableAnyToken(s, t) ==
  /\ ws[s] # Nobody
  /\ authenticated[s]
  /\ IsOpen(ws[s])

ReusableUnchecked(s, t) ==
  /\ ws[s] # Nobody
  /\ authenticated[s]
  /\ credentials[s] = t

\* The session is connected with these very credentials.
Reusable(s, t) ==
  /\ ws[s] # Nobody
  /\ authenticated[s]
  /\ credentials[s] = t
  /\ IsOpen(ws[s])

Reuse(c) ==
  /\ ~crashed
  /\ pc[c] = "import"
  /\ Reusable(session[c], token[c])
  /\ Goes(c, "connected")
  /\ UNCHANGED <<now, crashed, sessions, fields, socket, calls, using, disturbed>>

\* Otherwise connect awaits close(), which has nothing to wait for.
Reconnect(c) ==
  /\ ~crashed
  /\ pc[c] = "import"
  /\ ~Reusable(session[c], token[c])
  /\ CloseSessions({session[c]})
  /\ Goes(c, "closing")
  /\ UNCHANGED <<now, crashed, sessions, calls, using, disturbed>>

SetCredentials(c) == credentials' = [credentials EXCEPT ![session[c]] = token[c]]

OpenSocket(c) ==
  /\ ~crashed
  /\ pc[c] = "closing"
  /\ SetCredentials(c)
  /\ Socket(c, "connecting")
  /\ Goes(c, "handshake")
  /\ UNCHANGED <<now, crashed, sessions, ws, authenticated, calls, using, disturbed>>

\* The WebSocket constructor throws (an address it cannot parse).
CannotOpen(c) ==
  /\ ~crashed
  /\ pc[c] = "closing"
  /\ SetCredentials(c)
  /\ Fail(c)
  /\ UNCHANGED <<now, crashed, sessions, ws, authenticated, socket, calls, using, disturbed>>

-----------------------------------------------------------------------------
(* The handshake: the socket's events and the timer, until finish(). *)

Shaking(c, state) ==
  /\ Quiet
  /\ pc[c] = "handshake"
  /\ socket[c] = state
  /\ UNCHANGED <<now, crashed, sessions, ws, credentials, calls, using, disturbed>>

\* onopen: the token is sent.
Opens(c) ==
  /\ Shaking(c, "connecting")
  /\ Socket(c, "open")
  /\ UNCHANGED <<authenticated, pc, result, lastUsed>>

\* onerror, before or instead of onopen
ConnectFails(c) ==
  /\ Shaking(c, "connecting")
  /\ Socket(c, "dropped")
  /\ Fail(c)
  /\ UNCHANGED authenticated

\* What came behind "auth success" in its chunk of data: no close, a close
\* frame, or a frame that breaks the protocol, whose 'error' event has no
\* listener any more.
RestOfChunk(c) ==
  \/ Socket(c, "accepted") /\ UNCHANGED crashed
  \/ Socket(c, "dropped") /\ crashed' \in BOOLEAN

\* Slip: authenticated is not set.
AuthSucceedsUnmarked(c) ==
  /\ Quiet
  /\ pc[c] = "handshake"
  /\ socket[c] = "open"
  /\ RestOfChunk(c)
  /\ Goes(c, "settled")
  /\ UNCHANGED <<now, sessions, fields, calls, using, disturbed>>

\* "auth success", or "status" when the session has no authenticated yet
AuthSucceeds(c) ==
  /\ Quiet
  /\ pc[c] = "handshake"
  /\ socket[c] = "open"
  /\ RestOfChunk(c)
  /\ authenticated' = [authenticated EXCEPT ![session[c]] = TRUE]
  /\ Goes(c, "settled")
  /\ UNCHANGED <<now, sessions, ws, credentials, calls, using, disturbed>>

\* Slip: finish does not close the socket.
AuthFailsLeavingSocket(c) ==
  /\ Shaking(c, "open")
  /\ Fail(c)
  /\ UNCHANGED <<socket, authenticated>>

\* "jwt error", "token expired", a frame that is not JSON, or an error:
\* finish closes the socket.
AuthFails(c) ==
  /\ Shaking(c, "open")
  /\ Socket(c, "closed")
  /\ Fail(c)
  /\ UNCHANGED authenticated

\* onclose: not heeded when another call has authenticated the session.
ClosedEarly(c) ==
  /\ Shaking(c, "open")
  /\ Socket(c, "dropped")
  /\ IF authenticated[session[c]] THEN Goes(c, "handshake") ELSE Fail(c)
  /\ UNCHANGED authenticated

\* Slip: the timer goes with the socket, as if onClose always ended the wait.
AuthTimesOutOpen(c) ==
  /\ Shaking(c, "open")
  /\ Socket(c, "closed")
  /\ Fail(c)
  /\ UNCHANGED authenticated

\* The authentication timer fires on a socket that is open or gone.
AuthTimesOut(c) ==
  /\ \/ Shaking(c, "open") /\ Socket(c, "closed")
     \/ Shaking(c, "dropped") /\ UNCHANGED socket
  /\ Fail(c)
  /\ UNCHANGED authenticated

\* It fires while the socket connects (5 s by default, and 10 s for the
\* handshake): finish removes the 'error' listener and closes the socket,
\* which makes ws emit 'error' on the next tick, before the promise's
\* rejection is seen.
AuthTimesOutConnecting(c) ==
  /\ Quiet
  /\ pc[c] = "handshake"
  /\ socket[c] = "connecting"
  /\ Socket(c, "closed")
  /\ crashed' = TRUE
  /\ UNCHANGED <<now, sessions, lastUsed, fields, pc, calls, using, result, disturbed>>

-----------------------------------------------------------------------------
(* connect returns and fn runs. *)

\* this.ws = ws, after the await
SetSocket(c) ==
  /\ ~crashed
  /\ pc[c] = "settled"
  /\ ws' = [ws EXCEPT ![session[c]] = c]
  /\ Goes(c, "connected")
  /\ UNCHANGED <<now, crashed, sessions, authenticated, credentials, socket, calls, using,
                 disturbed>>

\* ensureConnected passes; the request is sent, for nothing when the socket is
\* not open, and collectOutput listens.
Collect(c) ==
  /\ ~crashed
  /\ pc[c] = "connected"
  /\ ws[session[c]] # Nobody /\ authenticated[session[c]]
  /\ using' = [using EXCEPT ![c] = ws[session[c]]]
  /\ Goes(c, "collect")
  /\ UNCHANGED <<now, crashed, sessions, fields, socket, calls, disturbed>>

\* ensureConnected throws.
NotConnected(c) ==
  /\ ~crashed
  /\ pc[c] = "connected"
  /\ ~(ws[session[c]] # Nobody /\ authenticated[session[c]])
  /\ EndUsing(c, "not_connected")
  /\ UNCHANGED <<now, crashed, sessions, fields, socket, calls, using, disturbed>>

\* Enough lines, silence for idleMs, or timeoutMs: whatever came is returned,
\* also when the socket is gone.
CollectEnds(c) ==
  /\ Quiet
  /\ pc[c] = "collect"
  /\ EndUsing(c, "ok")
  /\ UNCHANGED <<now, crashed, sessions, fields, socket, calls, using, disturbed>>

\* Wings tells every listener of a socket that the token has expired.
TokenExpires(u) ==
  LET listening == {c \in Calls : pc[c] = "collect" /\ using[c] = u}
  IN /\ Quiet
     /\ socket[u] = "accepted"
     /\ listening # {}
     /\ pc' = [c \in Calls |-> IF c \in listening THEN "done" ELSE pc[c]]
     /\ result' = [c \in Calls |-> IF c \in listening THEN "expired" ELSE result[c]]
     /\ lastUsed' = [s \in Calls |-> IF \E c \in listening : session[c] = s
                                       THEN now ELSE lastUsed[s]]
     /\ UNCHANGED <<now, crashed, sessions, fields, socket, calls, using, disturbed>>

\* The other end closes a socket nobody shakes hands on: nobody is told.
Dropped(u) ==
  /\ Quiet
  /\ socket[u] = "accepted"
  /\ Socket(u, "dropped")
  /\ UNCHANGED <<now, crashed, sessions, lastUsed, fields, pc, calls, using, result, disturbed>>

\* A frame breaks the protocol on a socket that is open or closing, or behind
\* the frame that ended its handshake: finish has removed the 'error' listener.
ProtocolError(u) ==
  /\ Quiet
  /\ socket[u] \in {"accepted", "closed"}
  /\ crashed' = TRUE
  /\ UNCHANGED <<now, sessions, lastUsed, fields, socket, pc, calls, using, result, disturbed>>

Tick ==
  /\ Quiet
  /\ now < MaxTime
  /\ now' = now + 1
  /\ UNCHANGED <<crashed, sessions, lastUsed, fields, socket, pc, calls, using, result,
                 disturbed>>

-----------------------------------------------------------------------------
\* What a call does without Wings: continuations and its timers
Continues(c) ==
  \/ Reuse(c) \/ Reconnect(c) \/ OpenSocket(c) \/ CannotOpen(c)
  \/ AuthTimesOut(c) \/ AuthTimesOutConnecting(c)
  \/ SetSocket(c) \/ Collect(c) \/ NotConnected(c) \/ CollectEnds(c)

\* What the socket of a call brings
Event(c) ==
  \/ Opens(c) \/ ConnectFails(c) \/ AuthSucceeds(c) \/ AuthFails(c) \/ ClosedEarly(c)
  \/ TokenExpires(c) \/ Dropped(c) \/ ProtocolError(c)

Next ==
  \/ \E c \in Calls, k \in Keys, t \in Tokens : Enter(c, k, t)
  \/ \E c \in Calls : Continues(c) \/ Event(c)
  \/ Tick

Spec == Init /\ [][Next]_vars

\* Node runs every microtask and fires every timer; Wings owes nothing.
Fairness == \A c \in Calls : WF_vars(Continues(c))

FairSpec == Spec /\ Fairness

-----------------------------------------------------------------------------
(* Properties. *)

\* sendCommandAndCollect and fetchRecentOutput send on a socket on which Wings
\* has accepted a token, the call's own unless calls overlapped, although
\* connect returns to a session that other calls connect and close in the
\* meantime.  ensureConnected does not look at readyState: only the call that
\* has just opened the socket, or one that another call disturbed, may send on
\* a socket that the other end closed behind "auth success", and it is not told.
SentOnAcceptedSocket ==
  [][\A c \in Calls :
       pc[c] = "connected" /\ pc'[c] = "collect" =>
         LET u == using'[c]
         IN /\ socket[u] \in {"accepted", "dropped"}
            /\ socket[u] = "accepted" \/ u = c \/ disturbed[c]
            /\ token[u] = token[c] \/ disturbed[u] \/ disturbed[c]]_vars

\* A call that reuses a connection reuses one that was opened with its own
\* credentials, unless calls overlapped when it was opened.
ReusedWithOwnToken ==
  [][\A c \in Calls : pc[c] = "import" /\ pc'[c] = "connected" =>
       LET u == ws[session[c]] IN token[u] = token[c] \/ disturbed[u]]_vars

\* A call that connected finds its session connected, unless another call or
\* an eviction came between.
ConnectedWhenAlone == \A c \in Calls : result[c] = "not_connected" => disturbed[c]

\* A socket that is left open when its call has returned is held by a stored
\* session, which will reuse or close it.  Only a call that overlapped
\* another one of its key, or an eviction, leaves a socket nobody holds.
NoSocketLost ==
  \A c \in Calls :
    pc[c] = "done" /\ IsOpen(c) => disturbed[c] \/ \E s \in Stored : ws[s] = c

\* The pool exceeds CONSOLE_MAX_SESSIONS by one at the most: a call makes
\* room before it adds its own session.
AtMostOneTooMany == Cardinality(Stored) <= MaxSessions + 1

\* A call returns, whatever Wings does, unless the process is gone.
CallReturns == \A c \in Calls : pc[c] # "idle" ~> pc[c] = "done" \/ crashed

-----------------------------------------------------------------------------
(* A claim of the repository's own text. *)

\* "WebSocket authentication timed out after ...ms" (console-session.ts:107):
\* the timer ends the call with this error, and so not the process, with the
\* call still in its handshake on a socket that was closed for it.
AuthTimeoutIsReported ==
  \A c \in Calls : pc[c] = "handshake" /\ socket[c] = "closed" => ~crashed

=============================================================================
