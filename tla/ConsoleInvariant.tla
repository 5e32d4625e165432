-------------------------- MODULE ConsoleInvariant --------------------------
(***************************************************************************)
(* The inductive invariant behind the theorems about ConsoleSessions.  A   *)
(* session's ws, authenticated and credentials belong to all the calls of  *)
(* its key, so what a call found at one await may be gone at the next: the *)
(* invariant says what another call or an eviction may have changed, and   *)
(* that `disturbed` remembers it.                                          *)
(***************************************************************************)
EXTENDS ConsoleSessions

CallsHaveSessions ==
  \A c \in Calls : pc[c] # "idle" => session[c] \in Calls /\ token[c] \in Tokens

\* A call opens its socket when it has closed the one before.
SocketsOfCalls ==
  \A c \in Calls :
    /\ pc[c] \in {"idle", "import", "closing"} => socket[c] = "none"
    /\ pc[c] = "settled" => socket[c] \in {"accepted", "dropped"}

\* A socket that a session holds was accepted, under the session's
\* credentials unless calls overlapped, and its call has connected.
HeldSockets ==
  \A s, u \in Calls :
    ws[s] = u =>
      /\ session[u] = s
      /\ pc[u] \in {"connected", "collect", "done"}
      /\ socket[u] \in {"accepted", "dropped"}
      /\ token[u] = credentials[s] \/ disturbed[u]

\* The socket of a connection that a call reuses is open until the request is
\* sent, unless another call has put its own in the place.
ReadyCalls ==
  \A c \in Calls :
    pc[c] = "connected" /\ ws[session[c]] \notin {c, Nobody} =>
      socket[ws[session[c]]] = "accepted" \/ disturbed[c]

OverlapsAreKnown ==
  \A c, d \in Calls :
    c # d /\ UnderWay(c) /\ UnderWay(d) /\ session[c] = session[d] => disturbed[c]

\* While a call connects, only one that overlaps it gives the session a socket.
HeldWhileConnecting ==
  \A c, u \in Calls :
    pc[c] \in {"closing", "handshake", "settled"} /\ ws[session[c]] = u => disturbed[u]

\* What a call leaves in its session is there at its next step, unless the
\* call was disturbed.
UndisturbedSession ==
  \A c \in Calls :
    \/ disturbed[c]
    \/ /\ pc[c] \in {"handshake", "settled", "connected"} =>
            credentials[session[c]] = token[c]
       /\ pc[c] = "settled" => authenticated[session[c]]
       /\ pc[c] = "connected" => ws[session[c]] # Nobody /\ authenticated[session[c]]
       /\ UnderWay(c) => session[c] \in Stored

OpenSocketsHeld ==
  \A c \in Calls :
    pc[c] \in {"connected", "collect", "done"} /\ IsOpen(c) =>
      disturbed[c] \/ (session[c] \in Stored /\ ws[session[c]] = c)

FewSessions == IsFiniteSet(Stored) /\ AtMostOneTooMany

SessionInv ==
  /\ CallsHaveSessions
  /\ SocketsOfCalls
  /\ HeldSockets
  /\ ReadyCalls
  /\ OverlapsAreKnown
  /\ HeldWhileConnecting
  /\ UndisturbedSession
  /\ OpenSocketsHeld
  /\ ConnectedWhenAlone

\* The inductive invariant: between two tasks of the event loop, sessions and
\* sockets are as the calls that share them left them.
IInv == TypeOK /\ SessionInv /\ FewSessions

=============================================================================
