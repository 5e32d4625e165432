------------------------- MODULE ConfirmedInvariant -------------------------
(***************************************************************************)
(* The inductive invariant behind the theorems about ConfirmedTools: it    *)
(* ties every stored entry to the call that issued it, every call under    *)
(* way to the token it consumed and to what it has sent and recorded, and  *)
(* the backup limiter to the calls it has heard of.                        *)
(***************************************************************************)
EXTENDS ConfirmedTools

\* The life of a call: nothing before it starts, a result only at its end.
LifeOfCall ==
  \A c \in Calls :
    /\ pc[c] = "idle" =>
         /\ result[c] = "none" /\ wire[c] = "none" /\ confirms[c] = NoToken
    /\ pc[c] # "idle" => req[c] \in Requests
    /\ pc[c] # "done" => result[c] = "none"

\* An entry is what its token's call asked for, and nobody consumed it.
Unspent(t) == result[t] = "requires_confirmation" /\ \A c \in Calls : confirms[c] # t

PowerStoreOK ==
  \A e \in powerPending :
    LET t == e.token IN
      /\ Unspent(t)
      /\ IsPower(req[t])
      /\ e = [token |-> t, userId |-> User(req[t]), serverId |-> req[t].serverId,
              signal |-> req[t].arg, expiresAt |-> issuedAt[t] + Ttl]

ActionStoreOK ==
  \A e \in actionPending :
    LET t == e.token IN
      /\ Unspent(t)
      /\ ~IsPower(req[t])
      /\ e = [token |-> t, userId |-> User(req[t]), serverId |-> req[t].serverId,
              kind |-> HandlerOf(req[t].tool).kind, fingerprint |-> Fingerprint(req[t]),
              expiresAt |-> issuedAt[t] + Ttl]

\* A consumed token was issued for what its consumer asks.
ConfirmsOK ==
  \A c \in Calls :
    confirms[c] # NoToken =>
      /\ result[confirms[c]] = "requires_confirmation"
      /\ Asked(req[confirms[c]]) = Asked(req[c])

\* Wherever a handler has passed its consume, the call has consumed a token.
PastConsume(c) ==
  \/ pc[c] = "permission" /\ ~IsPower(req[c]) /\ req[c].token # NoToken
  \/ pc[c] = "lookup"
  \/ wire[c] # "none" /\ NeedsConfirmation(req[c])

ConsumedBeforeActing == \A c \in Calls : PastConsume(c) => confirms[c] # NoToken

\* A call writes its records as it returns, and has sent nothing before it acts.
RecordsOfCall ==
  \A c \in Calls :
    /\ pc[c] # "done" => audit[c] = <<>>
    /\ pc[c] \in {"idle", "permission", "lookup"} => wire[c] = "none"

\* The limiter remembers the last backup of a server, and none of the future.
BackupsRemembered ==
  \A c \in Calls :
    recordedAt[c] # 0 =>
      /\ pc[c] = "done" /\ req[c].serverId \in Servers
      /\ recordedAt[c] <= lastBackup[req[c].serverId]
      /\ lastBackup[req[c].serverId] <= now

\* The inductive invariant: what the stores, the limiter and the calls keep
\* between two awaits of the code, for each other and for themselves.
IInv ==
  /\ TypeOK
  /\ LifeOfCall
  /\ PowerStoreOK
  /\ ActionStoreOK
  /\ ConfirmsOK
  /\ ConfirmedOnce
  /\ ConsumedBeforeActing
  /\ RecordsOfCall
  /\ BackupsRemembered

=============================================================================
