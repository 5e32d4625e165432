--------------------------- MODULE ConfirmedTools ---------------------------
(***************************************************************************)
(* The tools that act on a server only after a confirmation: server_power  *)
(* (mcp/register-power-tools.ts) and the ten tools that use                *)
(* ActionConfirmationStore (register-extended, -file, -database, -subuser, *)
(* -network and -admin-tools.ts), with the two stores, the two limiters,   *)
(* the audit log and the panel that carries the actions out.               *)
(*                                                                         *)
(* A call of a tool is one member of Calls.  The code between two awaits   *)
(* runs to completion, so a handler is a few atomic steps: from its entry  *)
(* to the first panel request it sends, and then from each reply to the    *)
(* next request or to its result.  Steps of different calls interleave     *)
(* between the awaits.                                                     *)
(*                                                                         *)
(* Abstracted: a confirmation token is named by the call that issued it    *)
(* (24 random bytes never repeat, and a call issues at most one); a        *)
(* fingerprint is the tuple it hashes (16 hex digits of SHA-256 are taken  *)
(* to be injective); the arguments of a tool are an `arg` its fingerprint  *)
(* or its signal covers and a `rest` it does not cover; all readings of    *)
(* Date.now() in one step agree; arguments the schema refuses never reach  *)
(* a handler.                                                              *)
(***************************************************************************)
EXTENDS Sequences, Limiters

CONSTANTS
  Calls,            \* invocations of a tool, each made at most once
  NoToken,          \* the confirmation_token of a call that passes none
  NoRequest,        \* stands for the request of a call not made yet
  Keys,             \* API keys (tokenFingerprint of helpers.ts)
  UserOf,           \* the panel account (ctx.auth.account.id) of each key
  Servers,          \* values of server_id
  Tools,            \* the tools that are registered, a part of ToolNames
  Args,             \* what fingerprints cover, for the tools but server_power
  InvalidArgs,      \* the Args that a path or size check refuses
  Signals,          \* power signals, a part of PowerSignal
  Rests,            \* what fingerprints leave out, where a tool has such arguments
  Ttl,              \* POWER_CONFIRMATION_TTL_MS, of both stores (http.ts:46-47)
  PowerAutoConfirm, \* POWER_AUTO_CONFIRM
  MaxTime,          \* bound on the clock
  MaxRestarts       \* bound on restarts of the process

PowerSignal == {"start", "stop", "restart", "kill"}

ActionToolNames ==
  {"write_server_file", "create_server_backup", "restore_server_backup",
   "delete_server_backup", "delete_server_files", "delete_server_database",
   "delete_server_subuser", "delete_server_allocation", "create_server",
   "delete_server"}

ToolNames == ActionToolNames \cup {"server_power"}

ASSUME ConfirmedToolsAssumption ==
  /\ NoToken \notin Calls
  /\ Tools \subseteq ToolNames
  /\ Signals \subseteq PowerSignal
  /\ InvalidArgs \subseteq Args
  /\ Ttl \in Nat \ {0}
  /\ PowerAutoConfirm \in BOOLEAN
  /\ MaxTime \in Nat \ {0}
  /\ MaxRestarts \in Nat

-----------------------------------------------------------------------------
(***************************************************************************)
(* What distinguishes the handlers of the action tools:                    *)
(*   checksArg   a path (and size) check comes before everything else      *)
(*   backupLimit BackupRateLimiter is consulted before, fed after          *)
(*   permission  requireServerWithPermission comes before token and action *)
(*   lookup      the panel is asked for the internal id before the action  *)
(*   rest        some arguments of the action are not in the fingerprint   *)
(***************************************************************************)
ActionKind ==
  {"write_file", "create_backup", "restore_backup", "delete_backup", "delete_files",
   "delete_database", "delete_subuser", "delete_allocation", "create_server",
   "delete_server"}

Kind == ActionKind \cup {"server_power"}

Handler == [kind: Kind, checksArg: BOOLEAN, backupLimit: BOOLEAN,
            permission: BOOLEAN, lookup: BOOLEAN, rest: BOOLEAN]

Plain(kind) == [kind |-> kind, checksArg |-> FALSE, backupLimit |-> FALSE,
                permission |-> TRUE, lookup |-> FALSE, rest |-> FALSE]

WriteServerFile == [Plain("write_file") EXCEPT !.checksArg = TRUE]
\* The fingerprint covers the name and not the `ignored` patterns.
CreateServerBackup == [Plain("create_backup") EXCEPT !.backupLimit = TRUE, !.rest = TRUE]
\* The fingerprint covers the backup and not `truncate`.
RestoreServerBackup == [Plain("restore_backup") EXCEPT !.rest = TRUE]
DeleteServerBackup == Plain("delete_backup")
\* The fingerprint covers the names joined by commas and not how they split.
DeleteServerFiles == [Plain("delete_files") EXCEPT !.checksArg = TRUE, !.rest = TRUE]
DeleteServerDatabase == Plain("delete_database")
DeleteServerSubuser == Plain("delete_subuser")
DeleteServerAllocation == Plain("delete_allocation")
\* The fingerprint covers name, user and egg only.
CreateServer == [Plain("create_server") EXCEPT !.permission = FALSE, !.rest = TRUE]
\* The fingerprint covers the server and not `force`.
DeleteServer == [Plain("delete_server") EXCEPT !.permission = FALSE,
                                               !.lookup = TRUE, !.rest = TRUE]

HandlerOf(tool) ==
  CASE tool = "write_server_file"        -> WriteServerFile
    [] tool = "create_server_backup"     -> CreateServerBackup
    [] tool = "restore_server_backup"    -> RestoreServerBackup
    [] tool = "delete_server_backup"     -> DeleteServerBackup
    [] tool = "delete_server_files"      -> DeleteServerFiles
    [] tool = "delete_server_database"   -> DeleteServerDatabase
    [] tool = "delete_server_subuser"    -> DeleteServerSubuser
    [] tool = "delete_server_allocation" -> DeleteServerAllocation
    [] tool = "create_server"            -> CreateServer
    [] tool = "delete_server"            -> DeleteServer
    [] OTHER                             -> Plain("server_power")

\* create_server has no server and keeps its confirmations under "admin";
\* delete_server has no argument beside the server, its detail is "delete".
AdminServer == "admin"
DeleteDetail == "delete"
NoRest == "none"

ArgsOf(tool) ==
  CASE tool = "server_power"  -> Signals
    [] tool = "delete_server" -> {DeleteDetail}
    [] OTHER                  -> Args

Requests ==
  {r \in [tool: Tools, key: Keys, serverId: Servers \cup {AdminServer},
          arg: Args \cup Signals \cup {DeleteDetail},
          rest: Rests \cup {NoRest}, token: Calls \cup {NoToken}] :
     /\ (r.tool = "create_server") <=> (r.serverId = AdminServer)
     /\ r.arg \in ArgsOf(r.tool)
     /\ r.rest # NoRest => HandlerOf(r.tool).rest}

User(r) == UserOf[r.key]

IsPower(r) == r.tool = "server_power"

\* requiresPowerConfirmation; the other tools always ask.
NeedsConfirmation(r) == IsPower(r) => ~PowerAutoConfirm /\ r.arg # "start"

\* Slip: the fingerprint forgets what is acted upon.
FingerprintOfServer(r) == <<HandlerOf(r.tool).kind, r.serverId, DeleteDetail>>

\* ActionConfirmationStore.fingerprint and writeFileFingerprint
Fingerprint(r) == <<HandlerOf(r.tool).kind, r.serverId, r.arg>>

-----------------------------------------------------------------------------
VARIABLES
  now,            \* Date.now()
  restarts,       \* restarts so far
  powerPending,   \* ConfirmationStore.pending, a set of entries
  actionPending,  \* ActionConfirmationStore.pending, a set of entries
  buckets,        \* RateLimiter.buckets, by key
  lastBackup,     \* BackupRateLimiter.lastBackup, by server
  pc,             \* what each call awaits
  req,            \* the request each call was made with
  result,         \* how each call ended
  audit,          \* statuses of the audit records of each call, in order
  wire,           \* what became of each call's action at the panel
  confirms,       \* history: the token each call consumed
  issuedAt,       \* history: when each token was issued
  recordedAt      \* history: when each call recorded a backup, in this process

limiters == <<buckets, lastBackup>>
stores == <<powerPending, actionPending>>
history == <<confirms, issuedAt, recordedAt>>
clock == <<now, restarts>>
calls == <<pc, req, result, audit, wire>>
vars == <<clock, stores, limiters, calls, history>>

PC == {"idle", "permission", "lookup", "act", "done"}
Result == {"none", "requires_confirmation", "ok", "denied", "error",
           "rate_limited", "lost"}
Status == {"success", "error", "denied"}
Wire == {"none", "sent", "executed", "refused"}

PowerEntry == [token: Calls, userId: {UserOf[k] : k \in Keys},
               serverId: Servers \cup {AdminServer}, signal: Signals, expiresAt: Nat]
ActionEntry == [token: Calls, userId: {UserOf[k] : k \in Keys},
                serverId: Servers \cup {AdminServer}, kind: Kind,
                fingerprint: {Fingerprint(r) : r \in Requests}, expiresAt: Nat]

TypeOK ==
  /\ now \in Nat
  /\ restarts \in Nat
  /\ powerPending \subseteq PowerEntry
  /\ actionPending \subseteq ActionEntry
  /\ buckets \in [Keys -> Bucket]
  /\ lastBackup \in [Servers -> Nat]
  /\ pc \in [Calls -> PC]
  /\ req \in [Calls -> Requests \cup {NoRequest}]
  /\ result \in [Calls -> Result]
  /\ audit \in [Calls -> Seq(Status)]
  /\ wire \in [Calls -> Wire]
  /\ confirms \in [Calls -> Calls \cup {NoToken}]
  /\ issuedAt \in [Calls -> Nat]
  /\ recordedAt \in [Calls -> Nat]

Init ==
  /\ now = 1
  /\ restarts = 0
  /\ powerPending = {}
  /\ actionPending = {}
  /\ buckets = [k \in Keys |-> NoBucket]
  /\ lastBackup = [s \in Servers |-> NeverBackedUp]
  /\ pc = [c \in Calls |-> "idle"]
  /\ req = [c \in Calls |-> NoRequest]
  /\ result = [c \in Calls |-> "none"]
  /\ audit = [c \in Calls |-> <<>>]
  /\ wire = [c \in Calls |-> "none"]
  /\ confirms = [c \in Calls |-> NoToken]
  /\ issuedAt = [c \in Calls |-> 0]
  /\ recordedAt = [c \in Calls |-> 0]

-----------------------------------------------------------------------------
\* evictExpired, which create and consume of both stores call first
Unexpired(pending) == {e \in pending : now <= e.expiresAt}

NewPowerEntry(c, r) ==
  [token |-> c, userId |-> User(r), serverId |-> r.serverId,
   signal |-> r.arg, expiresAt |-> now + Ttl]

\* Slip: the entry outlives the expires_at its caller was told.
NewActionEntryLonger(c, r) ==
  [token |-> c, userId |-> User(r), serverId |-> r.serverId,
   kind |-> HandlerOf(r.tool).kind, fingerprint |-> Fingerprint(r),
   expiresAt |-> now + Ttl + 1]

NewActionEntry(c, r) ==
  [token |-> c, userId |-> User(r), serverId |-> r.serverId,
   kind |-> HandlerOf(r.tool).kind, fingerprint |-> Fingerprint(r),
   expiresAt |-> now + Ttl]

\* Slip: consume without the test of the account.
PowerMatchesAnyAccount(e, r) ==
  /\ e.token = r.token
  /\ e.serverId = r.serverId
  /\ e.signal = r.arg
  /\ now <= e.expiresAt

ActionMatchesAnyAccount(e, r) ==
  /\ e.token = r.token
  /\ e.serverId = r.serverId
  /\ e.kind = HandlerOf(r.tool).kind
  /\ e.fingerprint = Fingerprint(r)
  /\ now <= e.expiresAt

\* The tests of consume, after which the entry is deleted
PowerMatches(e, r) ==
  /\ e.token = r.token
  /\ e.userId = User(r)
  /\ e.serverId = r.serverId
  /\ e.signal = r.arg
  /\ now <= e.expiresAt

ActionMatches(e, r) ==
  /\ e.token = r.token
  /\ e.userId = User(r)
  /\ e.serverId = r.serverId
  /\ e.kind = HandlerOf(r.tool).kind
  /\ e.fingerprint = Fingerprint(r)
  /\ now <= e.expiresAt

\* ConfirmationStore.create on behalf of call c
PowerCreate(c, r) ==
  /\ powerPending' = Unexpired(powerPending) \cup {NewPowerEntry(c, r)}
  /\ issuedAt' = [issuedAt EXCEPT ![c] = now]
  /\ UNCHANGED <<actionPending, confirms, recordedAt>>

\* ActionConfirmationStore.create on behalf of call c
ActionCreate(c, r) ==
  /\ actionPending' = Unexpired(actionPending) \cup {NewActionEntry(c, r)}
  /\ issuedAt' = [issuedAt EXCEPT ![c] = now]
  /\ UNCHANGED <<powerPending, confirms, recordedAt>>

\* Slip: consume without the delete.
PowerConsumeKeeps(c, r) ==
  /\ \E e \in Unexpired(powerPending) : PowerMatches(e, r)
  /\ powerPending' = Unexpired(powerPending)
  /\ confirms' = [confirms EXCEPT ![c] = r.token]
  /\ UNCHANGED <<actionPending, issuedAt, recordedAt>>

ActionConsumeKeeps(c, r) ==
  /\ \E e \in Unexpired(actionPending) : ActionMatches(e, r)
  /\ actionPending' = Unexpired(actionPending)
  /\ confirms' = [confirms EXCEPT ![c] = r.token]
  /\ UNCHANGED <<powerPending, issuedAt, recordedAt>>

\* consume returns ok: the entry goes, whatever the handler does next.
PowerConsume(c, r) ==
  /\ \E e \in Unexpired(powerPending) :
       PowerMatches(e, r) /\ powerPending' = Unexpired(powerPending) \ {e}
  /\ confirms' = [confirms EXCEPT ![c] = r.token]
  /\ UNCHANGED <<actionPending, issuedAt, recordedAt>>

ActionConsume(c, r) ==
  /\ \E e \in Unexpired(actionPending) :
       ActionMatches(e, r) /\ actionPending' = Unexpired(actionPending) \ {e}
  /\ confirms' = [confirms EXCEPT ![c] = r.token]
  /\ UNCHANGED <<powerPending, issuedAt, recordedAt>>

\* Slip: the delete comes before the tests of account, server and signal.
PowerConsumeFailsAndDrops(r) ==
  /\ \A e \in Unexpired(powerPending) : ~PowerMatches(e, r)
  /\ powerPending' = {e \in Unexpired(powerPending) : e.token # r.token}
  /\ UNCHANGED <<actionPending, history>>

\* consume fails: a token that exists and does not match stays usable.
PowerConsumeFails(r) ==
  /\ \A e \in Unexpired(powerPending) : ~PowerMatches(e, r)
  /\ powerPending' = Unexpired(powerPending)
  /\ UNCHANGED <<actionPending, history>>

ActionConsumeFails(r) ==
  /\ \A e \in Unexpired(actionPending) : ~ActionMatches(e, r)
  /\ actionPending' = Unexpired(actionPending)
  /\ UNCHANGED <<powerPending, history>>

\* The call awaits a reply of the panel: `next` is where it resumes.
Await(c, next) ==
  /\ pc' = [pc EXCEPT ![c] = next]
  /\ UNCHANGED <<result, audit>>

\* The call sends its action and awaits the reply.
Send(c) ==
  /\ Await(c, "act")
  /\ wire' = [wire EXCEPT ![c] = "sent"]

\* The call returns, having written these audit records.
Return(c, how, records) ==
  /\ pc' = [pc EXCEPT ![c] = "done"]
  /\ result' = [result EXCEPT ![c] = how]
  /\ audit' = [audit EXCEPT ![c] = @ \o records]

-----------------------------------------------------------------------------
(* From the entry of a handler to its first await. *)

\* checkRateLimit admits the call.
Admit(c, r) ==
  /\ pc[c] = "idle"
  /\ RateAllowed(buckets[r.key], now)
  /\ buckets' = [buckets EXCEPT ![r.key] = RateCheck(@, now)]
  /\ req' = [req EXCEPT ![c] = r]
  /\ UNCHANGED <<clock, lastBackup>>

\* checkRateLimit throws, outside every try block.
RateLimited(c, r) ==
  /\ pc[c] = "idle"
  /\ ~RateAllowed(buckets[r.key], now)
  /\ buckets' = [buckets EXCEPT ![r.key] = RateCheck(@, now)]
  /\ req' = [req EXCEPT ![c] = r]
  /\ Return(c, "rate_limited", <<"denied">>)
  /\ UNCHANGED <<clock, lastBackup, stores, wire, history>>

\* server_power asks for the permission before it looks at the token.
StartPower(c, r) ==
  /\ Admit(c, r)
  /\ IsPower(r)
  /\ Await(c, "permission")
  /\ UNCHANGED <<stores, wire, history>>

\* The checks an action tool makes before everything else
PassesChecks(r) ==
  /\ HandlerOf(r.tool).checksArg => r.arg \notin InvalidArgs
  /\ HandlerOf(r.tool).backupLimit => BackupAllowed(lastBackup[r.serverId], now)

FailChecks(c, r) ==
  /\ Admit(c, r)
  /\ ~IsPower(r)
  /\ ~PassesChecks(r)
  /\ Return(c, "denied", <<"denied">>)
  /\ UNCHANGED <<stores, wire, history>>

\* First call of a tool that needs a permission: it is looked up first.
StartRequest(c, r) ==
  /\ Admit(c, r)
  /\ ~IsPower(r)
  /\ PassesChecks(r)
  /\ r.token = NoToken
  /\ HandlerOf(r.tool).permission
  /\ Await(c, "permission")
  /\ UNCHANGED <<stores, wire, history>>

\* First call of create_server or delete_server: the token is issued at once.
IssueAtOnce(c, r) ==
  /\ Admit(c, r)
  /\ ~IsPower(r)
  /\ PassesChecks(r)
  /\ r.token = NoToken
  /\ ~HandlerOf(r.tool).permission
  /\ ActionCreate(c, r)
  /\ Return(c, "requires_confirmation", <<"success">>)
  /\ UNCHANGED wire

\* Second call: the token is consumed before the first await, so a call
\* that fails later has used it up.
StartConfirmed(c, r) ==
  /\ Admit(c, r)
  /\ ~IsPower(r)
  /\ PassesChecks(r)
  /\ r.token # NoToken
  /\ ActionConsume(c, r)
  /\ \/ HandlerOf(r.tool).permission /\ Await(c, "permission") /\ UNCHANGED wire
     \/ HandlerOf(r.tool).lookup /\ Await(c, "lookup") /\ UNCHANGED wire
     \/ ~HandlerOf(r.tool).permission /\ ~HandlerOf(r.tool).lookup /\ Send(c)

RefuseToken(c, r) ==
  /\ Admit(c, r)
  /\ ~IsPower(r)
  /\ PassesChecks(r)
  /\ r.token # NoToken
  /\ ActionConsumeFails(r)
  /\ Return(c, "denied", <<"denied">>)
  /\ UNCHANGED wire

\* A caller presents a token it was given, or makes one up (its own name,
\* which no store holds yet).
Presentable(c) ==
  {NoToken, c} \cup {t \in Calls : result[t] = "requires_confirmation"}

Start(c) ==
  \E r \in Requests :
    /\ r.token \in Presentable(c)
    /\ \/ RateLimited(c, r)
       \/ StartPower(c, r)
       \/ FailChecks(c, r)
       \/ StartRequest(c, r)
       \/ IssueAtOnce(c, r)
       \/ StartConfirmed(c, r)
       \/ RefuseToken(c, r)

-----------------------------------------------------------------------------
(* requireServerWithPermission replies. *)

Resumes(c, at) == pc[c] = at /\ UNCHANGED <<clock, limiters, req>>

\* getServer failed or timed out, or the permission is missing (which
\* requireServerWithPermission records as denied before it throws).  The
\* first call of an action tool then records denied, any other call error.
PermissionFails(c) ==
  /\ Resumes(c, "permission")
  /\ IF ~IsPower(req[c]) /\ req[c].token = NoToken
       THEN \E records \in {<<"denied">>, <<"denied", "denied">>} :
              Return(c, "denied", records)
       ELSE \E records \in {<<"error">>, <<"denied", "error">>} :
              Return(c, "error", records)
  /\ UNCHANGED <<stores, wire, history>>

\* server_power: serverDetails.isInstalling
Installing(c) ==
  /\ Resumes(c, "permission")
  /\ IsPower(req[c])
  /\ Return(c, "denied", <<"denied">>)
  /\ UNCHANGED <<stores, wire, history>>

\* server_power: no confirmation needed, a token is not looked at
PowerDirect(c) ==
  /\ Resumes(c, "permission")
  /\ IsPower(req[c])
  /\ ~NeedsConfirmation(req[c])
  /\ Send(c)
  /\ UNCHANGED <<stores, history>>

PowerIssue(c) ==
  /\ Resumes(c, "permission")
  /\ IsPower(req[c])
  /\ NeedsConfirmation(req[c])
  /\ req[c].token = NoToken
  /\ PowerCreate(c, req[c])
  /\ Return(c, "requires_confirmation", <<"success">>)
  /\ UNCHANGED wire

\* Slip: the installation is looked at after the token is consumed.
PowerConfirmedThenInstalling(c) ==
  /\ Resumes(c, "permission")
  /\ IsPower(req[c])
  /\ NeedsConfirmation(req[c])
  /\ req[c].token # NoToken
  /\ PowerConsume(c, req[c])
  /\ Send(c) \/ (Return(c, "denied", <<"denied">>) /\ UNCHANGED wire)

PowerConfirmed(c) ==
  /\ Resumes(c, "permission")
  /\ IsPower(req[c])
  /\ NeedsConfirmation(req[c])
  /\ req[c].token # NoToken
  /\ PowerConsume(c, req[c])
  /\ Send(c)

PowerRefused(c) ==
  /\ Resumes(c, "permission")
  /\ IsPower(req[c])
  /\ NeedsConfirmation(req[c])
  /\ req[c].token # NoToken
  /\ PowerConsumeFails(req[c])
  /\ Return(c, "denied", <<"denied">>)
  /\ UNCHANGED wire

\* First call of an action tool: the token is issued.
ActionIssue(c) ==
  /\ Resumes(c, "permission")
  /\ ~IsPower(req[c])
  /\ req[c].token = NoToken
  /\ ActionCreate(c, req[c])
  /\ Return(c, "requires_confirmation", <<"success">>)
  /\ UNCHANGED wire

\* Second call of an action tool: the action is sent.
ActionSend(c) ==
  /\ Resumes(c, "permission")
  /\ ~IsPower(req[c])
  /\ req[c].token # NoToken
  /\ Send(c)
  /\ UNCHANGED <<stores, history>>

PermissionReply(c) ==
  \/ PermissionFails(c)
  \/ Installing(c)
  \/ PowerDirect(c)
  \/ PowerIssue(c)
  \/ PowerConfirmed(c)
  \/ PowerRefused(c)
  \/ ActionIssue(c)
  \/ ActionSend(c)

-----------------------------------------------------------------------------
(* delete_server: getServerByIdentifier replies. *)

LookupFinds(c) ==
  /\ Resumes(c, "lookup")
  /\ Send(c)
  /\ UNCHANGED <<stores, history>>

\* No such server: an error result and no audit record.
LookupFindsNone(c) ==
  /\ Resumes(c, "lookup")
  /\ Return(c, "error", <<>>)
  /\ UNCHANGED <<stores, wire, history>>

LookupFails(c) ==
  /\ Resumes(c, "lookup")
  /\ Return(c, "error", <<"error">>)
  /\ UNCHANGED <<stores, wire, history>>

LookupReply(c) == LookupFinds(c) \/ LookupFindsNone(c) \/ LookupFails(c)

-----------------------------------------------------------------------------
(* The action at the panel, and its reply. *)

\* The panel may carry out a request nobody waits for any more.
PanelExecutes(c) ==
  /\ wire[c] = "sent"
  /\ wire' = [wire EXCEPT ![c] = "executed"]
  /\ UNCHANGED <<clock, stores, limiters, pc, req, result, audit, history>>

PanelRefuses(c) ==
  /\ wire[c] = "sent"
  /\ wire' = [wire EXCEPT ![c] = "refused"]
  /\ UNCHANGED <<clock, stores, limiters, pc, req, result, audit, history>>

\* create_server_backup records the time of the reply.
RecordBackup(c) ==
  IF HandlerOf(req[c].tool).backupLimit
    THEN /\ lastBackup' = [lastBackup EXCEPT ![req[c].serverId] = now]
         /\ recordedAt' = [recordedAt EXCEPT ![c] = now]
    ELSE UNCHANGED <<lastBackup, recordedAt>>

ActSucceeds(c) ==
  /\ pc[c] = "act"
  /\ wire[c] = "executed"
  /\ RecordBackup(c)
  /\ Return(c, "ok", <<"success">>)
  /\ UNCHANGED <<clock, stores, buckets, req, wire, confirms, issuedAt>>

\* Slip: no abort timer, only an answer ends the wait.
ActFailsOnAnswer(c) ==
  /\ Resumes(c, "act")
  /\ wire[c] = "refused"
  /\ Return(c, "error", <<"error">>)
  /\ UNCHANGED <<stores, wire, history>>

\* Slip: a failed action leaves no audit record.
ActFailsUnaudited(c) ==
  /\ Resumes(c, "act")
  /\ Return(c, "error", <<>>)
  /\ UNCHANGED <<stores, wire, history>>

\* An error status, a timeout, or a reply that is lost or unreadable: the
\* panel may have carried the action out, or may still do so.
ActFails(c) ==
  /\ Resumes(c, "act")
  /\ Return(c, "error", <<"error">>)
  /\ UNCHANGED <<stores, wire, history>>

ActReply(c) == ActSucceeds(c) \/ ActFails(c)

-----------------------------------------------------------------------------
Tick ==
  /\ now < MaxTime
  /\ now' = now + 1
  /\ UNCHANGED <<restarts, stores, limiters, calls, history>>

\* The process ends and starts again: stores, limiters and calls in flight
\* are memory of the process, the audit log and the panel are not.
Restart ==
  /\ restarts < MaxRestarts
  /\ restarts' = restarts + 1
  /\ powerPending' = {}
  /\ actionPending' = {}
  /\ buckets' = [k \in Keys |-> NoBucket]
  /\ lastBackup' = [s \in Servers |-> NeverBackedUp]
  /\ pc' = [c \in Calls |-> IF pc[c] = "idle" THEN "idle" ELSE "done"]
  /\ result' = [c \in Calls |-> IF pc[c] \in {"idle", "done"} THEN result[c] ELSE "lost"]
  /\ recordedAt' = [c \in Calls |-> 0]
  /\ UNCHANGED <<now, req, audit, wire, confirms, issuedAt>>

Reply(c) == PermissionReply(c) \/ LookupReply(c) \/ ActReply(c)

Next ==
  \/ \E c \in Calls : Start(c) \/ Reply(c) \/ PanelExecutes(c) \/ PanelRefuses(c)
  \/ Tick
  \/ Restart

Spec == Init /\ [][Next]_vars

\* Every panel request ends: with a reply, or with the abort of
\* fetchWithTimeout (client.ts:139-160), application-client.ts:65-106, or the
\* runtime's own limit for writeFile and reply bodies, which have no timer.
Fairness == \A c \in Calls : WF_vars(Reply(c))

FairSpec == Spec /\ Fairness

-----------------------------------------------------------------------------
(* Properties. *)

\* What a confirmation is about: the fields of consume's tests
Asked(r) == <<IsPower(r), User(r), r.serverId, HandlerOf(r.tool).kind, r.arg>>

\* An action that needs a confirmation reaches the panel only when an earlier
\* call of the same account, for the same tool, server and covered arguments,
\* was answered with requires_confirmation, whatever the other calls, the
\* other store and restarts did in between.
NoActionWithoutConfirmation ==
  \A c \in Calls :
    wire[c] # "none" /\ NeedsConfirmation(req[c]) =>
      /\ confirms[c] \in Calls
      /\ result[confirms[c]] = "requires_confirmation"
      /\ Asked(req[confirms[c]]) = Asked(req[c])

\* One confirmation, one action: two calls never act on the same token, even
\* when both present it while the other awaits the panel.
ConfirmedOnce ==
  \A c, d \in Calls : confirms[c] # NoToken /\ confirms[c] = confirms[d] => c = d

\* A token is consumed within the lifetime its first call announced in
\* expires_at, counted from the moment the token was issued.
ConfirmedInTime ==
  [][\A c \in Calls :
       confirms'[c] # confirms[c] => now <= issuedAt[confirms'[c]] + Ttl]_vars

\* A pending confirmation leaves its store only by expiring, by a restart, or
\* by a call that matches it in account, server, action and arguments: a
\* mistaken or foreign attempt does not use it up.
ConfirmationKept ==
  [][restarts' = restarts =>
       /\ \A e \in powerPending \ powerPending' :
            \/ now > e.expiresAt
            \/ \E c \in Calls : confirms[c] # e.token /\ confirms'[c] = e.token
                              /\ Asked(req'[c]) = Asked(req[e.token])
       /\ \A e \in actionPending \ actionPending' :
            \/ now > e.expiresAt
            \/ \E c \in Calls : confirms[c] # e.token /\ confirms'[c] = e.token
                              /\ Asked(req'[c]) = Asked(req[e.token])]_vars

\* A power confirmation outlives a call that cannot act: server_power checks
\* the permission and the installation state before it consumes the token.
PowerTokenSpentOnlyToAct ==
  \A c \in Calls : confirms[c] # NoToken /\ IsPower(req[c]) => wire[c] # "none"

\* The audit log agrees with the panel: a call that reports success was
\* carried out; a call whose action was carried out ends with a record of
\* success or error, unless a restart cut it off; a refused call never
\* reached the panel.
AuditAgreesWithPanel ==
  \A c \in Calls : pc[c] = "done" =>
    /\ result[c] = "ok" => wire[c] = "executed" /\ audit[c] = <<"success">>
    /\ wire[c] # "none" => \/ result[c] = "lost"
                          \/ /\ result[c] \in {"ok", "error"}
                             /\ Len(audit[c]) = 1
    /\ result[c] \in {"denied", "rate_limited"} => audit[c] # <<>>

\* A call of create_server_backup that starts within the interval after a
\* backup this process recorded for the server gets no further.
BackupQuietPeriod ==
  [][\A c, d \in Calls :
       (/\ pc[c] = "idle" /\ pc'[c] # "idle"
        /\ req'[c].tool = "create_server_backup"
        /\ recordedAt[d] # 0 /\ req[d].serverId = req'[c].serverId
        /\ now < recordedAt[d] + BackupInterval)
       => result'[c] \in {"denied", "rate_limited"}]_vars

\* A call that was started returns.
CallReturns == \A c \in Calls : pc[c] # "idle" ~> pc[c] = "done"

-----------------------------------------------------------------------------
(* Claims of the repository's own text. *)

\* "Rate limited per server." (register-extended-tools.ts:144): two backups
\* of a server are started at least the interval apart.
BackupsSpaced ==
  \A c, d \in Calls :
    c # d /\ recordedAt[c] # 0 /\ recordedAt[d] # 0 /\ req[c].serverId = req[d].serverId
    => \/ recordedAt[c] >= recordedAt[d] + BackupInterval
       \/ recordedAt[d] >= recordedAt[c] + BackupInterval

\* "Confirmation token does not match this request" (action-store.ts:77): what
\* is carried out is, in every argument, the request that was confirmed.
ConfirmedAsRequested ==
  \A c \in Calls :
    confirms[c] # NoToken => [req[c] EXCEPT !.token = NoToken, !.key = req[confirms[c]].key]
                             = req[confirms[c]]

=============================================================================
