----------------------------- MODULE ServerTools -----------------------------
(***************************************************************************)
(* The tools that do what they are asked at once: lists and reads, the     *)
(* changes that need no confirmation, the console tools and the bulk tools *)
(* (mcp/register-*.ts), with the resources and prompts.  With them come    *)
(* the audit log and the counters every tool call leaves a trace in, the   *)
(* command policy, and the log files get_console_output reads.             *)
(*                                                                         *)
(* A call is one member of Calls.  A handler is a sequence of requests to  *)
(* the panel; pc[c] names the one it awaits.  The panel answers from its   *)
(* state at that moment (PanelAnswers), the handler goes on with the       *)
(* answer later (Resume), or the request fails at any time, answered or    *)
(* not (RequestFails); in between the panel's state changes and other      *)
(* calls take steps.                                                       *)
(*                                                                         *)
(* Abstracted: the rate limiter (module RateLimiter) may admit or deny any *)
(* call; a use of the console session (module ConsoleSessions), and what   *)
(* one request awaits, with its retries and timers (module PanelRequest),  *)
(* are one request here; a path or size is valid or not; the two requests  *)
(* of server-status, made at the same time, are one.                       *)
(*                                                                         *)
(* A console session acknowledges nothing: what is sent on its socket may  *)
(* be lost, and the wait for output ends by silence or a timeout, whatever *)
(* Wings did.                                                              *)
(***************************************************************************)
EXTENDS AuditLog, ConsoleLog, CommandPolicy

CONSTANTS
  Calls,             \* invocations, each made at most once
  NoRequest,         \* the request of a call not made yet
  Servers,           \* values of server_id
  Batches,           \* what calls ask for together: functions from Calls
  PanelStates,       \* states a server may be in at the panel
  ReadyState,        \* the one every server starts in: nothing is refused in it
  EggOf,             \* the egg of each server
  LogFiles,          \* contents a console log may have when it is read
  ConsoleTransport,  \* CONSOLE_TRANSPORT
  BulkMaxServers,    \* BULK_MAX_SERVERS
  FileMaxReadBytes,  \* FILE_MAX_READ_BYTES
  ConsoleMaxLines,   \* max_lines of a request, or CONSOLE_MAX_LINES
  MaxMatches,        \* max_matches of a request of get_console_output
  MaxChanges,        \* bound on changes of the panel's state
  MaxFaults,         \* bound on failures of the audit file
  MaxRestarts        \* bound on restarts of the process

-----------------------------------------------------------------------------
(***************************************************************************)
(* What distinguishes the handlers:                                        *)
(*   kind        what follows the permission: "request" is one request;    *)
(*               "command", "console" and "diagnose" have programs of      *)
(*               their own                                                 *)
(*   permission  what requireServerWithPermission asks for, None without   *)
(*   checksArg   a path (and size) check comes first                       *)
(*   acts        the request changes something at the panel                *)
(*   bulk        the program runs once for each of server_ids              *)
(*   tool        it is admitted by the limiter and leaves an outcome       *)
(***************************************************************************)
Plain(kind, permission) ==
  [kind |-> kind, permission |-> permission, checksArg |-> FALSE,
   acts |-> FALSE, bulk |-> FALSE, tool |-> TRUE]
Reads(permission) == Plain("request", permission)
Acting(handler) == [handler EXCEPT !.acts = TRUE]
Acts(permission) == Acting(Reads(permission))
Checked(handler) == [handler EXCEPT !.checksArg = TRUE]
Bulk(handler) == [handler EXCEPT !.bulk = TRUE]
NoTool(handler) == [handler EXCEPT !.tool = FALSE]

ConsoleKind(kind) == Plain(kind, "control.console")

PanelTools ==
  [list_accessible_servers |-> Reads(None),
   get_server              |-> Reads(None),
   get_server_resources    |-> Reads("control.console")]

FileReads ==
  [list_server_files            |-> Checked(Reads("file.read")),
   read_server_file             |-> Checked(Reads("file.read-content")),
   get_server_file_download_url |-> Checked(Reads("file.read-content")),
   download_server_file         |-> Checked(Reads("file.read-content"))]

FileWrites ==
  [upload_server_file   |-> Checked(Acts("file.create")),
   create_server_folder |-> Checked(Acts("file.create"))]

FileMoves ==
  [rename_server_files |-> Checked(Acts("file.update")),
   pull_remote_file    |-> Checked(Acts("file.create"))]

ActivityTool == [get_server_activity |-> Reads("activity.read")]

BackupList == [list_server_backups |-> Reads("backup.read")]
BackupUrl == [get_backup_download_url |-> Reads("backup.download")]

NetworkTools ==
  [list_server_allocations  |-> Reads("allocation.read"),
   create_server_allocation |-> Acts("allocation.create"),
   update_server_allocation |-> Acts("allocation.update")]

DatabaseTools ==
  [list_server_databases           |-> Reads("database.read"),
   create_server_database          |-> Acts("database.create"),
   rotate_server_database_password |-> Acts("database.update")]

SubuserTools ==
  [list_server_subusers  |-> Reads("user.read"),
   get_server_subuser    |-> Reads("user.read"),
   create_server_subuser |-> Acts("user.create"),
   update_server_subuser |-> Acts("user.update")]

ConsoleTools ==
  [get_console_output   |-> ConsoleKind("console"),
   send_console_command |-> Acting(ConsoleKind("command"))]

BulkTools ==
  [bulk_get_server_resources |-> Bulk(Reads("control.console")),
   bulk_read_server_files    |-> Bulk(Checked(Reads("file.read-content"))),
   bulk_get_console_output   |-> Bulk(ConsoleKind("console"))]

\* Not tools: nothing limits them, only a refused permission is recorded.
Resources ==
  [server_status |-> NoTool(Reads("control.console")),
   server_list   |-> NoTool(Reads(None))]
Prompts ==
  [safe_restart    |-> NoTool(Reads("control.console")),
   diagnose_server |-> NoTool(ConsoleKind("diagnose"))]

\* No name is in two of these.
Tables ==
  {PanelTools, FileReads, FileWrites, FileMoves, ActivityTool, BackupList, BackupUrl,
   NetworkTools, DatabaseTools, SubuserTools, ConsoleTools, BulkTools, Resources, Prompts}

HandlerOf ==
  [t \in UNION {DOMAIN table : table \in Tables} |->
     (CHOOSE table \in Tables : t \in DOMAIN table)[t]]

ToolNames == DOMAIN HandlerOf
Permission == {HandlerOf[t].permission : t \in ToolNames} \ {None}

\* A search is for the lines that match or do not, or has a pattern that is no
\* regular expression.
Request == [tool: ToolNames, servers: Seq(Servers), valid: BOOLEAN,
            command: Command, wait: BOOLEAN, search: {"none", "match", "invert", "invalid"}]

PanelState == [power: {"running", "offline"},
               status: {"normal", "suspended", "installing"},
               granted: SUBSET Permission]

COMMON_LOG_PATHS ==
  <<"/logs/latest.log", "/logs/latest_log.txt", "/console.log", "/logs/console.log">>

ASSUME ServerToolsAssumption ==
  /\ NoRequest \notin Request
  /\ Batches # {}
  /\ \A batch \in Batches : \A c \in Calls :
       batch[c] # NoRequest => batch[c] \in Request /\ Len(batch[c].servers) > 0
  /\ PanelStates \subseteq PanelState
  /\ ReadyState \in PanelStates
  /\ ReadyState = [power |-> "running", status |-> "normal", granted |-> Permission]
  /\ PolicyServers = Servers
  /\ EggOf \in [Servers -> Egg]
  /\ LogFiles \subseteq Seq(Line)
  /\ ConsoleTransport \in {"auto", "file", "websocket"}
  /\ {BulkMaxServers, FileMaxReadBytes, ConsoleMaxLines, MaxMatches} \subseteq Nat \ {0}
  /\ {MaxChanges, MaxFaults, MaxRestarts} \subseteq Nat

-----------------------------------------------------------------------------
VARIABLES
  panel,     \* the state of each server at the panel
  restarts,  \* restarts so far
  changes,   \* changes of the panel's state so far
  log,       \* the audit log, see AuditLog
  made,      \* history: every audit record, in the order they were made
  faults,    \* failures of the audit file so far
  counters,  \* MetricsRegistry.counters: tool calls by status, rate limit hits
  pc,        \* the request each call awaits
  req,       \* what each call asked for
  at,        \* the position in server_ids, or of a call's only server
  path,      \* the position in COMMON_LOG_PATHS
  answer,    \* the panel's answer, not yet received
  answers,   \* results of a bulk tool, in order
  wire,      \* what became of each call's action at the panel
  result,    \* how each call ended
  shown,     \* the log file last read and the lines taken from it
  witness    \* history: what a command's server was, and for which of its
             \* servers a bulk tool had a request fail or the panel refuse

trail == <<log, made, faults, counters>>
environment == <<panel, changes, restarts>>
vars == <<environment, trail, pc, req, at, path, answer, answers, wire, result, shown, witness>>

Status == {"success", "error", "denied"}

\* What a call may await: `server` is getServer of requireServerWithPermission,
\* `fetch` the one of fetchConsoleOutput, `access` the one of
\* prepareConsoleAccess and `power` its getServerResources; `resources` is
\* asked before a command or by diagnose_server; `session` is a use of the
\* console session, `request` and `command` what the tool is about.
Awaits == {"server", "fetch", "access", "resources", "power", "credentials",
           "session", "log", "request", "command"}

NoAnswer == [type |-> "none"]
StateAnswer(s) == [type |-> "state", state |-> panel[s]]
FileAnswer(file) == [type |-> "file", file |-> file]
Accepted == [type |-> "accepted"]

\* The calls made so far are some of a batch.
Follows(batch, requests) ==
  \A c \in Calls : requests[c] \in {NoRequest, batch[c]}
RequestsOf(c) == {batch[c] : batch \in Batches} \ {NoRequest}

Nothing == [file |-> <<>>, search |-> "none", limit |-> MaxMatches, lines |-> <<>>]
NoWitness == [ran |-> FALSE, granted |-> FALSE, trouble |-> {}]

Counter == Status \cup {"rate_limit_hits"}

\* A record by its call and status, the counter that went up with it, and the
\* process that made it
Entry == [call: Calls, status: Status, counter: Counter \cup {None}, life: Nat]

TypeOK ==
  /\ panel \in [Servers -> PanelStates]
  /\ changes \in 0..MaxChanges /\ restarts \in 0..MaxRestarts /\ faults \in 0..MaxFaults
  /\ made \in Seq(Entry)
  /\ log.enabled \in BOOLEAN
  /\ log.stdout \in Seq(DOMAIN made)
  /\ \A i \in DOMAIN log.file : log.file[i] \in Seq([no: DOMAIN made, whole: BOOLEAN])
  /\ counters \in [Counter -> Nat]
  /\ pc \in [Calls -> Awaits \cup {"idle", "done"}]
  /\ \E batch \in Batches : Follows(batch, req)
  /\ at \in [Calls -> Nat \ {0}]
  /\ path \in [Calls -> DOMAIN COMMON_LOG_PATHS]
  /\ \A c \in Calls : answer[c].type # "none" => pc[c] \in Awaits
  /\ \A c \in Calls : answers[c] \in Seq([server: Servers, ok: BOOLEAN])
  /\ wire \in [Calls -> {"none", "sent", "executed"}]
  /\ result \in [Calls -> {"none", "ok", "denied", "error", "rate_limited", "lost"}]
  /\ DOMAIN shown = Calls
  /\ \A c \in Calls : shown[c].file \in LogFiles \cup {<<>>}
  /\ witness \in [Calls -> [ran: BOOLEAN, granted: BOOLEAN, trouble: SUBSET Nat]]

Init ==
  /\ panel = [s \in Servers |-> ReadyState]
  /\ changes = 0 /\ restarts = 0
  /\ log \in {NewLogger([enabled |-> TRUE, file |-> <<>>, stdout |-> <<>>], usable) :
                usable \in BOOLEAN}
  /\ made = <<>> /\ faults = 0
  /\ counters = [n \in Counter |-> 0]
  /\ pc = [c \in Calls |-> "idle"]
  /\ req = [c \in Calls |-> NoRequest]
  /\ at = [c \in Calls |-> 1]
  /\ path = [c \in Calls |-> 1]
  /\ answer = [c \in Calls |-> NoAnswer]
  /\ answers = [c \in Calls |-> <<>>]
  /\ wire = [c \in Calls |-> "none"]
  /\ result = [c \in Calls |-> "none"]
  /\ shown = [c \in Calls |-> Nothing]
  /\ witness = [c \in Calls |-> NoWitness]

-----------------------------------------------------------------------------
Handler(c) == HandlerOf[req[c].tool]
Awaiting(c) == pc[c] \in Awaits
Answered(c) == answer[c].type # "none"

\* A bulk tool takes the first of the servers it is given.
ServersOf(r) ==
  SubSeq(r.servers, 1, IF HandlerOf[r.tool].bulk THEN Min({BulkMaxServers, Len(r.servers)}) ELSE 1)
ServerOf(c) == ServersOf(req[c])[at[c]]

FirstAwait(handler) ==
  CASE handler.kind = "console"   -> "fetch"
    [] handler.permission = None -> "request"
    [] OTHER                      -> "server"

\* auditSuccess, auditError and auditDenied count what they record; a refused
\* permission is recorded and not counted.
Outcome(status) == [status |-> status, counter |-> status]
Refusal == [status |-> "denied", counter |-> None]
RateLimitHit == [status |-> "denied", counter |-> "rate_limit_hits"]

Succeeded(c) == IF Handler(c).tool THEN <<Outcome("success")>> ELSE <<>>
Failed(c) == IF Handler(c).tool THEN <<Outcome("error")>> ELSE <<>>

\* The call makes these records, one of whose appends may fail.
Record(c, records) ==
  \E faulty \in 0..Len(records), append \in Appends \ {"written"} :
    /\ faulty # 0 => log.enabled /\ faults < MaxFaults
    /\ faults' = faults + (IF faulty = 0 THEN 0 ELSE 1)
    /\ log' = LogAll(log, [i \in DOMAIN records |->
                             [no |-> Len(made) + i,
                              append |-> IF i = faulty THEN append ELSE "written"]])
    /\ made' = made \o [i \in DOMAIN records |->
                          [call |-> c, status |-> records[i].status,
                           counter |-> records[i].counter, life |-> restarts]]
    /\ counters' = [n \in Counter |->
         counters[n] + Cardinality({i \in DOMAIN records : records[i].counter = n})]

\* The call sends its next request, which may be the one that acts.
Await(c, next) ==
  /\ pc' = [pc EXCEPT ![c] = next]
  /\ answer' = [answer EXCEPT ![c] = NoAnswer]
  /\ wire' = IF Handler(c).acts /\ next \in {"request", "command", "session"}
               THEN [wire EXCEPT ![c] = "sent"] ELSE wire
  /\ UNCHANGED result

Return(c, how, records) ==
  /\ pc' = [pc EXCEPT ![c] = "done"]
  /\ answer' = [answer EXCEPT ![c] = NoAnswer]
  /\ result' = [result EXCEPT ![c] = how]
  /\ Record(c, records)
  /\ UNCHANGED wire

GoOn(c, next) == Await(c, next) /\ UNCHANGED <<trail, at, path, answers>>
Stop(c, how, records) == Return(c, how, records) /\ UNCHANGED <<at, path, answers>>

AddAnswer(c, ok) ==
  answers' = [answers EXCEPT ![c] = Append(@, [server |-> ServerOf(c), ok |-> ok])]

\* Slip: the first failure ends the loop.
PushUntilFailure(c, ok, records) ==
  /\ AddAnswer(c, ok)
  /\ IF ok /\ at[c] < Len(ServersOf(req[c]))
       THEN /\ at' = [at EXCEPT ![c] = @ + 1]
            /\ path' = [path EXCEPT ![c] = 1]
            /\ Await(c, FirstAwait(Handler(c)))
            /\ Record(c, records)
       ELSE Return(c, "ok", records \o Succeeded(c)) /\ UNCHANGED <<at, path>>

\* A bulk tool notes how it went with one server and turns to the next; when
\* none is left it succeeds, however many failed.
Push(c, ok, records) ==
  /\ AddAnswer(c, ok)
  /\ IF at[c] < Len(ServersOf(req[c]))
       THEN /\ at' = [at EXCEPT ![c] = @ + 1]
            /\ path' = [path EXCEPT ![c] = 1]
            /\ Await(c, FirstAwait(Handler(c)))
            /\ Record(c, records)
       ELSE Return(c, "ok", records \o Succeeded(c)) /\ UNCHANGED <<at, path>>

Finish(c) ==
  IF Handler(c).bulk THEN Push(c, TRUE, <<>>) ELSE Stop(c, "ok", Succeeded(c))

\* diagnose_server goes without the console output when it cannot have it.
DiagnosesOutput(c) ==
  Handler(c).kind = "diagnose" /\ pc[c] \notin {"server", "resources", "request"}

\* Slip: the error is returned and not recorded.
ThrowUnrecorded(c, records) ==
  IF Handler(c).bulk THEN Push(c, FALSE, records)
  ELSE IF DiagnosesOutput(c) THEN Stop(c, "ok", records)
  ELSE Stop(c, "error", records)

\* An error in the program of a call, after these records: the catch of its
\* handler, of the loop of a bulk tool, or of the SDK
Throw(c, records) ==
  IF Handler(c).bulk THEN Push(c, FALSE, records)
  ELSE IF DiagnosesOutput(c) THEN Stop(c, "ok", records)
  ELSE Stop(c, "error", records \o Failed(c))

-----------------------------------------------------------------------------
\* What the history notes when call c begins or the panel changes, of commands
Witnessed(c, r, states) ==
  IF HandlerOf[r.tool].kind # "command" THEN witness[c]
  ELSE LET state == states[r.servers[1]]
       IN [witness[c] EXCEPT !.ran = @ \/ state.power = "running",
                             !.granted = @ \/ "control.console" \in state.granted]

\* The handler up to its first await: checkRateLimit and the path check.  A
\* bulk read of a refused path returns an error and records nothing.
Begin(c, r) ==
  /\ pc[c] = "idle"
  /\ req' = [req EXCEPT ![c] = r]
  /\ \E batch \in Batches : Follows(batch, req')
  /\ witness' = [witness EXCEPT ![c] = Witnessed(c, r, panel)]
  /\ LET handler == HandlerOf[r.tool] IN
       \/ handler.tool /\ Return(c, "rate_limited", <<RateLimitHit>>)
       \/ /\ handler.checksArg /\ ~r.valid
          /\ IF handler.bulk THEN Return(c, "error", <<>>)
             ELSE Return(c, "denied", <<Outcome("denied")>>)
       \/ /\ handler.checksArg => r.valid
          /\ pc' = [pc EXCEPT ![c] = FirstAwait(handler)]
          /\ UNCHANGED <<trail, answer, result, wire>>
  /\ UNCHANGED <<environment, at, path, answers, shown>>

\* The panel answers; an action is answered by PanelExecutes, but for one that
\* went through the console session, where silence is an answer too.
PanelAnswers(c) ==
  /\ Awaiting(c) /\ ~Answered(c)
  /\ wire[c] = "sent" => pc[c] = "session"
  /\ \E a \in CASE pc[c] \in {"server", "fetch", "access", "resources", "power"} ->
                     {StateAnswer(ServerOf(c))}
                [] pc[c] = "log" -> {FileAnswer(file) : file \in LogFiles}
                [] OTHER         -> {Accepted} :
       answer' = [answer EXCEPT ![c] = a]
  /\ UNCHANGED <<environment, trail, pc, req, at, path, answers, wire, result, shown, witness>>

\* The panel, or Wings, carries out an action that was sent, if the call still
\* waits or not.
PanelExecutes(c) ==
  /\ wire[c] = "sent"
  /\ wire' = [wire EXCEPT ![c] = "executed"]
  /\ answer' = [answer EXCEPT ![c] = IF Awaiting(c) /\ pc[c] # "session" THEN Accepted ELSE @]
  /\ UNCHANGED <<environment, trail, pc, req, at, path, answers, result, shown, witness>>

\* The panel is changed from elsewhere.
PanelChanges(s, state) ==
  /\ changes < MaxChanges
  /\ state # panel[s]
  /\ changes' = changes + 1
  /\ panel' = [panel EXCEPT ![s] = state]
  /\ witness' = [c \in Calls |->
                   IF Awaiting(c) THEN Witnessed(c, req[c], panel') ELSE witness[c]]
  /\ UNCHANGED <<restarts, trail, pc, req, at, path, answer, answers, wire, result, shown>>

-----------------------------------------------------------------------------
Lacks(c) == Handler(c).permission \notin answer[c].state.granted
Running(c) == answer[c].state.power = "running"
Policy(c) == ForServer(Overrides[ServerOf(c)], EggOf[ServerOf(c)])

\* The state of the server does not allow what the call is about to ask: the
\* permission, a server that is suspended or installing, or one that is down.
Refuses(c) ==
  /\ answer[c].type = "state"
  /\ \/ pc[c] \in {"server", "fetch", "access"} /\ Lacks(c)
     \/ pc[c] \in {"fetch", "access"} /\ answer[c].state.status # "normal"
     \/ pc[c] = "power" /\ ~Running(c)

\* What the history notes of a bulk tool: a server it is to report as failed
NotesTrouble(c, met) ==
  witness' = [witness EXCEPT ![c].trouble =
    IF Handler(c).bulk /\ met THEN @ \cup {at[c]} ELSE @]

\* The call has the answer to what it awaited.
Receives(c, awaited) ==
  /\ pc[c] \in awaited
  /\ Answered(c)
  /\ NotesTrouble(c, Refuses(c))
  /\ UNCHANGED <<environment, req>>

\* requireServerWithPermission has its answer.
OnServer(c) ==
  /\ Receives(c, {"server"})
  /\ LET handler == Handler(c) IN
       \/ Lacks(c) /\ Throw(c, <<Refusal>>)
       \/ ~Lacks(c) /\ handler.kind = "request" /\ GoOn(c, "request")
       \/ /\ ~Lacks(c) /\ handler.kind = "command"
          /\ IF Evaluate(Policy(c), req[c].command)
               THEN GoOn(c, IF req[c].wait THEN "access" ELSE "resources")
               ELSE Stop(c, "denied", <<Outcome("denied")>>)
       \* A suspended server is diagnosed without its console.
       \/ /\ ~Lacks(c) /\ handler.kind = "diagnose"
          /\ GoOn(c, IF answer[c].state.status = "suspended" THEN "request" ELSE "resources")
  /\ UNCHANGED shown

\* The permission and the state of the server, in fetchConsoleOutput and in
\* prepareConsoleAccess
Unusable(c) ==
  \/ Lacks(c) /\ Throw(c, <<Refusal>>)
  \/ ~Lacks(c) /\ answer[c].state.status # "normal" /\ Throw(c, <<>>)
Usable(c) == ~Lacks(c) /\ answer[c].state.status = "normal"

\* fetchConsoleOutput chooses where to read.
OnFetch(c) ==
  /\ Receives(c, {"fetch"})
  /\ LET readsFiles == "file.read-content" \in answer[c].state.granted IN
       \/ Unusable(c)
       \/ Usable(c) /\ ConsoleTransport # "websocket" /\ readsFiles /\ GoOn(c, "log")
       \/ Usable(c) /\ ConsoleTransport = "file" /\ ~readsFiles /\ Throw(c, <<>>)
       \/ /\ Usable(c) /\ (ConsoleTransport = "auto" => ~readsFiles) /\ ConsoleTransport # "file"
          /\ GoOn(c, "access")
  /\ UNCHANGED shown

\* Slip: the same path is read again.
NextPathAgain(c) ==
  IF path[c] < Len(COMMON_LOG_PATHS)
    THEN GoOn(c, "log")
    ELSE IF ConsoleTransport = "file" THEN Throw(c, <<>>) ELSE GoOn(c, "access")

\* fetchConsoleFromFiles goes to the next path, or has found nothing.
NextPath(c) ==
  IF path[c] < Len(COMMON_LOG_PATHS)
    THEN /\ path' = [path EXCEPT ![c] = @ + 1]
         /\ Await(c, "log")
         /\ UNCHANGED <<trail, at, answers>>
    ELSE IF ConsoleTransport = "file" THEN Throw(c, <<>>) ELSE GoOn(c, "access")

\* The search of the console tools; the others have none.
Search(c) == IF Handler(c).kind = "console" THEN req[c].search ELSE "none"

\* A bulk read has no max_matches, and never more lines than max_lines.
MatchLimit(c) == IF Handler(c).bulk THEN ConsoleMaxLines ELSE MaxMatches

\* A log file was read: a blank one is passed over.  Of any other the lines are
\* taken, if there are any, and searched: `new RegExp` throws when the pattern
\* is invalid.
OnLog(c) ==
  /\ Receives(c, {"log"})
  /\ LET file == answer[c].file
         kept == Truncated(file, FileMaxReadBytes)
         lines == TailLines(Stripped(file, kept), ConsoleMaxLines)
     IN \/ Blank(kept) /\ NextPath(c) /\ UNCHANGED shown
        \/ ~Blank(kept) /\ Search(c) = "invalid" /\ Throw(c, <<>>) /\ UNCHANGED shown
        \/ /\ ~Blank(kept) /\ Search(c) # "invalid"
           /\ shown' = [shown EXCEPT ![c] =
                [file |-> file, search |-> Search(c), limit |-> MatchLimit(c),
                 lines |-> SearchLines(file, lines, Search(c), MatchLimit(c))]]
           /\ Finish(c)

\* prepareConsoleAccess, request by request
OnAccess(c) ==
  /\ Receives(c, {"access"})
  /\ \/ Unusable(c)
     \/ Usable(c) /\ GoOn(c, "power")
  /\ UNCHANGED shown

\* Slip: asks until the server runs.
OnPowerAskingAgain(c) ==
  /\ Receives(c, {"power"})
  /\ GoOn(c, IF Running(c) THEN "credentials" ELSE "power")
  /\ UNCHANGED shown

\* Slip: a server that is down is connected to all the same.
OnPowerAnyway(c) ==
  /\ Receives(c, {"power"})
  /\ GoOn(c, "credentials")
  /\ UNCHANGED shown

OnPower(c) ==
  /\ Receives(c, {"power"})
  /\ IF Running(c) THEN GoOn(c, "credentials") ELSE Throw(c, <<>>)
  /\ UNCHANGED shown

OnCredentials(c) ==
  /\ Receives(c, {"credentials"}) /\ GoOn(c, "session") /\ UNCHANGED shown

\* Slip: a server that is not running is warned of and sent the command.
OnResourcesAnyway(c) ==
  /\ Receives(c, {"resources"})
  /\ GoOn(c, IF Handler(c).kind = "command" THEN "command" ELSE "fetch")
  /\ UNCHANGED shown

\* The power state is known, to send_console_command or diagnose_server.
OnResources(c) ==
  /\ Receives(c, {"resources"})
  /\ \/ Running(c) /\ GoOn(c, IF Handler(c).kind = "command" THEN "command" ELSE "fetch")
     \/ ~Running(c) /\ Handler(c).kind = "command" /\ Stop(c, "denied", <<Outcome("denied")>>)
     \/ ~Running(c) /\ Handler(c).kind = "diagnose" /\ Finish(c)
  /\ UNCHANGED shown

\* The request the tool is about, the command or the console session: the last.
\* What a console session brought is searched too.
OnLast(c) ==
  /\ Receives(c, {"request", "command", "session"})
  /\ IF Search(c) = "invalid" THEN Throw(c, <<>>) ELSE Finish(c)
  /\ UNCHANGED shown

\* An answer has arrived and its handler has gone on to its next await.
Resume(c) ==
  \/ OnServer(c) \/ OnFetch(c)       \/ OnLog(c)       \/ OnAccess(c)
  \/ OnPower(c)  \/ OnCredentials(c) \/ OnResources(c) \/ OnLast(c)

\* A request is refused, times out or cannot be read.
RequestFails(c) ==
  /\ Awaiting(c)
  /\ NotesTrouble(c, pc[c] # "log")
  /\ IF pc[c] = "log" THEN NextPath(c) ELSE Throw(c, <<>>)
  /\ UNCHANGED <<environment, req, shown>>

\* The process ends and starts again: its calls are lost, its counters start
\* anew, and the audit file is tried again.
Restart ==
  /\ restarts < MaxRestarts
  /\ restarts' = restarts + 1
  /\ pc' = [c \in Calls |-> IF Awaiting(c) THEN "done" ELSE pc[c]]
  /\ result' = [c \in Calls |-> IF Awaiting(c) THEN "lost" ELSE result[c]]
  /\ answer' = [c \in Calls |-> NoAnswer]
  /\ counters' = [n \in Counter |-> 0]
  /\ \E usable \in BOOLEAN : log' = NewLogger(log, usable)
  /\ UNCHANGED <<panel, changes, made, faults, req, at, path, answers, wire, shown, witness>>

Step(c) ==
  \/ \E r \in RequestsOf(c) : Begin(c, r)
  \/ RequestFails(c) \/ Resume(c) \/ PanelAnswers(c) \/ PanelExecutes(c)

Next ==
  \/ \E c \in Calls : Step(c)
  \/ \E s \in Servers, state \in PanelStates : PanelChanges(s, state)
  \/ Restart

\* A request is answered or fails in the end (PanelRequest, ConsoleSessions).
Fairness == \A c \in Calls : WF_vars(RequestFails(c) \/ Resume(c))

Spec == Init /\ [][Next]_vars /\ Fairness

-----------------------------------------------------------------------------
\* A refused permission is recorded and not counted; any other record is the
\* outcome of its call.
RecordsOf(c) == {n \in DOMAIN made : made[n].call = c}
RefusalsOf(c) == {n \in RecordsOf(c) : made[n].counter = None}
OutcomesOf(c) == RecordsOf(c) \ RefusalsOf(c)

CounterOf ==
  [ok |-> "success", error |-> "error", denied |-> "denied", rate_limited |-> "rate_limit_hits"]
StatusOf(counter) == IF counter = "rate_limit_hits" THEN "denied" ELSE counter

\* How the records of a call may read, given how it ended
RecordsFit(c) ==
  /\ OutcomesOf(c) # {} <=>
       /\ result[c] \notin {"none", "lost"}
       /\ Handler(c).tool
       /\ ~(Handler(c).bulk /\ result[c] = "error")
  /\ \A n \in OutcomesOf(c) :
       /\ OutcomesOf(c) = {n}
       /\ made[n].counter = CounterOf[result[c]]
       /\ made[n].status = StatusOf(made[n].counter)
       /\ \A m \in RefusalsOf(c) : m < n
  /\ \A n \in RefusalsOf(c) : made[n].status = "denied"
  /\ IF Handler(c).bulk
       THEN /\ Cardinality(RefusalsOf(c))
                 <= Cardinality({i \in DOMAIN answers[c] : ~answers[c][i].ok})
            /\ result[c] = "error" => ~req[c].valid
       ELSE RefusalsOf(c) # {} =>
              /\ Cardinality(RefusalsOf(c)) = 1
              /\ result[c] = "error" \/ (result[c] = "ok" /\ Handler(c).kind = "diagnose")

\* The calls with an outcome that this process has counted so
Counted(counter) ==
  {c \in Calls : \E n \in OutcomesOf(c) : made[n].counter = counter /\ made[n].life = restarts}

\* A command whose output is waited for goes through the console session.
Unacknowledged(c) == Handler(c).kind = "command" /\ req[c].wait

\* Who reads the audit log and the counters learns what became of every call:
\* a call that ended has exactly one outcome record, that says how, after
\* the refusals it met (a refused permission is recorded by
\* requireServerWithPermission and again by the catch of its handler); what is
\* no tool, and a bulk read of a refused path, has none;
\* an action that was sent is followed by success or error, success only when
\* the panel did it, or, of a command sent through the console session, when
\* it was handed to the socket (the server may never have had it); and each
\* outcome was counted once.
EveryOutcomeRecorded ==
  /\ \A c \in Calls : req[c] # NoRequest => RecordsFit(c)
  /\ \A c \in Calls : pc[c] = "done" /\ wire[c] # "none" => result[c] \in {"ok", "error", "lost"}
  /\ \A c \in Calls :
       result[c] = "ok" /\ Handler(c).acts =>
         wire[c] = "executed" \/ (Unacknowledged(c) /\ wire[c] = "sent")
  /\ \A counter \in Counter : counters[counter] = Cardinality(Counted(counter))

Increasing(numbers) == \A i, j \in DOMAIN numbers : i < j => numbers[i] < numbers[j]

\* The audit logger loses no record and writes none twice, whenever the file
\* fails and whenever the process starts again: each is on a line of its own in
\* the file or was printed, in the order they were made, in one process first
\* in the file and then on stdout.  Only the first record a process appends
\* may have to share its line, with the part that a failed append left behind.
LogKeepsRecords ==
  /\ \A n \in DOMAIN made :
       Cardinality(CleanLines(log, n)) + Cardinality(GluedLines(log, n))
         + Cardinality(Printed(log, n)) = 1
  /\ \A n \in DOMAIN made : GluedLines(log, n) # {} =>
       \A m \in 1..(n - 1) : made[m].life # made[n].life
  /\ Increasing(log.stdout)
  /\ Increasing([i \in DOMAIN log.file |-> Last(log.file[i]).no])
  /\ \A m, n \in DOMAIN made :
       /\ m < n /\ made[m].life = made[n].life
       /\ Printed(log, m) # {}
       => Printed(log, n) # {}

\* send_console_command reads the permission and the power state in requests
\* of their own before it sends: a command sent is one the server's policy
\* allows, and at some moment of the call the server was running and at some
\* moment the account had control.console, whatever changed meanwhile.
CommandsSentWithCause ==
  \A c \in Calls :
    wire[c] # "none" /\ Handler(c).kind = "command" =>
      /\ witness[c].ran /\ witness[c].granted
      /\ \E policy \in Policies :
           /\ Meant(policy, Overrides[ServerOf(c)], EggOf[ServerOf(c)])
           /\ Evaluate(policy, req[c].command)

\* A bulk tool answers for each server it was given, up to the configured
\* number, once and in order, and what befalls one server is not held against
\* another: a server is reported as failed when a request for it failed or the
\* panel's state of it did not allow it, and only then, but for two cases: the
\* pattern searched for is invalid, which every server fails by; or only log
\* files are read, and none with text, or with permission to read it, was found.
BulkAnswersEach ==
  \A c \in Calls : req[c] # NoRequest /\ Handler(c).bulk =>
    LET given == req[c].servers
        expected == Min({BulkMaxServers, Len(given)})
    IN /\ Len(answers[c]) <= expected
       /\ result[c] = "ok" => Len(answers[c]) = expected
       /\ \A i \in DOMAIN answers[c] :
            /\ answers[c][i].server = given[i]
            /\ i \in witness[c].trouble \/ Search(c) = "invalid" => ~answers[c][i].ok
            /\ ~answers[c][i].ok =>
                 \/ i \in witness[c].trouble \/ Search(c) = "invalid"
                 \/ Handler(c).kind = "console" /\ ConsoleTransport = "file"

\* The lines are the last ones with text in what was read of the file, or of
\* these the first that match
TheLastRead(file, search, limit, lines) ==
  LET end(i) == StartOf(file, i) + file[i].bytes
      whole(i) == end(i) <= FileMaxReadBytes
      read == {i \in DOMAIN file : /\ file[i].bytes > 0 /\ StartOf(file, i) < FileMaxReadBytes
                                   /\ ~(file[i].codes /\ whole(i))}
      recent == {i \in read : Cardinality({j \in read : j > i}) < ConsoleMaxLines}
      wanted == CASE search = "none"   -> recent
                  [] search = "match"  -> {i \in recent : whole(i) /\ file[i].hit}
                  [] search = "invert" -> {i \in recent : ~(whole(i) /\ file[i].hit)}
      first == {i \in wanted : search = "none"
                                 \/ Cardinality({j \in wanted : j < i}) < limit}
  IN /\ {lines[k][1] : k \in DOMAIN lines} = first
     /\ Increasing([k \in DOMAIN lines |-> lines[k][1]])
     /\ \A k \in DOMAIN lines : lines[k][2] = file[lines[k][1]].bytes <=> whole(lines[k][1])

\* The lines get_console_output shows are the last ones with text in what was
\* read of the log, or of these the first that match; all of the log is read
\* when it is not longer than FILE_MAX_READ_BYTES.  (Of a longer log they are
\* the last lines of its first bytes.)
LinesAreTheLastRead ==
  \A c \in Calls : shown[c] # Nothing =>
    TheLastRead(shown[c].file, shown[c].search, shown[c].limit, shown[c].lines)

\* Every call of a tool, a resource or a prompt returns once its requests are
\* answered or fail, however many servers and log files it tries.
CallReturns == \A c \in Calls : Awaiting(c) ~> pc[c] = "done"
=============================================================================
