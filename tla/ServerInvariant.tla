-------------------------- MODULE ServerInvariant ---------------------------
(***************************************************************************)
(* The inductive invariant behind the theorems about ServerTools.  One     *)
(* part is about each call: which requests its handler may be awaiting,    *)
(* what the answers it has had entitle it to, and, of a bulk tool, how far *)
(* it has come.  The other is about the audit log they all write.          *)
(***************************************************************************)
EXTENDS ServerTools

Kinds == {"request", "command", "console", "diagnose"}

\* What is common to the handlers: only those that read by one request may do
\* without a permission, the bulk tools only read, and what checks a path is a
\* tool.
HandlerFits(h) ==
  /\ h.kind \in Kinds
  /\ {h.checksArg, h.acts, h.bulk, h.tool} \subseteq BOOLEAN
  /\ h.kind # "request" => h.permission = "control.console"
  /\ h.bulk => ~h.acts /\ h.tool /\ h.kind \in {"request", "console"}
  /\ h.acts => h.kind \in {"request", "command"} /\ h.permission # None
  /\ h.checksArg \/ h.kind = "command" => h.tool
  /\ h.kind = "diagnose" => ~h.tool

Answer ==
  {NoAnswer, Accepted} \cup [type: {"state"}, state: PanelStates]
    \cup [type: {"file"}, file: LogFiles]

CallType ==
  /\ panel \in [Servers -> PanelStates]
  /\ pc \in [Calls -> Awaits \cup {"idle", "done"}]
  /\ req \in [Calls -> Request \cup {NoRequest}]
  /\ at \in [Calls -> Nat \ {0}]
  /\ answer \in [Calls -> Answer]
  /\ answers \in [Calls -> Seq([server: Servers, ok: BOOLEAN])]
  /\ wire \in [Calls -> {"none", "sent", "executed"}]
  /\ result \in [Calls -> {"none", "ok", "denied", "error", "rate_limited", "lost"}]
  /\ witness \in [Calls -> [ran: BOOLEAN, granted: BOOLEAN, trouble: SUBSET Nat]]

Untouched(c) ==
  /\ pc[c] = "idle" /\ req[c] = NoRequest /\ at[c] = 1 /\ answer[c] = NoAnswer
  /\ answers[c] = <<>> /\ wire[c] = "none" /\ result[c] = "none"
  /\ witness[c].trouble = {}

\* A handler awaits what its kind lets it ask for, and has an answer of the
\* kind it asked for.
AwaitsFit(c) ==
  /\ Len(req[c].servers) > 0
  /\ pc[c] \in {"server", "fetch", "access"} => Handler(c).permission # None
  /\ pc[c] \in {"fetch", "log"} => Handler(c).kind \in {"console", "diagnose"}
  /\ pc[c] = "resources" => Handler(c).kind \in {"command", "diagnose"}
  /\ pc[c] \in {"server", "fetch", "access", "resources", "power"} /\ Answered(c)
       => answer[c].type = "state"
  /\ pc[c] \in {"access", "power", "credentials", "session"} => Handler(c).kind # "request"
  /\ wire[c] = "sent" /\ Awaiting(c) => pc[c] \in {"request", "command", "session"}
  /\ wire[c] # "none" => Handler(c).acts

\* The history has noted what the state of a command's server entitles it to.
Noted(c, state) ==
  /\ state.power = "running" => witness[c].ran
  /\ "control.console" \in state.granted => witness[c].granted

\* A command goes on past the permission with the permission and the policy
\* on its side, and past the power state with the server running.
CommandFits(c) ==
  /\ at[c] = 1
  /\ Awaiting(c) =>
       /\ pc[c] \in {"server", "access", "resources", "power", "credentials", "session", "command"}
       /\ Noted(c, panel[req[c].servers[1]])
  /\ answer[c].type = "state" => Noted(c, answer[c].state)
  /\ pc[c] \in {"access", "resources", "power", "credentials", "session", "command"}
       \/ wire[c] # "none"
       => witness[c].granted /\ Evaluate(Policy(c), req[c].command)
  /\ pc[c] \in {"credentials", "session", "command"} \/ wire[c] # "none" => witness[c].ran
  /\ pc[c] \in {"access", "power", "credentials", "session"} => req[c].wait
  /\ pc[c] \in {"resources", "command"} => ~req[c].wait

\* What a bulk tool was asked for
Expected(c) == Len(ServersOf(req[c]))

\* A bulk tool is at the server after the last it has answered for.
BulkFits(c) ==
  /\ Awaiting(c) => at[c] = Len(answers[c]) + 1 /\ at[c] <= Expected(c)
  /\ Len(answers[c]) <= Expected(c)
  /\ result[c] = "ok" => Len(answers[c]) = Expected(c)
  /\ witness[c].trouble \subseteq DOMAIN answers[c]
  /\ \A i \in DOMAIN answers[c] :
       /\ answers[c][i].server = req[c].servers[i]
       /\ i \in witness[c].trouble \/ Search(c) = "invalid" => ~answers[c][i].ok
       /\ ~answers[c][i].ok =>
            \/ i \in witness[c].trouble \/ Search(c) = "invalid"
            \/ Handler(c).kind = "console" /\ ConsoleTransport = "file"

CallFits(c) ==
  \/ Untouched(c)
  \/ /\ pc[c] # "idle" /\ req[c] \in Request
     /\ AwaitsFit(c)
     /\ Handler(c).kind = "command" => CommandFits(c)
     /\ IF Handler(c).bulk THEN BulkFits(c) ELSE at[c] = 1

CallInv == CallType /\ \A c \in Calls : CallFits(c)

-----------------------------------------------------------------------------
(***************************************************************************)
(* The audit log, by the life of the process that made each record: every  *)
(* record is at the end of a line of the file or was printed, never both.  *)
(* As long as this process uses the file it has printed nothing, and a     *)
(* line left unfinished is from an earlier process.                        *)
(***************************************************************************)
Filed(file, n) == \E i \in DOMAIN file : Last(file[i]).no = n /\ Last(file[i]).whole
IsPrinted(stdout, n) == \E i \in DOMAIN stdout : stdout[i] = n

LastNumbers(file) == [i \in DOMAIN file |-> Last(file[i]).no]

PieceOf(n) == [no: 1..n, whole: BOOLEAN]
LogOf(n) == [enabled: BOOLEAN, stdout: Seq(1..n), file: Seq(Seq(PieceOf(n)) \ {<<>>})]

\* A line in two pieces ends in the first record of its process.
FirstOfItsLife(line, lives) ==
  Len(line) > 1 /\ Last(line).whole
    => \A m \in 1..(Last(line).no - 1) : lives[m] # lives[Last(line).no]

LogFits(l, lives, life) ==
  /\ l \in LogOf(Len(lives))
  /\ lives \in Seq(Nat) /\ \A n \in DOMAIN lives : lives[n] <= life
  /\ Increasing(l.stdout) /\ Increasing(LastNumbers(l.file))
  /\ \A n \in DOMAIN lives : Filed(l.file, n) <=> ~IsPrinted(l.stdout, n)
  /\ \A i \in DOMAIN l.file : FirstOfItsLife(l.file[i], lives)
  /\ \A m, n \in DOMAIN lives :
       m < n /\ lives[m] = lives[n] /\ IsPrinted(l.stdout, m) => IsPrinted(l.stdout, n)
  /\ l.enabled => \A n \in DOMAIN lives : lives[n] = life => ~IsPrinted(l.stdout, n)
  /\ l.enabled /\ Unfinished(l.file) => \A n \in DOMAIN lives : lives[n] # life

Lives == [n \in DOMAIN made |-> made[n].life]

TrailInv ==
  /\ made \in Seq(Entry) /\ restarts \in Nat /\ faults \in 0..MaxFaults
  /\ counters \in [Counter -> Nat]
  /\ LogFits(log, Lives, restarts)

-----------------------------------------------------------------------------
(***************************************************************************)
(* What is recorded and counted, by call: nothing counts before the call   *)
(* has ended, and an action was sent, and carried out where that is told,  *)
(* before its success.                                                     *)
(***************************************************************************)
\* The requests a handler ends with: those that may act
Lasts == {"request", "command", "session"}

SentFits(c) ==
  /\ pc[c] = "done" <=> result[c] # "none"
  /\ wire[c] # "none" =>
       pc[c] \in Lasts \/ result[c] \in {"ok", "error", "lost"}
  /\ pc[c] \in Lasts /\ Handler(c).acts =>
       wire[c] # "none" /\ (Answered(c) /\ pc[c] # "session" => wire[c] = "executed")
  /\ result[c] = "ok" /\ Handler(c).acts =>
       wire[c] = "executed" \/ (Unacknowledged(c) /\ wire[c] = "sent")

OutcomeInv ==
  /\ \A c \in Calls : IF req[c] = NoRequest THEN RecordsOf(c) = {} ELSE RecordsFit(c)
  /\ \A c \in Calls : req[c] # NoRequest => SentFits(c)
  /\ \A counter \in Counter :
       IsFiniteSet(Counted(counter)) /\ counters[counter] = Cardinality(Counted(counter))

-----------------------------------------------------------------------------
\* A handler that reads a log file has been answered with one.
LogRead == \A c \in Calls : pc[c] = "log" /\ Answered(c) => answer[c].file \in LogFiles

\* The inductive invariant: every call, the log files and the audit log are as
\* the code leaves them between its awaits.
IInv == TypeOK /\ CallInv /\ LogRead /\ TrailInv /\ OutcomeInv

-----------------------------------------------------------------------------
(***************************************************************************)
(* Why a call returns: a handler asks at most eleven requests about one    *)
(* server, and each leaves fewer to ask, whatever becomes of it.           *)
(***************************************************************************)
PerServer == 11

\* The requests a handler may yet ask about a server, this one included
Stage(awaited, at_path) ==
  CASE awaited = "server"      -> 11
    [] awaited = "resources"   -> 10
    [] awaited = "fetch"       -> 9
    [] awaited = "log"         -> 9 - at_path
    [] awaited = "access"      -> 4
    [] awaited = "power"       -> 3
    [] awaited = "credentials" -> 2
    [] OTHER                   -> 1

\* The requests a call may yet ask
Ahead(c) ==
  IF Awaiting(c) THEN PerServer * (Expected(c) - at[c]) + Stage(pc[c], path[c]) ELSE 0

\* A call at work has something ahead, and never more than its servers need.
AheadBounded ==
  \A c \in Calls : /\ Ahead(c) \in Nat
                   /\ Awaiting(c) => Ahead(c) \in 1..(PerServer * Expected(c))

\* A call that goes on, with an answer or without, has fewer requests to ask
\* than before; nothing else gives a call more, once it has begun.
Nears(c) ==
  /\ Resume(c) \/ RequestFails(c) => Ahead(c)' < Ahead(c)
  /\ pc[c] # "idle" => Ahead(c)' <= Ahead(c)

\* However a handler's loops over servers and log paths, its fallbacks from one
\* way of reading the console to another and its catches are taken together,
\* every answer and every failure of a request brings its call nearer the end;
\* none of them begins anew what the call has been through.
EveryAnswerBringsTheEnd == [][\A c \in Calls : Nears(c)]_vars
=============================================================================
