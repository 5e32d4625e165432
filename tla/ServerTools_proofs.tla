------------------------ MODULE ServerTools_proofs --------------------------
(***************************************************************************)
(* Safety of ServerTools for every batch of calls, every panel and log,    *)
(* every transport and limit: what a bulk tool answers, and with what      *)
(* cause a command is sent.                                                *)
(*                                                                         *)
(* A step of a call either goes on to the next request, ends the call, or, *)
(* of a bulk tool, notes an answer and turns to the next server.  A lemma  *)
(* for each says what the call must have for its part of the invariant to  *)
(* hold afterwards; every handler is then one of these.                    *)
(***************************************************************************)
EXTENDS ServerInvariant, Operators_proofs

-----------------------------------------------------------------------------
(* The table of handlers. *)

\* The handlers that ask one request, whatever the permission is
LEMMA RequestHandlersFit ==
  ASSUME NEW p
  PROVE  /\ HandlerFits(Reads(p)) /\ HandlerFits(Checked(Reads(p)))
         /\ p # None => HandlerFits(Acts(p)) /\ HandlerFits(Checked(Acts(p)))
         /\ HandlerFits(Bulk(Reads(p))) /\ HandlerFits(Bulk(Checked(Reads(p))))
         /\ HandlerFits(NoTool(Reads(p)))
<1> USE DEF HandlerFits, Kinds, Reads, Plain
<1>1. HandlerFits(Reads(p)) /\ HandlerFits(NoTool(Reads(p)))
  BY DEF NoTool
<1>2. HandlerFits(Checked(Reads(p)))
  BY DEF Checked
<1>3. p # None => HandlerFits(Acts(p)) /\ HandlerFits(Checked(Acts(p)))
  BY DEF Checked, Acts, Acting
<1>4. HandlerFits(Bulk(Reads(p)))
  BY DEF Bulk
<1>5. HandlerFits(Bulk(Checked(Reads(p))))
  BY DEF Bulk, Checked
<1>6. QED
  BY <1>1, <1>2, <1>3, <1>4, <1>5

\* The handlers with programs of their own
LEMMA ConsoleHandlersFit ==
  /\ HandlerFits(ConsoleKind("console")) /\ HandlerFits(Bulk(ConsoleKind("console")))
  /\ HandlerFits(Acting(ConsoleKind("command")))
  /\ HandlerFits(NoTool(ConsoleKind("diagnose")))
<1> USE DEF HandlerFits, Kinds, ConsoleKind, Plain, None
<1>1. HandlerFits(ConsoleKind("console")) /\ HandlerFits(Bulk(ConsoleKind("console")))
  BY DEF Bulk
<1>2. HandlerFits(Acting(ConsoleKind("command")))
  BY DEF Acting
<1>3. HandlerFits(NoTool(ConsoleKind("diagnose")))
  BY DEF NoTool
<1>4. QED
  BY <1>1, <1>2, <1>3

\* Every tool, resource and prompt has a handler of the described form.
LEMMA HandlersFit == \A t \in ToolNames : HandlerFits(HandlerOf[t])
<1>1. ASSUME NEW table \in Tables, NEW t \in DOMAIN table
      PROVE  HandlerFits(table[t])
  <2>1. CASE table = PanelTools
    BY <2>1, RequestHandlersFit DEF PanelTools
  <2>2. CASE table = FileReads
    BY <2>2, RequestHandlersFit DEF FileReads
  <2>3. CASE table = FileWrites
    BY <2>3, RequestHandlersFit DEF FileWrites, None
  <2>4. CASE table = FileMoves
    BY <2>4, RequestHandlersFit DEF FileMoves, None
  <2>5. CASE table = ActivityTool
    BY <2>5, RequestHandlersFit DEF ActivityTool
  <2>6. CASE table = BackupList
    BY <2>6, RequestHandlersFit DEF BackupList
  <2>7. CASE table = BackupUrl
    BY <2>7, RequestHandlersFit DEF BackupUrl
  <2>8. CASE table = NetworkTools
    BY <2>8, RequestHandlersFit DEF NetworkTools, None
  <2>9. CASE table = DatabaseTools
    BY <2>9, RequestHandlersFit DEF DatabaseTools, None
  <2>10. CASE table = SubuserTools
    BY <2>10, RequestHandlersFit DEF SubuserTools, None
  <2>11. CASE table = ConsoleTools
    BY <2>11, RequestHandlersFit, ConsoleHandlersFit DEF ConsoleTools
  <2>12. CASE table = BulkTools
    BY <2>12, RequestHandlersFit, ConsoleHandlersFit DEF BulkTools
  <2>13. CASE table = Resources
    BY <2>13, RequestHandlersFit, ConsoleHandlersFit DEF Resources
  <2>14. CASE table = Prompts
    BY <2>14, RequestHandlersFit, ConsoleHandlersFit DEF Prompts
  <2>15. QED
    BY <2>1, <2>2, <2>3, <2>4, <2>5, <2>6, <2>7, <2>8, <2>9, <2>10, <2>11,
       <2>12, <2>13, <2>14 DEF Tables
<1>2. QED
  BY <1>1 DEF HandlerOf, ToolNames

\* The handler of a call that was made is in the table.
LEMMA HandlerKnown ==
  ASSUME NEW c \in Calls, req[c] \in Request
  PROVE  /\ HandlerFits(Handler(c))
         /\ Handler(c).permission # None => Handler(c).permission \in Permission
<1>1. req[c].tool \in ToolNames
  BY DEF Request
<1>2. HandlerFits(Handler(c))
  BY <1>1, HandlersFit DEF Handler
<1>3. Handler(c).permission # None => Handler(c).permission \in Permission
  BY <1>1 DEF Handler, Permission
<1>4. QED
  BY <1>2, <1>3

-----------------------------------------------------------------------------
(* The servers a call is for. *)

\* A bulk tool takes the first of its servers, up to the configured number,
\* and every other tool has one; there always is a first.
LEMMA ServersAsked ==
  ASSUME NEW r \in Request, Len(r.servers) > 0
  PROVE  /\ ServersOf(r) \in Seq(Servers)
         /\ Len(ServersOf(r)) \in Nat \ {0}
         /\ HandlerOf[r.tool].bulk =>
              Len(ServersOf(r)) = Min({BulkMaxServers, Len(r.servers)})
         /\ \A i \in 1..Len(ServersOf(r)) :
              ServersOf(r)[i] = r.servers[i] /\ ServersOf(r)[i] \in Servers
<1> DEFINE last == IF HandlerOf[r.tool].bulk THEN Min({BulkMaxServers, Len(r.servers)}) ELSE 1
<1>1. r.servers \in Seq(Servers) /\ Len(r.servers) \in Nat
  BY DEF Request
<1>2. BulkMaxServers \in Nat \ {0}
  BY ServerToolsAssumption
<1>3. Min({BulkMaxServers, Len(r.servers)}) \in 1..Len(r.servers)
  BY <1>1, <1>2, MinOfTwo
<1>4. last \in 1..Len(r.servers) /\ last \in Nat \ {0}
  BY <1>1, <1>3
<1>5. ServersOf(r) = SubSeq(r.servers, 1, last)
  BY DEF ServersOf
<1> HIDE DEF last
<1>6. /\ SubSeq(r.servers, 1, last) \in Seq(Servers)
      /\ Len(SubSeq(r.servers, 1, last)) = last
      /\ \A i \in 1..last : SubSeq(r.servers, 1, last)[i] = r.servers[i]
  BY <1>1, <1>4
<1>7. \A i \in 1..last : r.servers[i] \in Servers
  BY <1>1, <1>4
<1>8. QED
  BY <1>4, <1>5, <1>6, <1>7 DEF last

-----------------------------------------------------------------------------
(* What keeps the invariant. *)

\* Nothing of the call changes.
Same(d) ==
  /\ pc'[d] = pc[d] /\ req'[d] = req[d] /\ at'[d] = at[d] /\ answer'[d] = answer[d]
  /\ answers'[d] = answers[d] /\ wire'[d] = wire[d] /\ result'[d] = result[d]
  /\ witness'[d] = witness[d]

\* A call nothing happens to keeps its part of the invariant.
LEMMA Frame ==
  ASSUME panel' = panel, NEW d \in Calls, Same(d), CallFits(d)
  PROVE  CallFits(d)'
BY DEF Same, CallFits, Untouched, AwaitsFit, CommandFits, BulkFits, Noted, Expected,
       Handler, Awaiting, Answered, Policy, ServerOf, Search

\* One call takes a step.
LEMMA OneCall ==
  ASSUME CallInv, CallType', panel' = panel, NEW c \in Calls, CallFits(c)',
         \A d \in Calls \ {c} : Same(d)
  PROVE  CallInv'
BY Frame DEF CallInv

\* What a handler does to the history of its call: it may note where it met
\* trouble, and forgets nothing.
Witnesses(c) ==
  /\ witness' \in [Calls -> [ran: BOOLEAN, granted: BOOLEAN, trouble: SUBSET Nat]]
  /\ \A d \in Calls \ {c} : witness'[d] = witness[d]
  /\ witness'[c].ran = witness[c].ran /\ witness'[c].granted = witness[c].granted
  /\ witness[c].trouble \subseteq witness'[c].trouble
  /\ witness'[c].trouble \subseteq witness[c].trouble \cup {at[c]}

\* A handler at work
Works(c) ==
  /\ CallInv /\ Awaiting(c) /\ Witnesses(c)
  /\ panel' = panel /\ req' = req

\* A call that awaits something was made.
LEMMA WorksFits ==
  ASSUME CallInv, NEW c \in Calls, Awaiting(c)
  PROVE  /\ pc[c] # "idle" /\ req[c] \in Request
         /\ AwaitsFit(c)
         /\ Handler(c).kind = "command" => CommandFits(c)
         /\ Handler(c).bulk => BulkFits(c)
         /\ ~Handler(c).bulk => at[c] = 1
         /\ HandlerFits(Handler(c))
<1>1. ~Untouched(c)
  BY DEF Untouched, Awaiting, Awaits
<1>2. QED
  BY <1>1, HandlerKnown DEF CallInv, CallFits

\* A request goes out: the handler has the permission if it needs one, and of
\* a command the policy, and the server running, before it asks for more.
LEMMA AwaitKeeps ==
  ASSUME NEW c \in Calls, Works(c), NEW next \in Awaits, Await(c, next),
         UNCHANGED <<at, answers>>,
         witness'[c].trouble = witness[c].trouble, wire[c] # "sent",
         next \in {"server", "fetch", "access"} => Handler(c).permission # None,
         next \in {"access", "power", "credentials", "session"} => Handler(c).kind # "request",
         next \in {"fetch", "log"} => Handler(c).kind \in {"console", "diagnose"},
         next = "resources" => Handler(c).kind \in {"command", "diagnose"},
         Handler(c).kind = "command" =>
           /\ next \in {"access", "resources", "power", "credentials", "session", "command"}
           /\ witness[c].granted /\ Evaluate(Policy(c), req[c].command)
           /\ next \in {"credentials", "session", "command"} => witness[c].ran
           /\ IF next \in {"resources", "command"} THEN ~req[c].wait ELSE req[c].wait
  PROVE  CallInv'
<1>1. CallType /\ CallInv /\ CallFits(c) /\ panel' = panel
  BY DEF Works, CallInv
<1>2. /\ pc' = [pc EXCEPT ![c] = next] /\ answer' = [answer EXCEPT ![c] = NoAnswer]
      /\ wire' = IF Handler(c).acts /\ next \in {"request", "command", "session"}
                   THEN [wire EXCEPT ![c] = "sent"] ELSE wire
      /\ req' = req /\ result' = result /\ at' = at /\ answers' = answers
  BY DEF Await, Works
<1>3. CallType'
  BY <1>1, <1>2 DEF CallType, Works, Witnesses, Answer
<1>4. \A d \in Calls \ {c} : Same(d)
  BY <1>1, <1>2 DEF Same, CallType, Works, Witnesses
<1>5. /\ pc'[c] = next /\ answer'[c] = NoAnswer /\ req'[c] = req[c]
      /\ wire'[c] = IF Handler(c).acts /\ next \in {"request", "command", "session"}
                      THEN "sent" ELSE wire[c]
      /\ result'[c] = result[c] /\ at'[c] = at[c] /\ answers'[c] = answers[c]
  BY <1>1, <1>2 DEF CallType
<1>6. /\ pc[c] # "idle" /\ req[c] \in Request /\ AwaitsFit(c)
      /\ Handler(c).kind = "command" => CommandFits(c)
      /\ Handler(c).bulk => BulkFits(c)
      /\ ~Handler(c).bulk => at[c] = 1
      /\ HandlerFits(Handler(c)) /\ Awaiting(c)
  BY <1>1, WorksFits DEF Works
<1>7. Handler(c)' = Handler(c) /\ Awaiting(c)' /\ ~Answered(c)' /\ Policy(c)' = Policy(c)
      /\ Expected(c)' = Expected(c) /\ Search(c)' = Search(c)
  BY <1>5 DEF Handler, Awaiting, Answered, NoAnswer, Policy, ServerOf, Expected, Search
<1>8. AwaitsFit(c)'
  BY <1>1, <1>5, <1>6, <1>7 DEF AwaitsFit, CallType
<1>9. Handler(c).kind = "command" => CommandFits(c)'
  <2>1. ASSUME Handler(c).kind = "command"
        PROVE  Noted(c, panel[req[c].servers[1]])'
    BY <1>6, <2>1, <1>5, <1>1 DEF CommandFits, Works, Witnesses, Noted
  <2>2. answer'[c].type # "state"
    BY <1>5 DEF NoAnswer
  <2>3. QED
    BY <1>1, <1>5, <1>6, <1>7, <2>1, <2>2 DEF CommandFits, Works, Witnesses
<1>10. Handler(c).bulk => BulkFits(c)'
  BY <1>5, <1>6, <1>7 DEF BulkFits, Works, Witnesses
<1>11. CallFits(c)'
  BY <1>5, <1>6, <1>7, <1>8, <1>9, <1>10 DEF CallFits, Awaits
<1>12. QED
  BY <1>1, <1>3, <1>4, <1>11, OneCall

\* A call that is not a bulk tool's ends.
LEMMA StopKeeps ==
  ASSUME NEW c \in Calls, Works(c), NEW how \in {"ok", "denied", "error"}, NEW records,
         Stop(c, how, records), ~Handler(c).bulk
  PROVE  CallInv'
<1>1. CallType /\ CallInv /\ CallFits(c) /\ panel' = panel
  BY DEF Works, CallInv
<1>2. /\ pc' = [pc EXCEPT ![c] = "done"] /\ answer' = [answer EXCEPT ![c] = NoAnswer]
      /\ result' = [result EXCEPT ![c] = how]
      /\ req' = req /\ wire' = wire /\ at' = at /\ answers' = answers
  BY DEF Stop, Return, Works
<1>3. CallType'
  BY <1>1, <1>2 DEF CallType, Works, Witnesses, Answer
<1>4. \A d \in Calls \ {c} : Same(d)
  BY <1>1, <1>2 DEF Same, CallType, Works, Witnesses
<1>5. /\ pc'[c] = "done" /\ answer'[c] = NoAnswer /\ req'[c] = req[c]
      /\ wire'[c] = wire[c] /\ at'[c] = at[c] /\ answers'[c] = answers[c]
  BY <1>1, <1>2 DEF CallType
<1>6. /\ req[c] \in Request /\ AwaitsFit(c) /\ at[c] = 1
      /\ Handler(c).kind = "command" => CommandFits(c)
  BY <1>1, WorksFits DEF Works
<1>7. Handler(c)' = Handler(c) /\ ~Awaiting(c)' /\ ~Answered(c)' /\ Policy(c)' = Policy(c)
  BY <1>5 DEF Handler, Awaiting, Awaits, Answered, NoAnswer, Policy, ServerOf
<1>8. AwaitsFit(c)'
  BY <1>5, <1>6, <1>7 DEF AwaitsFit
<1>9. Handler(c).kind = "command" => CommandFits(c)'
  BY <1>5, <1>6, <1>7 DEF CommandFits, Works, Witnesses, NoAnswer
<1>10. CallFits(c)'
  BY <1>5, <1>6, <1>7, <1>8, <1>9 DEF CallFits
<1>11. QED
  BY <1>1, <1>3, <1>4, <1>10, OneCall

\* What a tool awaits first
LEMMA FirstAwaitFits ==
  ASSUME NEW h, HandlerFits(h)
  PROVE  /\ FirstAwait(h) \in {"fetch", "request", "server"}
         /\ FirstAwait(h) \in {"server", "fetch"} => h.permission # None
         /\ FirstAwait(h) = "fetch" => h.kind = "console"
         /\ h.kind = "command" => FirstAwait(h) = "server"
<1>1. CASE h.kind = "console"
  BY <1>1 DEF FirstAwait, HandlerFits, None
<1>2. CASE h.kind # "console" /\ h.permission = None
  BY <1>2 DEF FirstAwait, HandlerFits, None
<1>3. CASE h.kind # "console" /\ h.permission # None
  BY <1>3 DEF FirstAwait, HandlerFits, None
<1>4. QED
  BY <1>1, <1>2, <1>3

\* A bulk tool notes an answer: a failure where it met trouble, and only there.
LEMMA PushKeeps ==
  ASSUME NEW c \in Calls, Works(c), NEW ok \in BOOLEAN, NEW records,
         Push(c, ok, records), Handler(c).bulk,
         ok => witness'[c].trouble = witness[c].trouble /\ Search(c) # "invalid",
         ~ok => \/ at[c] \in witness'[c].trouble \/ Search(c) = "invalid"
                \/ Handler(c).kind = "console" /\ ConsoleTransport = "file"
  PROVE  CallInv'
<1> DEFINE new == [server |-> ServerOf(c), ok |-> ok]
           more == at[c] < Expected(c)
<1>1. CallType /\ CallInv /\ CallFits(c) /\ panel' = panel
  BY DEF Works, CallInv
<1>2. /\ req[c] \in Request /\ AwaitsFit(c) /\ BulkFits(c) /\ Awaiting(c)
      /\ HandlerFits(Handler(c))
  BY <1>1, WorksFits DEF Works
<1>3. /\ at[c] = Len(answers[c]) + 1 /\ at[c] <= Expected(c) /\ at[c] \in Nat
      /\ Expected(c) \in Nat /\ answers[c] \in Seq([server: Servers, ok: BOOLEAN])
      /\ Len(answers[c]) \in Nat /\ DOMAIN answers[c] = 1..Len(answers[c])
  <2>1. Expected(c) \in Nat
    BY <1>2, ServersAsked DEF AwaitsFit, Expected
  <2>2. answers[c] \in Seq([server: Servers, ok: BOOLEAN]) /\ at[c] \in Nat
    BY <1>1 DEF CallType
  <2>3. QED
    BY <1>2, <2>1, <2>2 DEF BulkFits
<1>4. ServerOf(c) = req[c].servers[at[c]] /\ ServerOf(c) \in Servers
  <2>1. Len(req[c].servers) > 0
    BY <1>2 DEF AwaitsFit
  <2>2. at[c] \in 1..Len(ServersOf(req[c]))
    BY <1>3 DEF Expected
  <2>3. QED
    BY <1>2, <2>1, <2>2, ServersAsked DEF ServerOf
<1>5. new \in [server: Servers, ok: BOOLEAN]
  BY <1>4
<1>6. /\ answers' = [answers EXCEPT ![c] = Append(answers[c], new)]
      /\ answer' = [answer EXCEPT ![c] = NoAnswer]
      /\ wire' = wire /\ req' = req
      /\ more => /\ at' = [at EXCEPT ![c] = at[c] + 1]
                 /\ pc' = [pc EXCEPT ![c] = FirstAwait(Handler(c))]
                 /\ result' = result
      /\ ~more => /\ at' = at /\ pc' = [pc EXCEPT ![c] = "done"]
                  /\ result' = [result EXCEPT ![c] = "ok"]
  <2>1. ~Handler(c).acts
    BY <1>2 DEF HandlerFits
  <2>2. answers' = [answers EXCEPT ![c] = Append(answers[c], new)]
    BY DEF Push, AddAnswer
  <2>3. CASE more
    BY <2>1, <2>2, <2>3 DEF Push, Expected, Await, Works
  <2>4. CASE ~more
    BY <2>2, <2>4 DEF Push, Expected, Return, Works
  <2>5. QED
    BY <2>3, <2>4
<1>7. FirstAwait(Handler(c)) \in {"fetch", "request", "server"}
  BY <1>2, FirstAwaitFits
<1>8. Append(answers[c], new) \in Seq([server: Servers, ok: BOOLEAN])
  BY <1>3, <1>5
<1> HIDE DEF new, more
<1>9. CallType'
  <2>1. panel' \in [Servers -> PanelStates] /\ req' \in [Calls -> Request \cup {NoRequest}]
    BY <1>1, <1>6 DEF CallType
  <2>2. answer' \in [Calls -> Answer] /\ wire' \in [Calls -> {"none", "sent", "executed"}]
    BY <1>1, <1>6 DEF CallType, Answer
  <2>3. answers' \in [Calls -> Seq([server: Servers, ok: BOOLEAN])]
    BY <1>1, <1>6, <1>8 DEF CallType
  <2>4. /\ pc' \in [Calls -> Awaits \cup {"idle", "done"}]
        /\ at' \in [Calls -> Nat \ {0}]
        /\ result' \in [Calls -> {"none", "ok", "denied", "error", "rate_limited", "lost"}]
    <3>1. CASE more
      <4>1. at[c] + 1 \in Nat \ {0} /\ FirstAwait(Handler(c)) \in Awaits
        BY <1>3, <1>7 DEF Awaits
      <4>2. QED
        BY <1>1, <1>6, <3>1, <4>1 DEF CallType
    <3>2. CASE ~more
      BY <1>1, <1>6, <3>2 DEF CallType
    <3>3. QED
      BY <3>1, <3>2
  <2>5. QED
    BY <2>1, <2>2, <2>3, <2>4 DEF CallType, Works, Witnesses
<1>10. \A d \in Calls \ {c} : Same(d)
  BY <1>1, <1>6 DEF Same, CallType, Works, Witnesses
<1>11. /\ answers'[c] = Append(answers[c], new) /\ answer'[c] = NoAnswer
       /\ wire'[c] = wire[c] /\ req'[c] = req[c]
       /\ more => at'[c] = at[c] + 1 /\ pc'[c] = FirstAwait(Handler(c)) /\ result'[c] = result[c]
       /\ ~more => at'[c] = at[c] /\ pc'[c] = "done" /\ result'[c] = "ok"
  BY <1>1, <1>6 DEF CallType
<1>12. /\ Handler(c)' = Handler(c) /\ ~Answered(c)' /\ Expected(c)' = Expected(c)
       /\ pc'[c] # "idle" /\ (Awaiting(c)' => more) /\ Search(c)' = Search(c)
  BY <1>7, <1>11 DEF Handler, Answered, NoAnswer, Expected, Awaiting, Awaits, Search
<1>13. AwaitsFit(c)'
  <2>1. /\ FirstAwait(Handler(c)) \in {"server", "fetch"} => Handler(c).permission # None
        /\ FirstAwait(Handler(c)) = "fetch" => Handler(c).kind = "console"
    BY <1>2, FirstAwaitFits
  <2>2. wire'[c] = "none"
    BY <1>1, <1>2, <1>11 DEF AwaitsFit, HandlerFits, CallType
  <2>3. more \/ pc'[c] = "done"
    BY <1>11
  <2>4. Len(req'[c].servers) > 0
    BY <1>2, <1>11 DEF AwaitsFit
  <2>5. QED
    BY <1>7, <1>11, <1>12, <2>1, <2>2, <2>3, <2>4 DEF AwaitsFit
<1>14. BulkFits(c)'
  <2>1. /\ Len(answers'[c]) = at[c]
        /\ DOMAIN answers'[c] = 1..at[c]
        /\ \A i \in 1..Len(answers[c]) : answers'[c][i] = answers[c][i]
        /\ answers'[c][at[c]] = new
    BY <1>3, <1>5, <1>8, <1>11
  <2>2. /\ Awaiting(c)' => at'[c] = Len(answers'[c]) + 1 /\ at'[c] <= Expected(c)
        /\ Len(answers'[c]) <= Expected(c)
    BY <1>3, <1>11, <1>12, <2>1 DEF more
  <2>3. result'[c] = "ok" => Len(answers'[c]) = Expected(c)
    BY <1>2, <1>3, <1>11, <1>12, <2>1 DEF BulkFits, more
  <2>4. witness'[c].trouble \subseteq DOMAIN answers'[c]
    BY <1>2, <1>3, <2>1 DEF BulkFits, Works, Witnesses
  <2>5. ASSUME NEW i \in DOMAIN answers'[c]
        PROVE  /\ answers'[c][i].server = req[c].servers[i]
               /\ i \in witness'[c].trouble \/ Search(c) = "invalid" => ~answers'[c][i].ok
               /\ ~answers'[c][i].ok =>
                    \/ i \in witness'[c].trouble \/ Search(c) = "invalid"
                    \/ Handler(c).kind = "console" /\ ConsoleTransport = "file"
    <3>1. CASE i = at[c]
      <4>1. answers'[c][i].server = ServerOf(c) /\ answers'[c][i].ok = ok
        BY <2>1, <3>1 DEF new
      <4>2. ok => i \notin witness'[c].trouble
        BY <1>2, <1>3, <3>1 DEF BulkFits
      <4>3. QED
        BY <1>4, <3>1, <4>1, <4>2
    <3>2. CASE i # at[c]
      <4>1. i \in DOMAIN answers[c] /\ answers'[c][i] = answers[c][i]
        BY <1>3, <2>1, <3>2
      <4>2. i \in witness'[c].trouble <=> i \in witness[c].trouble
        BY <3>2 DEF Works, Witnesses
      <4>3. QED
        BY <1>2, <4>1, <4>2 DEF BulkFits, Works, Witnesses
    <3>3. QED
      BY <3>1, <3>2
  <2>6. QED
    BY <1>11, <1>12, <2>2, <2>3, <2>4, <2>5 DEF BulkFits
<1>15. CallFits(c)'
  <2>1. Handler(c).kind # "command"
    BY <1>2 DEF HandlerFits
  <2>2. QED
    BY <1>2, <1>11, <1>12, <1>13, <1>14, <2>1 DEF CallFits
<1>16. QED
  BY <1>1, <1>9, <1>10, <1>15, OneCall

\* A call ends well, or turns to its next server.
LEMMA FinishKeeps ==
  ASSUME NEW c \in Calls, Works(c), Finish(c),
         Handler(c).bulk => witness'[c].trouble = witness[c].trouble /\ Search(c) # "invalid"
  PROVE  CallInv'
<1>1. CASE Handler(c).bulk
  <2>1. Push(c, TRUE, <<>>)
    BY <1>1 DEF Finish
  <2>2. QED
    BY <1>1, <2>1, PushKeeps
<1>2. CASE ~Handler(c).bulk
  <2>1. Stop(c, "ok", Succeeded(c))
    BY <1>2 DEF Finish
  <2>2. QED
    BY <1>2, <2>1, StopKeeps
<1>3. QED
  BY <1>1, <1>2

\* A call fails, or notes that it has failed for one server.
LEMMA ThrowKeeps ==
  ASSUME NEW c \in Calls, Works(c), NEW records, Throw(c, records),
         Handler(c).bulk =>
           \/ at[c] \in witness'[c].trouble \/ Search(c) = "invalid"
           \/ Handler(c).kind = "console" /\ ConsoleTransport = "file"
  PROVE  CallInv'
<1>1. CASE Handler(c).bulk
  <2>1. Push(c, FALSE, records)
    BY <1>1 DEF Throw
  <2>2. QED
    BY <1>1, <2>1, PushKeeps
<1>2. CASE ~Handler(c).bulk /\ DiagnosesOutput(c)
  <2>1. Stop(c, "ok", records)
    BY <1>2 DEF Throw
  <2>2. QED
    BY <1>2, <2>1, StopKeeps
<1>3. CASE ~Handler(c).bulk /\ ~DiagnosesOutput(c)
  <2>1. Stop(c, "error", records \o Failed(c))
    BY <1>3 DEF Throw
  <2>2. QED
    BY <1>3, <2>1, StopKeeps
<1>4. QED
  BY <1>1, <1>2, <1>3

-----------------------------------------------------------------------------
(* The steps of a handler. *)

\* A handler that notes whether it met trouble is at work.
LEMMA NotesWorks ==
  ASSUME CallInv, NEW c \in Calls, Awaiting(c), NEW met \in BOOLEAN, NotesTrouble(c, met),
         panel' = panel, req' = req
  PROVE  /\ Works(c)
         /\ Handler(c).bulk /\ met => at[c] \in witness'[c].trouble
         /\ ~met => witness'[c].trouble = witness[c].trouble
<1> DEFINE trouble == IF Handler(c).bulk /\ met
                        THEN witness[c].trouble \cup {at[c]} ELSE witness[c].trouble
           W == [ran: BOOLEAN, granted: BOOLEAN, trouble: SUBSET Nat]
<1>1. witness' = [witness EXCEPT ![c].trouble = trouble]
  BY DEF NotesTrouble
<1>2. witness \in [Calls -> W] /\ at[c] \in Nat
  BY DEF CallInv, CallType
<1>3. /\ trouble \in SUBSET Nat /\ witness[c].trouble \subseteq trouble
      /\ trouble \subseteq witness[c].trouble \cup {at[c]}
  BY <1>2
<1>4. /\ Handler(c).bulk /\ met => at[c] \in trouble
      /\ ~met => trouble = witness[c].trouble
  OBVIOUS
<1> HIDE DEF trouble
<1>5. witness' \in [Calls -> W]
  BY <1>1, <1>2, <1>3
<1>6. /\ witness'[c].ran = witness[c].ran /\ witness'[c].granted = witness[c].granted
      /\ witness'[c].trouble = trouble
      /\ \A d \in Calls \ {c} : witness'[d] = witness[d]
  BY <1>1, <1>2
<1>7. QED
  BY <1>3, <1>4, <1>5, <1>6 DEF Works, Witnesses

\* A handler that has its answer is at work, and notes whether it is refused.
LEMMA ReceivesWorks ==
  ASSUME CallInv, NEW c \in Calls, NEW awaited \in SUBSET Awaits, Receives(c, awaited)
  PROVE  /\ Works(c) /\ pc[c] \in awaited /\ Answered(c)
         /\ Handler(c).bulk /\ Refuses(c) => at[c] \in witness'[c].trouble
         /\ ~Refuses(c) => witness'[c].trouble = witness[c].trouble
<1>1. /\ pc[c] \in awaited /\ Awaiting(c) /\ Answered(c)
      /\ NotesTrouble(c, Refuses(c)) /\ panel' = panel /\ req' = req
  BY DEF Receives, Awaiting, environment
<1>2. Refuses(c) \in BOOLEAN
  BY DEF Refuses
<1>3. QED
  BY <1>1, <1>2, NotesWorks

\* The answer to a request for the server's state is one.
LEMMA StateReceived ==
  ASSUME NEW c \in Calls, Works(c), Answered(c),
         pc[c] \in {"server", "fetch", "access", "resources", "power"}
  PROVE  /\ answer[c].type = "state" /\ wire[c] # "sent"
         /\ pc[c] \in {"server", "fetch", "access"} => Handler(c).permission # None
         /\ Handler(c).kind = "command" /\ ~Lacks(c) => witness[c].granted
         /\ Handler(c).kind = "command" /\ Running(c) => witness[c].ran
<1>1. /\ AwaitsFit(c) /\ HandlerFits(Handler(c))
      /\ Handler(c).kind = "command" => CommandFits(c)
  BY WorksFits DEF Works
<1>2. /\ answer[c].type = "state" /\ wire[c] # "sent"
      /\ pc[c] \in {"server", "fetch", "access"} => Handler(c).permission # None
  BY <1>1 DEF AwaitsFit, Works
<1>3. Handler(c).kind = "command" => Noted(c, answer[c].state)
  BY <1>1, <1>2 DEF CommandFits
<1>4. Handler(c).kind = "command" => Handler(c).permission = "control.console"
  BY <1>1 DEF HandlerFits
<1>5. QED
  BY <1>2, <1>3, <1>4 DEF Noted, Lacks, Running

\* requireServerWithPermission has its answer.
LEMMA OnServerKeeps ==
  ASSUME CallInv, NEW c \in Calls, OnServer(c)
  PROVE  CallInv'
<1>1. /\ Works(c) /\ pc[c] = "server" /\ Answered(c)
      /\ Handler(c).bulk /\ Refuses(c) => at[c] \in witness'[c].trouble
      /\ ~Refuses(c) => witness'[c].trouble = witness[c].trouble
  BY ReceivesWorks DEF OnServer, Awaits
<1>2. /\ answer[c].type = "state" /\ wire[c] # "sent" /\ Handler(c).permission # None
      /\ Handler(c).kind = "command" /\ ~Lacks(c) => witness[c].granted
  BY <1>1, StateReceived
<1>3. HandlerFits(Handler(c)) /\ (Refuses(c) <=> Lacks(c))
  BY <1>1, <1>2, WorksFits DEF Works, Refuses
<1>4. CASE Lacks(c) /\ Throw(c, <<Refusal>>)
  BY <1>1, <1>3, <1>4, ThrowKeeps
<1>5. CASE ~Lacks(c) /\ Handler(c).kind = "request" /\ GoOn(c, "request")
  BY <1>1, <1>2, <1>3, <1>5, AwaitKeeps DEF Awaits, GoOn
<1>6. CASE /\ ~Lacks(c) /\ Handler(c).kind = "command"
           /\ Evaluate(Policy(c), req[c].command)
           /\ GoOn(c, IF req[c].wait THEN "access" ELSE "resources")
  <2>1. CASE req[c].wait
    BY <1>1, <1>2, <1>3, <1>6, <2>1, AwaitKeeps DEF Awaits, GoOn
  <2>2. CASE ~req[c].wait
    BY <1>1, <1>2, <1>3, <1>6, <2>2, AwaitKeeps DEF Awaits, GoOn
  <2>3. QED
    BY <2>1, <2>2
<1>7. CASE Handler(c).kind = "command" /\ Stop(c, "denied", <<Outcome("denied")>>)
  BY <1>1, <1>3, <1>7, StopKeeps DEF HandlerFits
<1>8. CASE /\ ~Lacks(c) /\ Handler(c).kind = "diagnose"
           /\ GoOn(c, IF answer[c].state.status = "suspended" THEN "request" ELSE "resources")
  <2>1. CASE answer[c].state.status = "suspended"
    BY <1>1, <1>2, <1>3, <1>8, <2>1, AwaitKeeps DEF Awaits, GoOn
  <2>2. CASE answer[c].state.status # "suspended"
    BY <1>1, <1>2, <1>3, <1>8, <2>2, AwaitKeeps DEF Awaits, GoOn
  <2>3. QED
    BY <2>1, <2>2
<1>9. QED
  BY <1>4, <1>5, <1>6, <1>7, <1>8 DEF OnServer

\* The console cannot be had.
LEMMA UnusableKeeps ==
  ASSUME NEW c \in Calls, Works(c), Answered(c), pc[c] \in {"fetch", "access"}, Unusable(c),
         Handler(c).bulk /\ Refuses(c) => at[c] \in witness'[c].trouble
  PROVE  CallInv'
<1>1. answer[c].type = "state"
  BY StateReceived
<1>2. CASE Lacks(c) /\ Throw(c, <<Refusal>>)
  BY <1>1, <1>2, ThrowKeeps DEF Refuses
<1>3. CASE answer[c].state.status # "normal" /\ Throw(c, <<>>)
  BY <1>1, <1>3, ThrowKeeps DEF Refuses
<1>4. QED
  BY <1>2, <1>3 DEF Unusable

\* fetchConsoleOutput chooses where to read.
LEMMA OnFetchKeeps ==
  ASSUME CallInv, NEW c \in Calls, OnFetch(c)
  PROVE  CallInv'
<1>1. /\ Works(c) /\ pc[c] = "fetch" /\ Answered(c)
      /\ Handler(c).bulk /\ Refuses(c) => at[c] \in witness'[c].trouble
      /\ Usable(c) => witness'[c].trouble = witness[c].trouble
  BY ReceivesWorks DEF OnFetch, Awaits, Refuses, Usable
<1>2. wire[c] # "sent" /\ Handler(c).permission # None
  BY <1>1, StateReceived
<1>3. Handler(c).kind \in {"console", "diagnose"} /\ HandlerFits(Handler(c))
  BY <1>1, WorksFits DEF Works, AwaitsFit
<1>4. CASE Unusable(c)
  BY <1>1, <1>4, UnusableKeeps
<1>5. CASE Usable(c) /\ GoOn(c, "log")
  BY <1>1, <1>2, <1>3, <1>5, AwaitKeeps DEF Awaits, GoOn
<1>6. CASE ConsoleTransport = "file" /\ Throw(c, <<>>)
  <2>1. Handler(c).bulk => Handler(c).kind = "console"
    BY <1>3 DEF HandlerFits
  <2>2. QED
    BY <1>1, <1>6, <2>1, ThrowKeeps
<1>7. CASE Usable(c) /\ GoOn(c, "access")
  BY <1>1, <1>2, <1>3, <1>7, AwaitKeeps DEF Awaits, GoOn
<1>8. QED
  BY <1>4, <1>5, <1>6, <1>7 DEF OnFetch

\* A log file gave nothing.
LEMMA NextPathKeeps ==
  ASSUME NEW c \in Calls, Works(c), pc[c] = "log", NextPath(c),
         witness'[c].trouble = witness[c].trouble
  PROVE  CallInv'
<1>1. /\ Handler(c).kind \in {"console", "diagnose"} /\ HandlerFits(Handler(c))
      /\ wire[c] # "sent"
  BY WorksFits DEF Works, AwaitsFit
<1>2. Handler(c).permission # None
  BY <1>1 DEF HandlerFits, None
<1>3. CASE /\ Await(c, "log") /\ UNCHANGED <<trail, at, answers>>
  BY <1>1, <1>3, AwaitKeeps DEF Awaits, GoOn
<1>4. CASE ConsoleTransport = "file" /\ Throw(c, <<>>)
  <2>1. Handler(c).bulk => Handler(c).kind = "console"
    BY <1>1 DEF HandlerFits
  <2>2. QED
    BY <1>4, <2>1, ThrowKeeps
<1>5. CASE GoOn(c, "access")
  BY <1>1, <1>2, <1>5, AwaitKeeps DEF Awaits, GoOn
<1>6. QED
  BY <1>3, <1>4, <1>5 DEF NextPath

\* A log file was read.
LEMMA OnLogKeeps ==
  ASSUME CallInv, NEW c \in Calls, OnLog(c)
  PROVE  CallInv'
<1>1. /\ Works(c) /\ pc[c] = "log"
      /\ witness'[c].trouble = witness[c].trouble
  BY ReceivesWorks DEF OnLog, Awaits, Refuses
<1>2. \/ NextPath(c)
      \/ Search(c) = "invalid" /\ Throw(c, <<>>)
      \/ Search(c) # "invalid" /\ Finish(c)
  BY DEF OnLog
<1>3. QED
  BY <1>1, <1>2, NextPathKeeps, ThrowKeeps, FinishKeeps

\* prepareConsoleAccess has the server's details.
LEMMA OnAccessKeeps ==
  ASSUME CallInv, NEW c \in Calls, OnAccess(c)
  PROVE  CallInv'
<1>1. /\ Works(c) /\ pc[c] = "access" /\ Answered(c)
      /\ Handler(c).bulk /\ Refuses(c) => at[c] \in witness'[c].trouble
      /\ Usable(c) => witness'[c].trouble = witness[c].trouble
  BY ReceivesWorks DEF OnAccess, Awaits, Refuses, Usable
<1>2. wire[c] # "sent"
  BY <1>1, StateReceived
<1>3. /\ Handler(c).kind # "request"
      /\ Handler(c).kind = "command" =>
           witness[c].granted /\ Evaluate(Policy(c), req[c].command) /\ req[c].wait
  BY <1>1, WorksFits DEF Works, AwaitsFit, CommandFits
<1>4. CASE Unusable(c)
  BY <1>1, <1>4, UnusableKeeps
<1>5. CASE Usable(c) /\ GoOn(c, "power")
  BY <1>1, <1>2, <1>3, <1>5, AwaitKeeps DEF Awaits, GoOn
<1>6. QED
  BY <1>4, <1>5 DEF OnAccess

\* prepareConsoleAccess knows the power state.
LEMMA OnPowerKeeps ==
  ASSUME CallInv, NEW c \in Calls, OnPower(c)
  PROVE  CallInv'
<1>1. /\ Works(c) /\ pc[c] = "power" /\ Answered(c)
      /\ Handler(c).bulk /\ Refuses(c) => at[c] \in witness'[c].trouble
      /\ Running(c) => witness'[c].trouble = witness[c].trouble
  BY ReceivesWorks DEF OnPower, Awaits, Refuses
<1>2. /\ wire[c] # "sent" /\ answer[c].type = "state"
      /\ Handler(c).kind = "command" /\ Running(c) => witness[c].ran
  BY <1>1, StateReceived
<1>3. /\ Handler(c).kind # "request"
      /\ Handler(c).kind = "command" =>
           witness[c].granted /\ Evaluate(Policy(c), req[c].command) /\ req[c].wait
  BY <1>1, WorksFits DEF Works, AwaitsFit, CommandFits
<1>4. CASE Running(c) /\ GoOn(c, "credentials")
  BY <1>1, <1>2, <1>3, <1>4, AwaitKeeps DEF Awaits, GoOn
<1>5. CASE ~Running(c) /\ Throw(c, <<>>)
  BY <1>1, <1>2, <1>5, ThrowKeeps DEF Refuses
<1>6. QED
  BY <1>4, <1>5 DEF OnPower

\* prepareConsoleAccess has the address of the console.
LEMMA OnCredentialsKeeps ==
  ASSUME CallInv, NEW c \in Calls, OnCredentials(c)
  PROVE  CallInv'
<1>1. /\ Works(c) /\ witness'[c].trouble = witness[c].trouble
      /\ pc[c] = "credentials" /\ GoOn(c, "session")
  BY ReceivesWorks DEF OnCredentials, Awaits, Refuses
<1>2. /\ wire[c] # "sent" /\ Handler(c).kind # "request"
      /\ Handler(c).kind = "command" =>
           /\ witness[c].ran /\ witness[c].granted
           /\ Evaluate(Policy(c), req[c].command) /\ req[c].wait
  BY <1>1, WorksFits DEF Works, AwaitsFit, CommandFits
<1>3. QED
  BY <1>1, <1>2, AwaitKeeps DEF Awaits, GoOn

\* send_console_command or diagnose_server knows the power state.
LEMMA OnResourcesKeeps ==
  ASSUME CallInv, NEW c \in Calls, OnResources(c)
  PROVE  CallInv'
<1>1. /\ Works(c) /\ witness'[c].trouble = witness[c].trouble
      /\ pc[c] = "resources" /\ Answered(c)
  BY ReceivesWorks DEF OnResources, Awaits, Refuses
<1>2. /\ wire[c] # "sent"
      /\ Handler(c).kind = "command" /\ Running(c) => witness[c].ran
  BY <1>1, StateReceived
<1>3. /\ HandlerFits(Handler(c)) /\ Handler(c).kind \in {"command", "diagnose"}
      /\ Handler(c).kind = "command" =>
           witness[c].granted /\ Evaluate(Policy(c), req[c].command) /\ ~req[c].wait
  BY <1>1, WorksFits DEF Works, AwaitsFit, CommandFits
<1>4. CASE Running(c) /\ Handler(c).kind = "command" /\ GoOn(c, "command")
  BY <1>1, <1>2, <1>3, <1>4, AwaitKeeps DEF Awaits, GoOn
<1>5. CASE Handler(c).kind = "diagnose" /\ GoOn(c, "fetch")
  <2>1. Handler(c).permission # None
    BY <1>3, <1>5 DEF HandlerFits, None
  <2>2. QED
    BY <1>1, <1>2, <1>5, <2>1, AwaitKeeps DEF Awaits, GoOn
<1>6. CASE Handler(c).kind = "command" /\ Stop(c, "denied", <<Outcome("denied")>>)
  BY <1>1, <1>3, <1>6, StopKeeps DEF HandlerFits
<1>7. CASE Finish(c)
  BY <1>1, <1>3, <1>7, FinishKeeps DEF HandlerFits
<1>8. QED
  BY <1>3, <1>4, <1>5, <1>6, <1>7 DEF OnResources

\* The last request is answered.
LEMMA OnLastKeeps ==
  ASSUME CallInv, NEW c \in Calls, OnLast(c)
  PROVE  CallInv'
<1>1. /\ Works(c) /\ witness'[c].trouble = witness[c].trouble
  BY ReceivesWorks DEF OnLast, Awaits, Refuses
<1>2. CASE Search(c) = "invalid"
  BY <1>1, <1>2, ThrowKeeps DEF OnLast
<1>3. CASE Search(c) # "invalid"
  BY <1>1, <1>3, FinishKeeps DEF OnLast
<1>4. QED
  BY <1>2, <1>3

\* A request fails: a bulk tool notes it, unless it was for a log file.
LEMMA RequestFailsKeeps ==
  ASSUME CallInv, NEW c \in Calls, RequestFails(c)
  PROVE  CallInv'
<1>1. /\ Works(c)
      /\ Handler(c).bulk /\ pc[c] # "log" => at[c] \in witness'[c].trouble
      /\ pc[c] = "log" => witness'[c].trouble = witness[c].trouble
  BY NotesWorks DEF RequestFails, environment
<1>2. CASE pc[c] = "log" /\ NextPath(c)
  BY <1>1, <1>2, NextPathKeeps
<1>3. CASE pc[c] # "log" /\ Throw(c, <<>>)
  BY <1>1, <1>3, ThrowKeeps
<1>4. QED
  BY <1>2, <1>3 DEF RequestFails

-----------------------------------------------------------------------------
(* The other steps. *)

\* What a call may ask for is a request with a server.
LEMMA RequestsAreMade ==
  ASSUME NEW c \in Calls, NEW r \in RequestsOf(c)
  PROVE  r \in Request /\ Len(r.servers) > 0 /\ r.servers[1] \in Servers
<1>1. PICK batch \in Batches : r = batch[c] /\ r # NoRequest
  BY DEF RequestsOf
<1>2. r \in Request /\ Len(r.servers) > 0
  BY <1>1, ServerToolsAssumption
<1>3. r.servers \in Seq(Servers)
  BY <1>2 DEF Request
<1>4. QED
  BY <1>2, <1>3

\* A call begins, and is refused or awaits its first answer.
LEMMA BeginKeeps ==
  ASSUME CallInv, NEW c \in Calls, NEW r \in RequestsOf(c), Begin(c, r)
  PROVE  CallInv'
<1> DEFINE h == HandlerOf[r.tool]
           state == panel[r.servers[1]]
           W == [ran: BOOLEAN, granted: BOOLEAN, trouble: SUBSET Nat]
<1>1. CallType /\ CallFits(c)
  BY DEF CallInv
<1>2. Untouched(c)
  BY <1>1 DEF CallFits, Begin, Untouched
<1>3. r \in Request /\ Len(r.servers) > 0 /\ r.servers[1] \in Servers
  BY RequestsAreMade
<1>4. HandlerFits(h) /\ r.tool \in ToolNames
  BY <1>3, HandlersFit DEF Request
<1>5. /\ req' = [req EXCEPT ![c] = r] /\ witness' = [witness EXCEPT ![c] = Witnessed(c, r, panel)]
      /\ panel' = panel /\ at' = at /\ answers' = answers /\ wire' = wire
      /\ \/ /\ pc' = [pc EXCEPT ![c] = FirstAwait(h)] /\ answer' = answer /\ result' = result
         \/ /\ pc' = [pc EXCEPT ![c] = "done"]
            /\ answer' = [answer EXCEPT ![c] = NoAnswer]
            /\ \E how \in {"rate_limited", "error", "denied"} :
                 result' = [result EXCEPT ![c] = how]
  <2>1. /\ req' = [req EXCEPT ![c] = r] /\ witness' = [witness EXCEPT ![c] = Witnessed(c, r, panel)]
        /\ panel' = panel /\ at' = at /\ answers' = answers
    BY DEF Begin, environment
  <2>2. CASE Return(c, "rate_limited", <<RateLimitHit>>)
    BY <2>1, <2>2 DEF Return
  <2>3. CASE Return(c, "error", <<>>)
    BY <2>1, <2>3 DEF Return
  <2>4. CASE Return(c, "denied", <<Outcome("denied")>>)
    BY <2>1, <2>4 DEF Return
  <2>5. CASE /\ pc' = [pc EXCEPT ![c] = FirstAwait(h)]
             /\ UNCHANGED <<trail, answer, result, wire>>
    BY <2>1, <2>5
  <2>6. QED
    BY <2>2, <2>3, <2>4, <2>5 DEF Begin
<1>6. FirstAwait(h) \in {"fetch", "request", "server"}
  BY <1>4, FirstAwaitFits
<1>7. /\ Witnessed(c, r, panel) \in W
      /\ Witnessed(c, r, panel).trouble = {}
      /\ h.kind = "command" =>
           /\ state.power = "running" => Witnessed(c, r, panel).ran
           /\ "control.console" \in state.granted => Witnessed(c, r, panel).granted
  <2>1. witness[c] \in W /\ witness[c].trouble = {}
    BY <1>1, <1>2 DEF CallType, Untouched
  <2>2. QED
    BY <2>1 DEF Witnessed
<1> HIDE DEF h, state
<1>8. CallType'
  <2>1. req' \in [Calls -> Request \cup {NoRequest}] /\ witness' \in [Calls -> W]
    BY <1>1, <1>3, <1>5, <1>7 DEF CallType
  <2>2. /\ pc' \in [Calls -> Awaits \cup {"idle", "done"}]
        /\ answer' \in [Calls -> Answer]
        /\ result' \in [Calls -> {"none", "ok", "denied", "error", "rate_limited", "lost"}]
    <3>1. FirstAwait(h) \in Awaits
      BY <1>6 DEF Awaits
    <3>2. CASE pc' = [pc EXCEPT ![c] = FirstAwait(h)] /\ answer' = answer /\ result' = result
      BY <1>1, <3>1, <3>2 DEF CallType
    <3>3. CASE /\ pc' = [pc EXCEPT ![c] = "done"]
               /\ answer' = [answer EXCEPT ![c] = NoAnswer]
               /\ \E how \in {"rate_limited", "error", "denied"} :
                    result' = [result EXCEPT ![c] = how]
      BY <1>1, <3>3 DEF CallType, Answer
    <3>4. QED
      BY <1>5, <3>2, <3>3
  <2>3. QED
    BY <1>1, <1>5, <2>1, <2>2 DEF CallType
<1>9. \A d \in Calls \ {c} : Same(d)
  BY <1>1, <1>5 DEF Same, CallType
<1>10. /\ req'[c] = r /\ at'[c] = 1 /\ answer'[c] = NoAnswer /\ answers'[c] = <<>>
       /\ wire'[c] = "none" /\ result'[c] # "ok"
       /\ pc'[c] \in {FirstAwait(h), "done"}
       /\ witness'[c] = Witnessed(c, r, panel)
  BY <1>1, <1>2, <1>5 DEF CallType, Untouched
<1>11. /\ Handler(c)' = h /\ ~Answered(c)' /\ pc'[c] # "idle" /\ req'[c] \in Request
       /\ (Awaiting(c)' => pc'[c] = FirstAwait(h))
  BY <1>3, <1>6, <1>10 DEF Handler, h, Answered, NoAnswer, Awaiting, Awaits
<1>12. AwaitsFit(c)'
  <2>1. /\ FirstAwait(h) \in {"server", "fetch"} => h.permission # None
        /\ FirstAwait(h) = "fetch" => h.kind = "console"
    BY <1>4, FirstAwaitFits
  <2>2. QED
    BY <1>3, <1>6, <1>10, <1>11, <2>1 DEF AwaitsFit
<1>13. h.kind = "command" => CommandFits(c)'
  <2>1. h.kind = "command" => FirstAwait(h) = "server"
    BY <1>4, FirstAwaitFits
  <2>2. h.kind = "command" => Noted(c, panel[req[c].servers[1]])'
    BY <1>5, <1>7, <1>10 DEF Noted, state
  <2>3. answer'[c].type # "state"
    BY <1>10 DEF NoAnswer
  <2>4. QED
    BY <1>10, <1>11, <2>1, <2>2, <2>3 DEF CommandFits
<1>14. h.bulk => BulkFits(c)'
  <2>1. Expected(c)' \in Nat \ {0}
    <3>1. Expected(c)' = Len(ServersOf(r))
      BY <1>10 DEF Expected
    <3>2. Len(ServersOf(r)) \in Nat \ {0}
      BY <1>3, ServersAsked
    <3>3. QED
      BY <3>1, <3>2
  <2>2. Len(answers'[c]) = 0 /\ DOMAIN answers'[c] = {}
    BY <1>10
  <2>3. QED
    BY <1>7, <1>10, <2>1, <2>2 DEF BulkFits
<1>15. CallFits(c)'
  BY <1>10, <1>11, <1>12, <1>13, <1>14 DEF CallFits
<1>16. QED
  BY <1>5, <1>8, <1>9, <1>15, OneCall

\* The panel answers from the state the server is in.
LEMMA PanelAnswersKeeps ==
  ASSUME CallInv, NEW c \in Calls, PanelAnswers(c)
  PROVE  CallInv'
<1>1. CallType
  BY DEF CallInv
<1>2. /\ Awaiting(c) /\ panel' = panel /\ pc' = pc /\ req' = req /\ at' = at /\ answers' = answers
      /\ wire' = wire /\ result' = result /\ witness' = witness
  BY DEF PanelAnswers, environment
<1>3. /\ pc[c] # "idle" /\ req[c] \in Request /\ AwaitsFit(c)
      /\ Handler(c).kind = "command" => CommandFits(c)
      /\ Handler(c).bulk => BulkFits(c)
      /\ ~Handler(c).bulk => at[c] = 1
      /\ HandlerFits(Handler(c))
  BY <1>2, WorksFits
<1>4. ServerOf(c) \in Servers /\ (Handler(c).kind = "command" => ServerOf(c) = req[c].servers[1])
  <2>1. Len(req[c].servers) > 0
    BY <1>3 DEF AwaitsFit
  <2>2. at[c] \in 1..Len(ServersOf(req[c]))
    <3>1. at[c] \in Nat \ {0}
      BY <1>1 DEF CallType
    <3>2. Len(ServersOf(req[c])) \in Nat \ {0}
      BY <1>3, <2>1, ServersAsked
    <3>3. at[c] <= Len(ServersOf(req[c]))
      BY <1>2, <1>3, <3>1, <3>2 DEF BulkFits, Expected
    <3>4. QED
      BY <3>1, <3>2, <3>3
  <2>3. Handler(c).kind = "command" => at[c] = 1
    BY <1>3 DEF HandlerFits
  <2>4. QED
    BY <1>3, <2>1, <2>2, <2>3, ServersAsked DEF ServerOf
<1>5. PICK a \in Answer :
        /\ answer' = [answer EXCEPT ![c] = a]
        /\ pc[c] \in {"server", "fetch", "access", "resources", "power"} =>
             a = StateAnswer(ServerOf(c))
        /\ pc[c] \notin {"server", "fetch", "access", "resources", "power"} => a.type # "state"
  <2>1. CASE pc[c] \in {"server", "fetch", "access", "resources", "power"}
    <3>1. StateAnswer(ServerOf(c)) \in Answer
      BY <1>1, <1>4 DEF StateAnswer, Answer, CallType
    <3>2. QED
      BY <2>1, <3>1 DEF PanelAnswers
  <2>2. CASE pc[c] = "log"
    <3>1. \A file \in LogFiles : FileAnswer(file) \in Answer /\ FileAnswer(file).type # "state"
      BY DEF FileAnswer, Answer
    <3>2. QED
      BY <2>2, <3>1 DEF PanelAnswers
  <2>3. CASE pc[c] \notin {"server", "fetch", "access", "resources", "power", "log"}
    <3>1. Accepted \in Answer /\ Accepted.type # "state"
      BY DEF Accepted, Answer
    <3>2. QED
      BY <2>3, <3>1 DEF PanelAnswers
  <2>4. QED
    BY <2>1, <2>2, <2>3
<1>6. CallType'
  BY <1>1, <1>2, <1>5 DEF CallType
<1>7. \A d \in Calls \ {c} : Same(d)
  BY <1>1, <1>2, <1>5 DEF Same, CallType
<1>8. answer'[c] = a
  BY <1>1, <1>5 DEF CallType
<1>9. StateAnswer(ServerOf(c)).type = "state" /\ StateAnswer(ServerOf(c)).state = panel[ServerOf(c)]
  BY DEF StateAnswer
<1>10. /\ Handler(c)' = Handler(c) /\ Awaiting(c)' = Awaiting(c) /\ Policy(c)' = Policy(c)
       /\ Expected(c)' = Expected(c) /\ Search(c)' = Search(c)
  BY <1>2 DEF Handler, Awaiting, Policy, ServerOf, Expected, Search
<1>11. AwaitsFit(c)'
  BY <1>2, <1>3, <1>5, <1>8, <1>9, <1>10 DEF AwaitsFit
<1>12. Handler(c).kind = "command" => CommandFits(c)'
  <2>1. Handler(c).kind = "command" /\ a.type = "state" => Noted(c, a.state)
    BY <1>2, <1>3, <1>4, <1>5, <1>9 DEF CommandFits
  <2>2. QED
    BY <1>2, <1>3, <1>8, <1>10, <2>1 DEF CommandFits, Noted
<1>13. Handler(c).bulk => BulkFits(c)'
  BY <1>2, <1>3, <1>10 DEF BulkFits
<1>14. CallFits(c)'
  BY <1>2, <1>3, <1>10, <1>11, <1>12, <1>13 DEF CallFits
<1>15. QED
  BY <1>2, <1>6, <1>7, <1>14, OneCall

\* The panel carries out what was sent.
LEMMA PanelExecutesKeeps ==
  ASSUME CallInv, NEW c \in Calls, PanelExecutes(c)
  PROVE  CallInv'
<1>1. CallType /\ CallFits(c)
  BY DEF CallInv
<1>2. /\ wire[c] = "sent" /\ wire' = [wire EXCEPT ![c] = "executed"]
      /\ answer' = [answer EXCEPT ![c] =
                      IF Awaiting(c) /\ pc[c] # "session" THEN Accepted ELSE answer[c]]
      /\ panel' = panel /\ pc' = pc /\ req' = req /\ at' = at /\ answers' = answers
      /\ result' = result /\ witness' = witness
  BY DEF PanelExecutes, environment
<1>3. CallType'
  <2>1. answer' \in [Calls -> Answer]
    BY <1>1, <1>2 DEF CallType, Answer
  <2>2. wire' \in [Calls -> {"none", "sent", "executed"}]
    BY <1>1, <1>2 DEF CallType
  <2>3. QED
    BY <1>1, <1>2, <2>1, <2>2 DEF CallType
<1>4. \A d \in Calls \ {c} : Same(d)
  BY <1>1, <1>2 DEF Same, CallType
<1>5. /\ wire'[c] = "executed"
      /\ answer'[c] = IF Awaiting(c) /\ pc[c] # "session" THEN Accepted ELSE answer[c]
  BY <1>1, <1>2 DEF CallType
<1>6. ~Untouched(c)
  BY <1>2 DEF Untouched
<1>7. /\ Handler(c)' = Handler(c) /\ Awaiting(c)' = Awaiting(c) /\ Policy(c)' = Policy(c)
      /\ Expected(c)' = Expected(c) /\ (~Awaiting(c) => Answered(c)' = Answered(c))
      /\ Search(c)' = Search(c)
  BY <1>2, <1>5 DEF Handler, Awaiting, Policy, ServerOf, Expected, Answered, Search
<1>8. AwaitsFit(c)'
  <2>1. Awaiting(c) => pc[c] \notin {"server", "fetch", "access", "resources", "power"}
    BY <1>1, <1>2, <1>6 DEF CallFits, AwaitsFit
  <2>2. ~Awaiting(c) => pc[c] \notin {"server", "fetch", "access", "resources", "power"}
    BY DEF Awaiting, Awaits
  <2>3. QED
    BY <1>1, <1>2, <1>5, <1>6, <1>7, <2>1, <2>2 DEF CallFits, AwaitsFit
<1>9. Handler(c).kind = "command" => CommandFits(c)'
  BY <1>1, <1>2, <1>5, <1>6, <1>7 DEF CallFits, CommandFits, Noted, Accepted
<1>10. Handler(c).bulk => BulkFits(c)'
  BY <1>1, <1>2, <1>6, <1>7 DEF CallFits, BulkFits
<1>11. CallFits(c)'
  BY <1>1, <1>2, <1>6, <1>7, <1>8, <1>9, <1>10 DEF CallFits
<1>12. QED
  BY <1>2, <1>3, <1>4, <1>11, OneCall

\* The panel is changed: the history of every command that is not over notes it.
LEMMA PanelChangesKeeps ==
  ASSUME CallInv, NEW s \in Servers, NEW state \in PanelStates, PanelChanges(s, state)
  PROVE  CallInv'
<1> DEFINE W == [ran: BOOLEAN, granted: BOOLEAN, trouble: SUBSET Nat]
<1>1. CallType
  BY DEF CallInv
<1>2. /\ panel' = [panel EXCEPT ![s] = state]
      /\ witness' = [d \in Calls |->
                       IF Awaiting(d) THEN Witnessed(d, req[d], panel') ELSE witness[d]]
      /\ pc' = pc /\ req' = req /\ at' = at /\ answer' = answer /\ answers' = answers
      /\ wire' = wire /\ result' = result
  BY DEF PanelChanges
<1>3. panel' \in [Servers -> PanelStates]
  BY <1>1, <1>2 DEF CallType
<1>4. ASSUME NEW d \in Calls
      PROVE  /\ witness'[d] \in W
             /\ witness'[d].trouble = witness[d].trouble
             /\ witness[d].ran => witness'[d].ran
             /\ witness[d].granted => witness'[d].granted
             /\ ~Awaiting(d) => witness'[d] = witness[d]
             /\ Awaiting(d) /\ Handler(d).kind = "command" =>
                  Noted(d, panel[req[d].servers[1]])'
  <2>1. witness[d] \in W
    BY <1>1 DEF CallType
  <2>2. CASE ~Awaiting(d)
    BY <1>2, <2>1, <2>2
  <2>3. CASE Awaiting(d) /\ Handler(d).kind # "command"
    BY <1>2, <2>1, <2>3 DEF Witnessed, Handler
  <2>4. CASE Awaiting(d) /\ Handler(d).kind = "command"
    BY <1>2, <2>1, <2>4 DEF Witnessed, Handler, Noted
  <2>5. QED
    BY <2>2, <2>3, <2>4
<1>5. witness' \in [Calls -> W]
  BY <1>2, <1>4
<1>6. CallType'
  BY <1>1, <1>2, <1>3, <1>5 DEF CallType
<1>7. ASSUME NEW d \in Calls
      PROVE  CallFits(d)'
  <2>1. CallFits(d)
    BY DEF CallInv
  <2>2. /\ Handler(d)' = Handler(d) /\ Awaiting(d)' = Awaiting(d) /\ Policy(d)' = Policy(d)
        /\ Expected(d)' = Expected(d) /\ Answered(d)' = Answered(d) /\ Search(d)' = Search(d)
    BY <1>2 DEF Handler, Awaiting, Policy, ServerOf, Expected, Answered, Search
  <2>3. CASE Untouched(d)
    BY <1>2, <1>4, <2>3 DEF CallFits, Untouched
  <2>4. CASE ~Untouched(d)
    <3>1. AwaitsFit(d)'
      BY <1>2, <2>1, <2>2, <2>4 DEF CallFits, AwaitsFit
    <3>2. Handler(d).kind = "command" => CommandFits(d)'
      <4>1. ASSUME NEW t, Noted(d, t)
            PROVE  Noted(d, t)'
        BY <1>4, <4>1 DEF Noted
      <4>2. QED
        BY <1>2, <1>4, <2>1, <2>2, <2>4, <4>1 DEF CallFits, CommandFits
    <3>3. Handler(d).bulk => BulkFits(d)'
      BY <1>2, <1>4, <2>1, <2>2, <2>4 DEF CallFits, BulkFits
    <3>4. QED
      BY <1>2, <2>1, <2>2, <2>4, <3>1, <3>2, <3>3 DEF CallFits
  <2>5. QED
    BY <2>3, <2>4
<1>8. QED
  BY <1>6, <1>7 DEF CallInv

\* The process starts again: what was under way is over.
LEMMA RestartKeeps ==
  ASSUME CallInv, Restart
  PROVE  CallInv'
<1>1. CallType
  BY DEF CallInv
<1>2. /\ pc' = [d \in Calls |-> IF Awaiting(d) THEN "done" ELSE pc[d]]
      /\ result' = [d \in Calls |-> IF Awaiting(d) THEN "lost" ELSE result[d]]
      /\ answer' = [d \in Calls |-> NoAnswer]
      /\ panel' = panel /\ req' = req /\ at' = at /\ answers' = answers
      /\ wire' = wire /\ witness' = witness
  BY DEF Restart
<1>3. CallType'
  <2>1. pc' \in [Calls -> Awaits \cup {"idle", "done"}]
    BY <1>1, <1>2 DEF CallType
  <2>2. result' \in [Calls -> {"none", "ok", "denied", "error", "rate_limited", "lost"}]
    BY <1>1, <1>2 DEF CallType
  <2>3. answer' \in [Calls -> Answer]
    BY <1>2 DEF Answer
  <2>4. QED
    BY <1>1, <1>2, <2>1, <2>2, <2>3 DEF CallType
<1>4. ASSUME NEW d \in Calls
      PROVE  CallFits(d)'
  <2>1. CallFits(d)
    BY DEF CallInv
  <2>2. /\ pc'[d] = IF Awaiting(d) THEN "done" ELSE pc[d]
        /\ result'[d] = IF Awaiting(d) THEN "lost" ELSE result[d]
        /\ answer'[d] = NoAnswer
    BY <1>2
  <2>3. /\ Handler(d)' = Handler(d) /\ Policy(d)' = Policy(d) /\ Expected(d)' = Expected(d)
        /\ ~Answered(d)' /\ ~Awaiting(d)' /\ Search(d)' = Search(d)
    BY <1>2, <2>2 DEF Handler, Awaiting, Awaits, Policy, ServerOf, Expected, Answered,
                      NoAnswer, Search
  <2>4. CASE Untouched(d)
    BY <1>2, <2>2, <2>4 DEF CallFits, Untouched, Awaiting, Awaits
  <2>5. CASE ~Untouched(d)
    <3>1. pc'[d] # "idle" /\ pc'[d] \notin Awaits
      BY <2>1, <2>2, <2>5 DEF CallFits, Awaiting, Awaits
    <3>2. AwaitsFit(d)'
      BY <1>2, <2>1, <2>3, <2>5, <3>1 DEF CallFits, AwaitsFit, Awaits
    <3>3. Handler(d).kind = "command" => CommandFits(d)'
      <4>1. pc'[d] \notin {"access", "resources", "power", "credentials", "session", "command"}
        BY <3>1 DEF Awaits
      <4>2. answer'[d].type # "state"
        BY <2>2 DEF NoAnswer
      <4>3. QED
        BY <1>2, <2>1, <2>3, <2>5, <4>1, <4>2 DEF CallFits, CommandFits
    <3>4. Handler(d).bulk => BulkFits(d)'
      BY <1>2, <2>1, <2>2, <2>3, <2>5 DEF CallFits, BulkFits
    <3>5. QED
      BY <1>2, <2>1, <2>3, <2>5, <3>1, <3>2, <3>3, <3>4 DEF CallFits
  <2>6. QED
    BY <2>4, <2>5
<1>5. QED
  BY <1>3, <1>4 DEF CallInv

-----------------------------------------------------------------------------
(* The theorems. *)

\* At the start no call was made.
LEMMA InitFits ==
  ASSUME Init
  PROVE  CallInv
<1>1. CallType
  <2>1. ReadyState \in PanelStates
    BY ServerToolsAssumption
  <2>2. /\ panel \in [Servers -> PanelStates] /\ pc \in [Calls -> Awaits \cup {"idle", "done"}]
        /\ req \in [Calls -> Request \cup {NoRequest}] /\ at \in [Calls -> Nat \ {0}]
    BY <2>1 DEF Init
  <2>3. /\ answer \in [Calls -> Answer]
        /\ answers \in [Calls -> Seq([server: Servers, ok: BOOLEAN])]
        /\ wire \in [Calls -> {"none", "sent", "executed"}]
        /\ result \in [Calls -> {"none", "ok", "denied", "error", "rate_limited", "lost"}]
    BY DEF Init, Answer
  <2>4. witness \in [Calls -> [ran: BOOLEAN, granted: BOOLEAN, trouble: SUBSET Nat]]
    BY DEF Init, NoWitness
  <2>5. QED
    BY <2>2, <2>3, <2>4 DEF CallType
<1>2. \A c \in Calls : Untouched(c)
  BY DEF Init, Untouched, NoWitness
<1>3. QED
  BY <1>1, <1>2 DEF CallInv, CallFits

\* Every step keeps the invariant.
LEMMA StepKeeps ==
  ASSUME CallInv, [Next]_vars
  PROVE  CallInv'
<1>1. ASSUME NEW c \in Calls, Step(c)
      PROVE  CallInv'
  <2>1. ASSUME NEW r \in RequestsOf(c), Begin(c, r)
        PROVE  CallInv'
    BY <2>1, BeginKeeps
  <2>2. ASSUME Resume(c)
        PROVE  CallInv'
    BY <2>2, OnServerKeeps, OnFetchKeeps, OnLogKeeps, OnAccessKeeps, OnPowerKeeps,
       OnCredentialsKeeps, OnResourcesKeeps, OnLastKeeps DEF Resume
  <2>3. QED
    BY <1>1, <2>1, <2>2, RequestFailsKeeps, PanelAnswersKeeps, PanelExecutesKeeps DEF Step
<1>2. ASSUME NEW s \in Servers, NEW state \in PanelStates, PanelChanges(s, state)
      PROVE  CallInv'
  BY <1>2, PanelChangesKeeps
<1>3. CASE UNCHANGED vars
  <2>1. panel' = panel /\ (\A d \in Calls : Same(d))
    BY <1>3 DEF vars, environment, Same
  <2>2. CallType'
    BY <1>3 DEF vars, environment, CallInv, CallType
  <2>3. QED
    BY <2>1, <2>2, Frame DEF CallInv
<1>4. QED
  BY <1>1, <1>2, <1>3, RestartKeeps DEF Next

\* Whatever the calls, the panel and the requests do, the invariant of the
\* calls holds (mcp/register-*.ts): a handler awaits what it may, has noted what
\* entitles it to go on, and a bulk tool is at the server after the last it has
\* answered for.
THEOREM CallsFit == Spec => []CallInv
<1>1. Init => CallInv
  BY InitFits
<1>2. CallInv /\ [Next]_vars => CallInv'
  BY StepKeeps
<1>3. QED
  BY <1>1, <1>2, PTL DEF Spec

\* A bulk tool (mcp/register-bulk-tools.ts) answers once for each of the first
\* servers it was given, in order; it reports a failure where a request failed
\* or the panel did not allow it, and only there unless the search is invalid or
\* no log could be read, whatever befell the others.
THEOREM BulkToolsAnswer == Spec => []BulkAnswersEach
<1>1. ASSUME CallInv
      PROVE  BulkAnswersEach
  <2> SUFFICES ASSUME NEW c \in Calls, req[c] # NoRequest, Handler(c).bulk
               PROVE  /\ Len(answers[c]) <= Min({BulkMaxServers, Len(req[c].servers)})
                      /\ result[c] = "ok" =>
                           Len(answers[c]) = Min({BulkMaxServers, Len(req[c].servers)})
                      /\ \A i \in DOMAIN answers[c] :
                           /\ answers[c][i].server = req[c].servers[i]
                           /\ i \in witness[c].trouble \/ Search(c) = "invalid" =>
                                ~answers[c][i].ok
                           /\ ~answers[c][i].ok =>
                                \/ i \in witness[c].trouble \/ Search(c) = "invalid"
                                \/ Handler(c).kind = "console" /\ ConsoleTransport = "file"
    BY DEF BulkAnswersEach
  <2>1. req[c] \in Request /\ Len(req[c].servers) > 0 /\ BulkFits(c)
    BY <1>1 DEF CallInv, CallFits, Untouched, AwaitsFit
  <2>2. Expected(c) = Min({BulkMaxServers, Len(req[c].servers)})
    BY <2>1, ServersAsked DEF Expected, Handler
  <2>3. QED
    BY <2>1, <2>2 DEF BulkFits
<1>2. QED
  BY <1>1, CallsFit, PTL

\* What forServer returns is a policy.
LEMMA PolicyOfServer ==
  ASSUME NEW override \in Override, NEW egg \in Egg
  PROVE  ForServer(override, egg) \in Policies
<1> DEFINE p == ForServer(override, egg)
<1>1. p = [mode |-> p.mode, preset |-> p.preset]
  BY DEF ForServer, DefaultPolicy
<1>2. p.mode \in PolicyMode \cup {Unknown}
  BY ModeOfServer, CommandPolicyAssumption DEF Otherwise, Override
<1>3. p.preset \in PolicyPreset \cup {Unknown}
  BY PresetOfServer, CommandPolicyAssumption DEF Override, PolicyPreset
<1> HIDE DEF p
<1>4. QED
  BY <1>1, <1>2, <1>3 DEF p, Policies

\* A command that send_console_command sends (mcp/register-tools.ts) is
\* one the policy meant for its server allows, and during the call the server
\* was running and the account had control.console, each when it was asked for.
THEOREM CommandsHaveCause == Spec => []CommandsSentWithCause
<1>1. ASSUME CallInv
      PROVE  CommandsSentWithCause
  <2> SUFFICES ASSUME NEW c \in Calls, wire[c] # "none", Handler(c).kind = "command"
               PROVE  /\ witness[c].ran /\ witness[c].granted
                      /\ \E policy \in Policies :
                           /\ Meant(policy, Overrides[ServerOf(c)], EggOf[ServerOf(c)])
                           /\ Evaluate(policy, req[c].command)
    BY DEF CommandsSentWithCause
  <2>1. req[c] \in Request /\ Len(req[c].servers) > 0 /\ CommandFits(c)
    BY <1>1 DEF CallInv, CallFits, Untouched, AwaitsFit
  <2>2. witness[c].ran /\ witness[c].granted /\ Evaluate(Policy(c), req[c].command)
    BY <2>1 DEF CommandFits
  <2>3. ServerOf(c) \in Servers
    <3>1. at[c] = 1 /\ Len(ServersOf(req[c])) \in Nat \ {0}
      BY <2>1, ServersAsked DEF CommandFits
    <3>2. at[c] \in 1..Len(ServersOf(req[c]))
      BY <3>1
    <3>3. QED
      BY <2>1, <3>2, ServersAsked DEF ServerOf
  <2>4. Overrides[ServerOf(c)] \in Override /\ EggOf[ServerOf(c)] \in Egg
    BY <2>3, ServerToolsAssumption, CommandPolicyAssumption
  <2>5. /\ Policy(c) \in Policies
        /\ Meant(Policy(c), Overrides[ServerOf(c)], EggOf[ServerOf(c)])
    BY <2>4, PolicyOfServer, ResolverGivesWhatIsMeant DEF Policy
  <2>6. QED
    BY <2>2, <2>5
<1>2. QED
  BY <1>1, CallsFit, PTL

-----------------------------------------------------------------------------
(* The audit log. *)

\* The piece is at the end of line k of the file: of the unfinished last line,
\* or of a new one.
PieceAt(n, file, grown, p, k) ==
  /\ grown \in Seq(Seq(PieceOf(n)) \ {<<>>})
  /\ Len(grown) = k
  /\ Last(grown[k]) = p
  /\ \A i \in 1..(k - 1) : i \in 1..Len(file) /\ grown[i] = file[i]
  /\ \A i \in 1..Len(file) : i < k \/ (i = k /\ ~Last(file[i]).whole)
  /\ Len(grown[k]) > 1 <=> Unfinished(file)

\* Where an append puts a piece
LEMMA PieceAdded ==
  ASSUME NEW n \in Nat, NEW file \in Seq(Seq(PieceOf(n)) \ {<<>>}), NEW p \in PieceOf(n)
  PROVE  \E k \in Nat \ {0} : PieceAt(n, file, AddPiece(file, p), p, k)
<1> DEFINE Line1 == Seq(PieceOf(n)) \ {<<>>}
<1>1. CASE Unfinished(file)
  <2> DEFINE k == Len(file)
             line == Append(file[k], p)
  <2>1. k \in Nat \ {0} /\ file[k] \in Line1 /\ ~Last(file[k]).whole
    BY <1>1 DEF Unfinished, Last
  <2>2. /\ line \in Line1 /\ Last(line) = p /\ Len(line) > 1
    <3>1. PICK old : old = file[k]
      OBVIOUS
    <3>2. old \in Seq(PieceOf(n)) /\ Len(old) \in Nat \ {0}
      BY <2>1, <3>1
    <3>3. /\ Append(old, p) \in Seq(PieceOf(n)) /\ Len(Append(old, p)) = Len(old) + 1
          /\ Append(old, p)[Len(old) + 1] = p
      BY <3>2
    <3>4. line = Append(old, p)
      BY <3>1
    <3>5. Append(old, p) # <<>>
      BY <3>2, <3>3
    <3>6. QED
      BY <3>2, <3>3, <3>4, <3>5 DEF Last
  <2>3. AddPiece(file, p) = [file EXCEPT ![k] = line]
    BY <1>1 DEF AddPiece
  <2> HIDE DEF line
  <2>4. /\ [file EXCEPT ![k] = line] \in Seq(Line1)
        /\ Len([file EXCEPT ![k] = line]) = k
        /\ [file EXCEPT ![k] = line][k] = line
        /\ \A i \in 1..(k - 1) : i \in 1..Len(file) /\ [file EXCEPT ![k] = line][i] = file[i]
    BY <2>1, <2>2
  <2>5. \A i \in 1..Len(file) : i < k \/ (i = k /\ ~Last(file[i]).whole)
    BY <2>1
  <2> HIDE DEF k
  <2>6. QED
    BY <1>1, <2>1, <2>2, <2>3, <2>4, <2>5 DEF PieceAt
<1>2. CASE ~Unfinished(file)
  <2> DEFINE k == Len(file) + 1
             line == <<p>>
  <2>1. line \in Line1 /\ Last(line) = p /\ ~(Len(line) > 1)
    BY DEF Last
  <2>2. AddPiece(file, p) = Append(file, line)
    BY <1>2 DEF AddPiece
  <2> HIDE DEF line
  <2>3. /\ Append(file, line) \in Seq(Line1) /\ Len(Append(file, line)) = k
        /\ Append(file, line)[k] = line
        /\ \A i \in 1..Len(file) : Append(file, line)[i] = file[i]
        /\ k \in Nat \ {0} /\ k - 1 = Len(file)
    BY <2>1
  <2>4. QED
    BY <1>2, <2>1, <2>2, <2>3 DEF PieceAt
<1>3. QED
  BY <1>1, <1>2

\* A sequence over a set is one over a larger set.
LEMMA SeqOfMore ==
  ASSUME NEW S, NEW T, S \subseteq T, NEW s \in Seq(S)
  PROVE  s \in Seq(T)
<1>1. \A i \in 1..Len(s) : s[i] \in T
  OBVIOUS
<1>2. QED
  BY <1>1

\* The pieces of a file that holds the first n records
LEMMA Numbered ==
  ASSUME NEW n \in Nat, NEW file \in Seq(Seq(PieceOf(n)) \ {<<>>})
  PROVE  /\ \A i \in DOMAIN file : Last(file[i]).no \in 1..n /\ Last(file[i]).whole \in BOOLEAN
         /\ file \in Seq(Seq(PieceOf(n + 1)) \ {<<>>})
         /\ ~Filed(file, n + 1)
<1>1. \A i \in DOMAIN file : Last(file[i]) \in PieceOf(n)
  BY DEF Last
<1>2. \A i \in DOMAIN file : Last(file[i]).no \in 1..n /\ Last(file[i]).whole \in BOOLEAN
  BY <1>1 DEF PieceOf
<1>3. PieceOf(n) \subseteq PieceOf(n + 1)
  BY DEF PieceOf
<1>4. Seq(PieceOf(n)) \ {<<>>} \subseteq Seq(PieceOf(n + 1)) \ {<<>>}
  BY <1>3, SeqOfMore
<1>5. file \in Seq(Seq(PieceOf(n + 1)) \ {<<>>})
  BY <1>4, SeqOfMore
<1>6. ~Filed(file, n + 1)
  BY <1>2 DEF Filed
<1>7. QED
  BY <1>2, <1>5, <1>6

\* The file has grown by record n + 1, or by a part of it: what this does to where
\* records can be read.
GrownBy(n, file, grown, p) ==
  /\ grown \in Seq(Seq(PieceOf(n + 1)) \ {<<>>})
  /\ Increasing(LastNumbers(grown))
  /\ \A m \in 1..n : Filed(grown, m) <=> Filed(file, m)
  /\ Filed(grown, n + 1) <=> p.whole
  /\ Unfinished(grown) <=> ~p.whole
  /\ \A i \in DOMAIN grown :
       \/ i \in DOMAIN file /\ grown[i] = file[i]
       \/ Last(grown[i]).no = n + 1 /\ (Len(grown[i]) > 1 => Unfinished(file))

\* An append makes the file grow.
LEMMA FileGrows ==
  ASSUME NEW n \in Nat, NEW file \in Seq(Seq(PieceOf(n)) \ {<<>>}),
         NEW p \in PieceOf(n + 1), p.no = n + 1, Increasing(LastNumbers(file))
  PROVE  GrownBy(n, file, AddPiece(file, p), p)
<1> DEFINE grown == AddPiece(file, p)
<1>1. file \in Seq(Seq(PieceOf(n + 1)) \ {<<>>}) /\ n + 1 \in Nat
  <2>1. file \in Seq(Seq(PieceOf(n + 1)) \ {<<>>})
    BY Numbered
  <2>2. QED
    BY <2>1
<1>2. PICK k \in Nat \ {0} : PieceAt(n + 1, file, grown, p, k)
  BY <1>1, PieceAdded
<1>3. p.no = n + 1
  OBVIOUS
<1> HIDE DEF grown
<1>4. /\ grown \in Seq(Seq(PieceOf(n + 1)) \ {<<>>})
      /\ Len(grown) = k
      /\ Last(grown[k]) = p
      /\ \A i \in 1..(k - 1) : i \in 1..Len(file) /\ grown[i] = file[i]
      /\ \A i \in 1..Len(file) : i < k \/ (i = k /\ ~Last(file[i]).whole)
      /\ Len(grown[k]) > 1 <=> Unfinished(file)
  BY <1>2 DEF PieceAt
<1>5. DOMAIN grown = 1..k /\ DOMAIN file = 1..Len(file) /\ Len(file) \in Nat
  BY <1>4
<1>6. \A i \in 1..Len(file) : Last(file[i]).no \in 1..n
  BY <1>5, Numbered
<1>7. \A i \in 1..(k - 1) : Last(grown[i]).no \in 1..n
  BY <1>3, <1>4, <1>6
<1>8. Increasing(LastNumbers(grown))
  <2> SUFFICES ASSUME NEW i \in 1..k, NEW j \in 1..k, i < j
               PROVE  Last(grown[i]).no < Last(grown[j]).no
    BY <1>5 DEF Increasing, LastNumbers
  <2>1. CASE j = k
    <3>1. i \in 1..(k - 1)
      BY <2>1
    <3>2. Last(grown[i]).no \in 1..n
      BY <1>7, <3>1
    <3>3. QED
      BY <1>3, <1>4, <2>1, <3>2
  <2>2. CASE j # k
    <3>1. i \in 1..(k - 1) /\ j \in 1..(k - 1)
      BY <2>2
    <3>2. i \in DOMAIN file /\ j \in DOMAIN file /\ grown[i] = file[i] /\ grown[j] = file[j]
      BY <1>3, <1>4, <1>5, <3>1
    <3>3. Last(file[i]).no < Last(file[j]).no
      BY <3>2 DEF Increasing, LastNumbers
    <3>4. QED
      BY <3>2, <3>3
  <2>3. QED
    BY <2>1, <2>2
<1>9. ASSUME NEW m \in 1..n
       PROVE  Filed(grown, m) <=> Filed(file, m)
  <2>1. ASSUME NEW i \in DOMAIN grown, Last(grown[i]).no = m, Last(grown[i]).whole
        PROVE  Filed(file, m)
    <3>1. i # k
      BY <1>3, <1>4, <2>1
    <3>2. i \in 1..(k - 1)
      BY <1>5, <3>1
    <3>3. QED
      BY <1>3, <1>4, <1>5, <2>1, <3>2 DEF Filed
  <2>2. ASSUME NEW i \in DOMAIN file, Last(file[i]).no = m, Last(file[i]).whole
        PROVE  Filed(grown, m)
    <3>1. i \in 1..(k - 1)
      BY <1>3, <1>4, <1>5, <2>2
    <3>2. i \in DOMAIN grown /\ grown[i] = file[i]
      BY <1>3, <1>4, <1>5, <3>1
    <3>3. QED
      BY <2>2, <3>2 DEF Filed
  <2>3. QED
    BY <2>1, <2>2 DEF Filed
<1>10. Filed(grown, n + 1) <=> p.whole
  <2>1. ASSUME NEW i \in DOMAIN grown, Last(grown[i]).no = n + 1
        PROVE  i = k
    BY <1>5, <1>7, <2>1
  <2>2. k \in DOMAIN grown
    BY <1>5
  <2>3. QED
    BY <1>3, <1>4, <2>1, <2>2 DEF Filed
<1>11. Unfinished(grown) <=> ~p.whole
  <2>1. grown # <<>> /\ Last(grown) = grown[k]
    BY <1>4 DEF Last
  <2>2. QED
    BY <1>3, <1>4, <2>1 DEF Unfinished
<1>12. \A i \in DOMAIN grown :
         \/ i \in DOMAIN file /\ grown[i] = file[i]
         \/ Last(grown[i]).no = n + 1 /\ (Len(grown[i]) > 1 => Unfinished(file))
  <2> SUFFICES ASSUME NEW i \in DOMAIN grown
               PROVE  \/ i \in DOMAIN file /\ grown[i] = file[i]
                      \/ Last(grown[i]).no = n + 1 /\ (Len(grown[i]) > 1 => Unfinished(file))
    OBVIOUS
  <2>1. CASE i = k
    BY <1>3, <1>4, <2>1
  <2>2. CASE i # k
    <3>1. i \in 1..(k - 1)
      BY <1>5, <2>2
    <3>2. QED
      BY <1>3, <1>4, <1>5, <3>1
  <2>3. QED
    BY <2>1, <2>2
<1>13. QED
  BY <1>3, <1>4, <1>8, <1>9, <1>10, <1>11, <1>12 DEF GrownBy, grown

\* What printing a record does
LEMMA StdoutGrows ==
  ASSUME NEW n \in Nat, NEW stdout \in Seq(1..n), Increasing(stdout)
  PROVE  /\ Append(stdout, n + 1) \in Seq(1..(n + 1))
         /\ Increasing(Append(stdout, n + 1))
         /\ \A m \in 1..n : IsPrinted(Append(stdout, n + 1), m) <=> IsPrinted(stdout, m)
         /\ IsPrinted(Append(stdout, n + 1), n + 1)
         /\ ~IsPrinted(stdout, n + 1)
<1> DEFINE grown == Append(stdout, n + 1)
           k == Len(stdout)
<1>1. k \in Nat /\ DOMAIN stdout = 1..k /\ (\A i \in 1..k : stdout[i] \in 1..n)
  OBVIOUS
<1>2. /\ DOMAIN grown = 1..(k + 1) /\ grown[k + 1] = n + 1
      /\ \A i \in 1..k : grown[i] = stdout[i]
  OBVIOUS
<1>3. grown \in Seq(1..(n + 1))
  <2>1. 1..n \subseteq 1..(n + 1)
    OBVIOUS
  <2>2. stdout \in Seq(1..(n + 1))
    BY <2>1, SeqOfMore
  <2>3. QED
    BY <2>2
<1> HIDE DEF grown, k
<1>4. Increasing(grown)
  <2> SUFFICES ASSUME NEW i \in 1..(k + 1), NEW j \in 1..(k + 1), i < j
               PROVE  grown[i] < grown[j]
    BY <1>2 DEF Increasing
  <2>1. i \in 1..k /\ (j \in 1..k \/ j = k + 1)
    BY <1>1
  <2>2. CASE j \in 1..k
    BY <1>1, <1>2, <2>1, <2>2 DEF Increasing
  <2>3. CASE j = k + 1
    <3>1. grown[i] \in 1..n /\ grown[j] = n + 1
      BY <1>1, <1>2, <2>1, <2>3
    <3>2. QED
      BY <3>1
  <2>4. QED
    BY <2>1, <2>2, <2>3
<1>5. \A m \in 1..n : IsPrinted(grown, m) <=> IsPrinted(stdout, m)
  <2> SUFFICES ASSUME NEW m \in 1..n
               PROVE  IsPrinted(grown, m) <=> IsPrinted(stdout, m)
    OBVIOUS
  <2>1. ASSUME NEW i \in DOMAIN grown, grown[i] = m
        PROVE  IsPrinted(stdout, m)
    <3>1. i # k + 1
      BY <1>2, <2>1
    <3>2. i \in 1..k
      BY <1>1, <1>2, <3>1
    <3>3. QED
      BY <1>1, <1>2, <2>1, <3>2 DEF IsPrinted
  <2>2. ASSUME NEW i \in DOMAIN stdout, stdout[i] = m
        PROVE  IsPrinted(grown, m)
    BY <1>1, <1>2, <2>2 DEF IsPrinted
  <2>3. QED
    BY <2>1, <2>2 DEF IsPrinted
<1>6. IsPrinted(grown, n + 1)
  BY <1>1, <1>2 DEF IsPrinted
<1>7. ~IsPrinted(stdout, n + 1)
  BY <1>1 DEF IsPrinted
<1>8. QED
  BY <1>3, <1>4, <1>5, <1>6, <1>7 DEF grown

\* AuditLogger.log keeps its part of the invariant: a record is either appended
\* or printed, and printed when the file was given up.
LEMMA LogOneKeeps ==
  ASSUME NEW l, NEW lives, NEW life \in Nat, LogFits(l, lives, life),
         NEW entry, entry.no = Len(lives) + 1, entry.append \in Appends
  PROVE  LogFits(LogOne(l, entry), Append(lives, life), life)
<1> DEFINE n == Len(lives)
           new == LogOne(l, entry)
           more == Append(lives, life)
<1>1. /\ n \in Nat /\ lives \in Seq(Nat) /\ DOMAIN lives = 1..n
      /\ l \in LogOf(n)
      /\ Increasing(l.stdout) /\ Increasing(LastNumbers(l.file))
  BY DEF LogFits
<1>2. /\ more \in Seq(Nat) /\ Len(more) = n + 1 /\ DOMAIN more = 1..(n + 1)
      /\ more[n + 1] = life
      /\ \A m \in 1..n : more[m] = lives[m]
      /\ \A m \in 1..(n + 1) : m \in 1..n \/ m = n + 1
  BY <1>1
<1>3. PICK printed \in BOOLEAN :
        /\ new.stdout = IF printed THEN Append(l.stdout, n + 1) ELSE l.stdout
        /\ \/ new.file = l.file
           \/ printed /\ new.file = AddPiece(l.file, Piece(n + 1, FALSE))
           \/ ~printed /\ new.file = AddPiece(l.file, Piece(n + 1, TRUE))
        /\ printed => ~new.enabled
        /\ ~printed => l.enabled /\ new.file = AddPiece(l.file, Piece(n + 1, TRUE))
        /\ new.file = l.file \/ l.enabled
        /\ new = [enabled |-> new.enabled, file |-> new.file, stdout |-> new.stdout]
        /\ new.enabled \in BOOLEAN
  <2>1. /\ l.enabled \in BOOLEAN
        /\ DOMAIN l = {"enabled", "file", "stdout"}
    BY <1>1 DEF LogOf
  <2>2. CASE ~l.enabled
    <3>1. new = [l EXCEPT !.stdout = Append(l.stdout, n + 1)]
      BY <2>2 DEF LogOne
    <3>2. /\ new.stdout = Append(l.stdout, n + 1) /\ new.file = l.file /\ new.enabled = l.enabled
          /\ new = [enabled |-> new.enabled, file |-> new.file, stdout |-> new.stdout]
      BY <1>1, <3>1 DEF LogOf
    <3>3. QED
      BY <2>1, <2>2, <3>2
  <2>3. CASE l.enabled /\ entry.append = "written"
    <3>1. new = [l EXCEPT !.file = AddPiece(l.file, Piece(n + 1, TRUE))]
      BY <2>3 DEF LogOne
    <3>2. /\ new.stdout = l.stdout /\ new.file = AddPiece(l.file, Piece(n + 1, TRUE))
          /\ new.enabled = l.enabled
          /\ new = [enabled |-> new.enabled, file |-> new.file, stdout |-> new.stdout]
      BY <1>1, <3>1 DEF LogOf
    <3>3. QED
      BY <2>1, <2>3, <3>2
  <2>4. CASE l.enabled /\ entry.append # "written"
    <3> DEFINE file == IF entry.append = "torn"
                         THEN AddPiece(l.file, Piece(n + 1, FALSE)) ELSE l.file
    <3>1. new = [enabled |-> FALSE, file |-> file, stdout |-> Append(l.stdout, n + 1)]
      BY <2>4 DEF LogOne
    <3>2. file = l.file \/ file = AddPiece(l.file, Piece(n + 1, FALSE))
      OBVIOUS
    <3> HIDE DEF file
    <3>3. /\ new.stdout = Append(l.stdout, n + 1) /\ new.file = file /\ ~new.enabled
          /\ new.enabled \in BOOLEAN /\ DOMAIN new = {"enabled", "file", "stdout"}
      BY <3>1
    <3>4. QED
      BY <2>4, <3>1, <3>2, <3>3
  <2>5. QED
    BY <2>1, <2>2, <2>3, <2>4
<1> HIDE DEF new, more, n
<1>4. /\ new.stdout \in Seq(1..(n + 1)) /\ Increasing(new.stdout)
      /\ \A m \in 1..n : IsPrinted(new.stdout, m) <=> IsPrinted(l.stdout, m)
      /\ IsPrinted(new.stdout, n + 1) <=> printed
  <2>1. l.stdout \in Seq(1..n)
    BY <1>1 DEF LogOf
  <2>2. ~IsPrinted(l.stdout, n + 1)
    BY <1>1, <2>1, StdoutGrows
  <2>3. CASE printed
    BY <1>1, <1>3, <2>1, <2>3, StdoutGrows
  <2>4. CASE ~printed
    <3>1. l.stdout \in Seq(1..(n + 1))
      <4>1. 1..n \subseteq 1..(n + 1)
        BY <1>1
      <4>2. QED
        BY <2>1, <4>1, SeqOfMore
    <3>2. QED
      BY <1>1, <1>3, <2>2, <2>4, <3>1
  <2>5. QED
    BY <2>3, <2>4
<1>5. /\ new.file \in Seq(Seq(PieceOf(n + 1)) \ {<<>>})
      /\ Increasing(LastNumbers(new.file))
      /\ \A m \in 1..n : Filed(new.file, m) <=> Filed(l.file, m)
      /\ Filed(new.file, n + 1) <=> ~printed
      /\ ~printed => ~Unfinished(new.file)
      /\ \A i \in DOMAIN new.file :
           \/ i \in DOMAIN l.file /\ new.file[i] = l.file[i]
           \/ /\ Last(new.file[i]).no = n + 1 /\ l.enabled
              /\ Len(new.file[i]) > 1 => Unfinished(l.file)
  <2>1. l.file \in Seq(Seq(PieceOf(n)) \ {<<>>})
    BY <1>1 DEF LogOf
  <2>2. CASE new.file = l.file
    <3>1. l.file \in Seq(Seq(PieceOf(n + 1)) \ {<<>>}) /\ ~Filed(l.file, n + 1)
      BY <1>1, <2>1, Numbered
    <3>2. ASSUME ~printed
          PROVE  FALSE
      <4>1. PICK p : p = Piece(n + 1, TRUE)
        OBVIOUS
      <4>2. p \in PieceOf(n + 1) /\ p.no = n + 1 /\ p.whole
        BY <1>1, <4>1 DEF Piece, PieceOf
      <4>3. l.file = AddPiece(l.file, p)
        BY <1>3, <2>2, <3>2, <4>1
      <4>4. GrownBy(n, l.file, l.file, p)
        BY <1>1, <2>1, <4>2, <4>3, FileGrows
      <4>5. QED
        BY <3>1, <4>2, <4>4 DEF GrownBy
    <3>3. QED
      BY <1>1, <2>2, <3>1, <3>2
  <2>3. CASE new.file # l.file
    <3>1. PICK p \in {Piece(n + 1, FALSE), Piece(n + 1, TRUE)} :
            /\ new.file = AddPiece(l.file, p) /\ l.enabled
            /\ printed => p = Piece(n + 1, FALSE)
            /\ ~printed => p = Piece(n + 1, TRUE)
      BY <1>3, <2>3
    <3>2. p \in PieceOf(n + 1) /\ p.no = n + 1 /\ (p.whole <=> ~printed)
      <4>1. /\ Piece(n + 1, FALSE) \in PieceOf(n + 1) /\ Piece(n + 1, FALSE).no = n + 1
            /\ ~Piece(n + 1, FALSE).whole
        BY <1>1 DEF Piece, PieceOf
      <4>2. /\ Piece(n + 1, TRUE) \in PieceOf(n + 1) /\ Piece(n + 1, TRUE).no = n + 1
            /\ Piece(n + 1, TRUE).whole
        BY <1>1 DEF Piece, PieceOf
      <4>3. QED
        BY <3>1, <4>1, <4>2
    <3>3. GrownBy(n, l.file, new.file, p)
      BY <1>1, <2>1, <3>1, <3>2, FileGrows
    <3>4. QED
      BY <3>1, <3>2, <3>3 DEF GrownBy
  <2>4. QED
    BY <2>2, <2>3
<1>6. new \in LogOf(Len(more))
  BY <1>2, <1>3, <1>4, <1>5 DEF LogOf
<1>7. \A m \in DOMAIN more : more[m] <= life
  BY <1>1, <1>2 DEF LogFits
<1>8. \A m \in DOMAIN more : Filed(new.file, m) <=> ~IsPrinted(new.stdout, m)
  BY <1>1, <1>2, <1>4, <1>5 DEF LogFits
<1>9. ASSUME NEW i \in DOMAIN new.file
      PROVE  FirstOfItsLife(new.file[i], more)
  <2>1. CASE i \in DOMAIN l.file /\ new.file[i] = l.file[i]
    <3>1. FirstOfItsLife(l.file[i], lives)
      BY <2>1 DEF LogFits
    <3>2. Last(l.file[i]).no \in 1..n
      <4>1. l.file \in Seq(Seq(PieceOf(n)) \ {<<>>})
        BY <1>1 DEF LogOf
      <4>2. QED
        BY <1>1, <2>1, <4>1, Numbered
    <3>3. \A m \in 1..(Last(l.file[i]).no - 1) : m \in 1..n
      BY <1>1, <3>2
    <3>4. QED
      BY <1>2, <2>1, <3>1, <3>2, <3>3 DEF FirstOfItsLife
  <2>2. CASE /\ Last(new.file[i]).no = n + 1 /\ l.enabled
             /\ Len(new.file[i]) > 1 => Unfinished(l.file)
    <3>1. Len(new.file[i]) > 1 => \A m \in 1..n : lives[m] # life
      BY <1>1, <2>2 DEF LogFits
    <3>2. \A m \in 1..((n + 1) - 1) : m \in 1..n
      BY <1>1
    <3>3. QED
      BY <1>2, <2>2, <3>1, <3>2 DEF FirstOfItsLife
  <2>3. QED
    BY <1>5, <2>1, <2>2
<1>10. ASSUME NEW m1 \in DOMAIN more, NEW m2 \in DOMAIN more, m1 < m2, more[m1] = more[m2],
              IsPrinted(new.stdout, m1)
       PROVE  IsPrinted(new.stdout, m2)
  <2>1. m1 \in 1..n
    BY <1>1, <1>2, <1>10
  <2>2. CASE m2 \in 1..n
    BY <1>1, <1>2, <1>4, <1>10, <2>1, <2>2 DEF LogFits
  <2>3. CASE m2 = n + 1
    <3>1. lives[m1] = life /\ IsPrinted(l.stdout, m1)
      BY <1>2, <1>4, <1>10, <2>1, <2>3
    <3>2. ~l.enabled
      BY <1>1, <2>1, <3>1 DEF LogFits
    <3>3. QED
      BY <1>3, <1>4, <2>3, <3>2
  <2>4. QED
    BY <1>2, <2>2, <2>3
<1>11. new.enabled => \A m \in DOMAIN more : more[m] = life => ~IsPrinted(new.stdout, m)
  <2> SUFFICES ASSUME new.enabled, NEW m \in DOMAIN more, more[m] = life
               PROVE  ~IsPrinted(new.stdout, m)
    OBVIOUS
  <2>1. ~printed /\ l.enabled
    BY <1>3
  <2>2. CASE m \in 1..n
    BY <1>1, <1>2, <1>4, <2>1, <2>2 DEF LogFits
  <2>3. CASE m = n + 1
    BY <1>4, <2>1, <2>3
  <2>4. QED
    BY <1>2, <2>2, <2>3
<1>12. ~(new.enabled /\ Unfinished(new.file))
  BY <1>3, <1>5
<1>13. QED
  BY <1>2, <1>4, <1>5, <1>6, <1>7, <1>8, <1>9, <1>10, <1>11, <1>12 DEF LogFits, new, more

\* The process starts again, with what its predecessors wrote.
LEMMA NewLoggerKeeps ==
  ASSUME NEW l, NEW lives, NEW life \in Nat, LogFits(l, lives, life), NEW usable \in BOOLEAN
  PROVE  LogFits(NewLogger(l, usable), lives, life + 1)
<1> DEFINE new == NewLogger(l, usable)
<1>1. l \in LogOf(Len(lives)) /\ lives \in Seq(Nat)
  BY DEF LogFits
<1>2. new.stdout = l.stdout /\ new.file = l.file
  BY <1>1 DEF NewLogger, LogOf
<1>3. new \in LogOf(Len(lives))
  BY <1>1 DEF NewLogger, LogOf
<1>4. \A n \in DOMAIN lives : lives[n] \in Nat /\ lives[n] <= life
  BY <1>1 DEF LogFits
<1>5. \A n \in DOMAIN lives : lives[n] <= life + 1 /\ lives[n] # life + 1
  BY <1>4
<1> HIDE DEF new
<1>6. QED
  BY <1>1, <1>2, <1>3, <1>5 DEF LogFits, new

-----------------------------------------------------------------------------
(* The trail a step leaves. *)

\* What a step may record: two outcomes at most
Recorded == [status: Status, counter: Counter \cup {None}]
AtMostTwo == {records \in Seq(Recorded) : Len(records) <= 2}

\* Records of one process extend the log and the history together.
LEMMA RecordKeeps ==
  ASSUME TrailInv, NEW c \in Calls, NEW records \in AtMostTwo, Record(c, records),
         restarts' = restarts
  PROVE  TrailInv'
<1> DEFINE n == Len(made)
           more == Len(records)
           e == [i \in DOMAIN records |-> [call |-> c, status |-> records[i].status,
                                           counter |-> records[i].counter, life |-> restarts]]
<1>1. /\ made \in Seq(Entry) /\ restarts \in Nat /\ faults \in 0..MaxFaults
      /\ counters \in [Counter -> Nat] /\ LogFits(log, Lives, restarts)
  BY DEF TrailInv
<1>2. /\ records \in Seq(Recorded) /\ more \in Nat /\ more <= 2 /\ DOMAIN records = 1..more
      /\ n \in Nat /\ DOMAIN made = 1..n
  BY <1>1 DEF AtMostTwo
<1>3. PICK faulty \in 0..more, append \in Appends \ {"written"} :
        /\ faulty # 0 => faults < MaxFaults
        /\ faults' = faults + (IF faulty = 0 THEN 0 ELSE 1)
        /\ log' = LogAll(log, [i \in DOMAIN records |->
                                 [no |-> n + i,
                                  append |-> IF i = faulty THEN append ELSE "written"]])
        /\ made' = made \o e
        /\ counters' = [k \in Counter |->
             counters[k] + Cardinality({i \in DOMAIN records : records[i].counter = k})]
  BY DEF Record
<1> DEFINE entries == [i \in 1..more |-> [no |-> n + i,
                                          append |-> IF i = faulty THEN append ELSE "written"]]
<1>4. faults' \in 0..MaxFaults
  BY <1>1, <1>3, ServerToolsAssumption
<1>5. counters' \in [Counter -> Nat]
  <2>1. ASSUME NEW k \in Counter
        PROVE  Cardinality({i \in 1..more : records[i].counter = k}) \in Nat
    <3>1. IsFiniteSet(1..more)
      BY <1>2, FS_Interval
    <3>2. IsFiniteSet({i \in 1..more : records[i].counter = k})
      BY <3>1, FS_Subset
    <3>3. QED
      BY <3>2, FS_CardinalityType
  <2>2. QED
    BY <1>1, <1>2, <1>3, <2>1
<1>6. e \in Seq(Entry) /\ Len(e) = more /\ (\A i \in 1..more : e[i].life = restarts)
  <2>1. \A i \in 1..more : e[i] \in Entry
    <3> SUFFICES ASSUME NEW i \in 1..more
                 PROVE  e[i] \in Entry
      OBVIOUS
    <3>1. records[i].status \in Status /\ records[i].counter \in Counter \cup {None}
      <4>1. records[i] \in Recorded
        BY <1>2
      <4>2. QED
        BY <4>1 DEF Recorded
    <3>2. [call |-> c, status |-> records[i].status, counter |-> records[i].counter,
           life |-> restarts] \in Entry
      BY <1>1, <3>1 DEF Entry
    <3>3. QED
      BY <1>2, <3>2
  <2>2. QED
    BY <1>2, <2>1
<1> HIDE DEF e
<1>7. /\ made' \in Seq(Entry) /\ Len(made') = n + more /\ DOMAIN made' = 1..(n + more)
      /\ \A i \in 1..n : made'[i] = made[i]
      /\ \A i \in 1..more : made'[n + i] = e[i]
  BY <1>1, <1>2, <1>3, <1>6
<1>8. /\ Lives \in Seq(Nat) /\ Len(Lives) = n
      /\ \A i \in 1..n : Lives[i] = made[i].life
  <2>1. \A i \in 1..n : made[i].life \in Nat
    <3>1. \A i \in 1..n : made[i] \in Entry
      BY <1>1, <1>2
    <3>2. QED
      BY <3>1 DEF Entry
  <2>2. Lives = [i \in 1..n |-> made[i].life]
    BY <1>2 DEF Lives
  <2> HIDE DEF n
  <2>3. QED
    BY <1>2, <2>1, <2>2
<1>9. /\ \A i \in DOMAIN made' : Lives'[i] = made'[i].life
      /\ DOMAIN Lives' = 1..(n + more) /\ Lives' = [i \in 1..(n + more) |-> Lives'[i]]
  BY <1>7 DEF Lives
<1>10. /\ \A i \in 1..n : Lives'[i] = Lives[i]
       /\ \A i \in 1..more : Lives'[n + i] = restarts
  <2>1. \A i \in 1..n : i \in DOMAIN made'
    BY <1>2, <1>7
  <2>2. \A i \in 1..more : n + i \in DOMAIN made'
    BY <1>2, <1>7
  <2>3. QED
    BY <1>6, <1>7, <1>8, <1>9, <2>1, <2>2
<1>11. log' = LogAll(log, entries)
  BY <1>2, <1>3
<1>12. /\ Len(entries) = more
       /\ \A i \in 1..more : entries[i].no = n + i /\ entries[i].append \in Appends
  BY <1>2 DEF Appends
<1> HIDE DEF entries, n, more
<1>13. CASE more = 0
  <2>1. log' = log
    BY <1>11, <1>12, <1>13 DEF LogAll
  <2>2. Lives' = Lives
    BY <1>2, <1>8, <1>9, <1>10, <1>13
  <2>3. QED
    BY <1>1, <1>4, <1>5, <1>7, <2>1, <2>2 DEF TrailInv
<1>14. CASE more = 1
  <2>1. log' = LogOne(log, entries[1])
    BY <1>11, <1>12, <1>14 DEF LogAll
  <2>2. Lives' = Append(Lives, restarts)
    BY <1>2, <1>8, <1>9, <1>10, <1>14
  <2>3. LogFits(LogOne(log, entries[1]), Append(Lives, restarts), restarts)
    BY <1>1, <1>8, <1>12, <1>14, LogOneKeeps
  <2>4. QED
    BY <1>1, <1>4, <1>5, <1>7, <2>1, <2>2, <2>3 DEF TrailInv
<1>15. CASE more = 2
  <2> DEFINE one == LogOne(log, entries[1])
             first == Append(Lives, restarts)
  <2>1. log' = LogOne(one, entries[2])
    BY <1>11, <1>12, <1>15 DEF LogAll
  <2>2. LogFits(one, first, restarts)
    BY <1>1, <1>8, <1>12, <1>15, LogOneKeeps
  <2>3. /\ first \in Seq(Nat) /\ Len(first) = n + 1 /\ first[n + 1] = restarts
        /\ \A i \in 1..n : first[i] = Lives[i]
    BY <1>1, <1>2, <1>8
  <2> HIDE DEF one, first
  <2>4. LogFits(LogOne(one, entries[2]), Append(first, restarts), restarts)
    <3>1. entries[2].no = Len(first) + 1 /\ entries[2].append \in Appends
      BY <1>2, <1>12, <1>15, <2>3
    <3>2. QED
      BY <1>1, <2>2, <3>1, LogOneKeeps
  <2>5. Lives' = Append(first, restarts)
    <3>1. /\ Append(first, restarts) \in Seq(Nat) /\ Len(Append(first, restarts)) = n + 2
          /\ Append(first, restarts)[n + 2] = restarts
          /\ \A i \in 1..(n + 1) : Append(first, restarts)[i] = first[i]
      BY <1>1, <1>2, <2>3
    <3>2. \A i \in 1..(n + 2) : Lives'[i] = Append(first, restarts)[i]
      <4> SUFFICES ASSUME NEW i \in 1..(n + 2)
                   PROVE  Lives'[i] = Append(first, restarts)[i]
        OBVIOUS
      <4>1. CASE i \in 1..n
        BY <1>2, <1>10, <2>3, <3>1, <4>1
      <4>2. CASE i = n + 1
        BY <1>2, <1>10, <1>15, <2>3, <3>1, <4>2
      <4>3. CASE i = n + 2
        BY <1>2, <1>10, <1>15, <3>1, <4>3
      <4>4. i \in 1..n \/ i = n + 1 \/ i = n + 2
        BY <1>2
      <4>5. QED
        BY <4>1, <4>2, <4>3, <4>4
    <3>3. QED
      BY <1>2, <1>9, <1>15, <3>1, <3>2
  <2>6. QED
    BY <1>1, <1>4, <1>5, <1>7, <2>1, <2>4, <2>5 DEF TrailInv
<1>16. QED
  BY <1>2, <1>13, <1>14, <1>15

\* A call leaves no trail, or two records at most.
Leaves(c) ==
  \/ UNCHANGED trail
  \/ \E records \in AtMostTwo : Record(c, records)

\* What handlers record: nothing, how the call went, a refusal, or a refusal and
\* then how it went
LEMMA Outcomes ==
  ASSUME NEW c \in Calls, NEW refused \in {<<>>, <<Refusal>>}
  PROVE  /\ refused \in AtMostTwo
         /\ <<RateLimitHit>> \in AtMostTwo /\ <<Outcome("denied")>> \in AtMostTwo
         /\ Succeeded(c) \in AtMostTwo
         /\ refused \o Succeeded(c) \in AtMostTwo
         /\ refused \o Failed(c) \in AtMostTwo
<1>1. /\ Refusal \in Recorded /\ RateLimitHit \in Recorded /\ Outcome("denied") \in Recorded
      /\ Outcome("success") \in Recorded /\ Outcome("error") \in Recorded
  BY DEF Refusal, RateLimitHit, Outcome, Recorded, Status, Counter
<1>2. /\ Succeeded(c) \in Seq(Recorded) /\ Len(Succeeded(c)) <= 1 /\ Len(Succeeded(c)) \in Nat
  BY <1>1 DEF Succeeded
<1>3. /\ Failed(c) \in Seq(Recorded) /\ Len(Failed(c)) <= 1 /\ Len(Failed(c)) \in Nat
  BY <1>1 DEF Failed
<1>4. refused \in Seq(Recorded) /\ Len(refused) <= 1 /\ Len(refused) \in Nat
  <2>1. CASE refused = <<>>
    BY <2>1
  <2>2. CASE refused = <<Refusal>>
    <3>1. <<Refusal>> \in Seq(Recorded) /\ Len(<<Refusal>>) = 1
      BY <1>1
    <3>2. QED
      BY <2>2, <3>1
  <2>3. QED
    BY <2>1, <2>2
<1>5. /\ <<RateLimitHit>> \in Seq(Recorded) /\ <<Outcome("denied")>> \in Seq(Recorded)
      /\ Len(<<RateLimitHit>>) <= 2 /\ Len(<<Outcome("denied")>>) <= 2
  BY <1>1
<1>6. /\ refused \o Succeeded(c) \in Seq(Recorded)
      /\ Len(refused \o Succeeded(c)) <= 2
  BY <1>2, <1>4
<1>7. /\ refused \o Failed(c) \in Seq(Recorded)
      /\ Len(refused \o Failed(c)) <= 2
  BY <1>3, <1>4
<1>8. QED
  BY <1>2, <1>4, <1>5, <1>6, <1>7 DEF AtMostTwo

-----------------------------------------------------------------------------
\* What a handler does next leaves a trail of that size.
LEMMA GoOnLeaves ==
  ASSUME NEW c \in Calls, NEW next, GoOn(c, next)
  PROVE  Leaves(c)
BY DEF GoOn, Leaves

LEMMA StopLeaves ==
  ASSUME NEW c \in Calls, NEW how, NEW records \in AtMostTwo, Stop(c, how, records)
  PROVE  Leaves(c)
BY DEF Stop, Return, Leaves

LEMMA PushLeaves ==
  ASSUME NEW c \in Calls, NEW ok, NEW refused \in {<<>>, <<Refusal>>}, Push(c, ok, refused)
  PROVE  Leaves(c)
BY Outcomes DEF Push, Return, Leaves

LEMMA FinishLeaves ==
  ASSUME NEW c \in Calls, Finish(c)
  PROVE  Leaves(c)
<1>1. Succeeded(c) \in AtMostTwo
  BY Outcomes
<1>2. QED
  BY <1>1, PushLeaves, StopLeaves DEF Finish

LEMMA ThrowLeaves ==
  ASSUME NEW c \in Calls, NEW refused \in {<<>>, <<Refusal>>}, Throw(c, refused)
  PROVE  Leaves(c)
<1>1. refused \in AtMostTwo /\ refused \o Failed(c) \in AtMostTwo
  BY Outcomes
<1>2. QED
  BY <1>1, PushLeaves, StopLeaves DEF Throw

LEMMA NextPathLeaves ==
  ASSUME NEW c \in Calls, NextPath(c)
  PROVE  Leaves(c)
BY GoOnLeaves, ThrowLeaves DEF NextPath, Leaves

LEMMA UnusableLeaves ==
  ASSUME NEW c \in Calls, Unusable(c)
  PROVE  Leaves(c)
BY ThrowLeaves DEF Unusable

\* Whatever answer a handler has had
LEMMA ResumeLeaves ==
  ASSUME NEW c \in Calls, Resume(c)
  PROVE  Leaves(c) /\ restarts' = restarts
<1>1. <<Outcome("denied")>> \in AtMostTwo
  BY Outcomes
<1>2. CASE OnServer(c)
  BY <1>1, <1>2, ThrowLeaves, GoOnLeaves, StopLeaves DEF OnServer, Receives, environment
<1>3. CASE OnFetch(c)
  BY <1>3, UnusableLeaves, GoOnLeaves, ThrowLeaves DEF OnFetch, Receives, environment
<1>4. CASE OnLog(c)
  BY <1>4, NextPathLeaves, ThrowLeaves, FinishLeaves DEF OnLog, Receives, environment
<1>5. CASE OnAccess(c)
  BY <1>5, UnusableLeaves, GoOnLeaves DEF OnAccess, Receives, environment
<1>6. CASE OnPower(c)
  BY <1>6, GoOnLeaves, ThrowLeaves DEF OnPower, Receives, environment
<1>7. CASE OnCredentials(c)
  BY <1>7, GoOnLeaves DEF OnCredentials, Receives, environment
<1>8. CASE OnResources(c)
  BY <1>1, <1>8, GoOnLeaves, StopLeaves, FinishLeaves DEF OnResources, Receives, environment
<1>9. CASE OnLast(c)
  BY <1>9, ThrowLeaves, FinishLeaves DEF OnLast, Receives, environment
<1>10. QED
  BY <1>2, <1>3, <1>4, <1>5, <1>6, <1>7, <1>8, <1>9 DEF Resume

\* No step of a call records more, or restarts the process.
LEMMA StepLeaves ==
  ASSUME NEW c \in Calls, Step(c)
  PROVE  Leaves(c) /\ restarts' = restarts
<1>1. <<>> \in AtMostTwo /\ <<RateLimitHit>> \in AtMostTwo /\ <<Outcome("denied")>> \in AtMostTwo
  BY Outcomes
<1>2. ASSUME NEW r, Begin(c, r)
      PROVE  Leaves(c) /\ restarts' = restarts
  BY <1>1, <1>2 DEF Begin, Return, Leaves, environment
<1>3. CASE RequestFails(c)
  BY <1>3, NextPathLeaves, ThrowLeaves DEF RequestFails, environment
<1>4. CASE PanelAnswers(c) \/ PanelExecutes(c)
  BY <1>4 DEF PanelAnswers, PanelExecutes, Leaves, environment
<1>5. QED
  BY <1>2, <1>3, <1>4, ResumeLeaves DEF Step

-----------------------------------------------------------------------------
\* The first process starts with an empty log.
LEMMA InitTrail == Init => TrailInv
<1> SUFFICES ASSUME Init
             PROVE  TrailInv
  OBVIOUS
<1>1. /\ made = <<>> /\ restarts = 0 /\ faults = 0
      /\ counters = [n \in Counter |-> 0]
  BY DEF Init
<1>2. made \in Seq(Entry) /\ restarts \in Nat /\ faults \in 0..MaxFaults
      /\ counters \in [Counter -> Nat]
  BY <1>1, ServerToolsAssumption
<1>3. Lives = <<>> /\ Len(Lives) = 0 /\ Lives \in Seq(Nat) /\ DOMAIN Lives = {}
  <2>1. DOMAIN made = {} /\ made = <<>>
    BY <1>1
  <2>2. Lives = <<>>
    BY <2>1 DEF Lives
  <2>3. QED
    BY <2>2
<1>4. log.file = <<>> /\ log.stdout = <<>> /\ log \in LogOf(0)
  <2>1. PICK usable \in BOOLEAN :
          log = NewLogger([enabled |-> TRUE, file |-> <<>>, stdout |-> <<>>], usable)
    BY DEF Init
  <2>2. log = [enabled |-> usable, file |-> <<>>, stdout |-> <<>>]
    BY <2>1 DEF NewLogger
  <2>3. <<>> \in Seq(1..0) /\ <<>> \in Seq(Seq(PieceOf(0)) \ {<<>>})
    OBVIOUS
  <2>4. QED
    BY <2>2, <2>3 DEF LogOf
<1>5. Increasing(log.stdout) /\ Increasing(LastNumbers(log.file)) /\ ~Unfinished(log.file)
  BY <1>4 DEF Increasing, LastNumbers, Unfinished
<1>6. \A i \in DOMAIN log.file : FirstOfItsLife(log.file[i], Lives)
  BY <1>4
<1>7. LogFits(log, Lives, restarts)
  BY <1>3, <1>4, <1>5, <1>6 DEF LogFits
<1>8. QED
  BY <1>2, <1>7 DEF TrailInv

\* Steps that record nothing
LEMMA TrailKept ==
  ASSUME TrailInv, UNCHANGED trail, restarts' = restarts
  PROVE  TrailInv'
BY DEF TrailInv, trail, Lives

\* The audit log and the history of its records fit together in every state.
THEOREM TrailFits == Spec => []TrailInv
<1>1. Init => TrailInv
  BY InitTrail
<1>2. ASSUME TrailInv, [Next]_vars
      PROVE  TrailInv'
  <2>1. ASSUME NEW c \in Calls, Step(c)
        PROVE  TrailInv'
    <3>1. Leaves(c) /\ restarts' = restarts
      BY <2>1, StepLeaves
    <3>2. QED
      BY <1>2, <3>1, RecordKeeps, TrailKept DEF Leaves
  <2>2. ASSUME NEW s \in Servers, NEW state \in PanelStates, PanelChanges(s, state)
        PROVE  TrailInv'
    BY <1>2, <2>2, TrailKept DEF PanelChanges
  <2>3. CASE Restart
    <3>1. PICK usable \in BOOLEAN : log' = NewLogger(log, usable)
      BY <2>3 DEF Restart
    <3>2. Lives' = Lives
      BY <2>3 DEF Restart, Lives
    <3>3. LogFits(log', Lives', restarts')
      BY <1>2, <2>3, <3>1, <3>2, NewLoggerKeeps DEF Restart, TrailInv
    <3>4. counters' \in [Counter -> Nat] /\ restarts' \in Nat
      BY <1>2, <2>3 DEF Restart, TrailInv
    <3>5. QED
      BY <1>2, <2>3, <3>3, <3>4 DEF Restart, TrailInv
  <2>4. CASE UNCHANGED vars
    BY <1>2, <2>4, TrailKept DEF vars, environment
  <2>5. QED
    BY <1>2, <2>1, <2>2, <2>3, <2>4 DEF Next
<1>3. QED
  BY <1>1, <1>2, PTL DEF Spec

\* What is at the end of a line is on that line alone, or after a part of
\* another record; what the numbers of the lines say is that it is on no other.
LEMMA WhereFiled ==
  ASSUME NEW n \in Nat, NEW l \in LogOf(n), Increasing(LastNumbers(l.file)),
         NEW k \in 1..n
  PROVE  /\ ~Filed(l.file, k) => CleanLines(l, k) = {} /\ GluedLines(l, k) = {}
         /\ Filed(l.file, k) =>
              \E i \in DOMAIN l.file :
                \/ CleanLines(l, k) = {i} /\ GluedLines(l, k) = {}
                \/ CleanLines(l, k) = {} /\ GluedLines(l, k) = {i}
<1>1. l.file \in Seq(Seq(PieceOf(n)) \ {<<>>})
  BY DEF LogOf
<1> DEFINE file == l.file
           Ends(i) == Last(file[i]).no = k /\ Last(file[i]).whole
<1>2. ASSUME NEW i \in DOMAIN file
      PROVE  /\ Len(file[i]) \in Nat \ {0}
             /\ file[i] = <<Piece(k, TRUE)>> <=> Len(file[i]) = 1 /\ Ends(i)
             /\ Last(file[i]) = Piece(k, TRUE) <=> Ends(i)
  <2>1. PICK line : line = file[i]
    OBVIOUS
  <2>2. line \in Seq(PieceOf(n)) /\ Len(line) \in Nat \ {0}
    BY <1>1, <2>1
  <2>3. Last(line) \in PieceOf(n)
    BY <2>2 DEF Last
  <2>4. Last(line) = Piece(k, TRUE) <=> Last(line).no = k /\ Last(line).whole
    BY <2>3 DEF PieceOf, Piece
  <2>5. line = <<Piece(k, TRUE)>> <=> Len(line) = 1 /\ Last(line) = Piece(k, TRUE)
    <3>1. CASE line = <<Piece(k, TRUE)>>
      BY <3>1 DEF Last
    <3>2. CASE Len(line) = 1 /\ Last(line) = Piece(k, TRUE)
      <4>1. line[1] = Piece(k, TRUE) /\ line = [j \in 1..1 |-> line[j]]
        BY <2>2, <3>2 DEF Last
      <4>2. line = <<line[1]>>
        BY <2>2, <3>2
      <4>3. QED
        BY <3>2, <4>1, <4>2
    <3>3. QED
      BY <3>1, <3>2
  <2>6. QED
    BY <2>1, <2>2, <2>4, <2>5
<1>3. ASSUME NEW i \in DOMAIN file, NEW j \in DOMAIN file, Ends(i), Ends(j)
      PROVE  i = j
  <2>1. i \in Nat /\ j \in Nat
    BY <1>1
  <2>2. \A a, b \in DOMAIN file : a < b => Last(file[a]).no < Last(file[b]).no
    BY DEF Increasing, LastNumbers
  <2>3. ~(k < k)
    OBVIOUS
  <2>4. ~(i < j) /\ ~(j < i)
    BY <1>3, <2>2, <2>3
  <2>5. QED
    BY <2>1, <2>4
<1> HIDE DEF Ends
<1>4. /\ CleanLines(l, k) = {i \in DOMAIN file : Len(file[i]) = 1 /\ Ends(i)}
      /\ GluedLines(l, k) = {i \in DOMAIN file : Len(file[i]) > 1 /\ Ends(i)}
  <2>1. \A i \in DOMAIN file : file[i] = <<Piece(k, TRUE)>> <=> Len(file[i]) = 1 /\ Ends(i)
    BY <1>2
  <2>2. \A i \in DOMAIN file : Last(file[i]) = Piece(k, TRUE) <=> Ends(i)
    BY <1>2
  <2>3. QED
    BY <2>1, <2>2 DEF CleanLines, GluedLines
<1>5. ASSUME NEW i \in DOMAIN file, Ends(i)
      PROVE  \/ CleanLines(l, k) = {i} /\ GluedLines(l, k) = {}
             \/ CleanLines(l, k) = {} /\ GluedLines(l, k) = {i}
  <2>1. \A j \in DOMAIN file : Ends(j) => j = i
    BY <1>3, <1>5
  <2>2. \A j \in CleanLines(l, k) \cup GluedLines(l, k) : j = i
    BY <1>4, <2>1
  <2>3. PICK length \in Nat \ {0} : length = Len(file[i])
    BY <1>2
  <2>4. i \in CleanLines(l, k) <=> length = 1
    BY <1>4, <1>5, <2>3
  <2>5. i \in GluedLines(l, k) <=> length > 1
    BY <1>4, <1>5, <2>3
  <2>6. length = 1 <=> ~(length > 1)
    OBVIOUS
  <2>7. QED
    BY <2>2, <2>4, <2>5, <2>6
<1>6. Filed(file, k) <=> \E i \in DOMAIN file : Ends(i)
  BY DEF Filed, Ends
<1>7. QED
  BY <1>4, <1>5, <1>6

\* The audit logger loses no record and writes none twice, and keeps their order.
THEOREM LogKept == Spec => []LogKeepsRecords
<1>1. TrailInv => LogKeepsRecords
  <2> SUFFICES ASSUME TrailInv
               PROVE  LogKeepsRecords
    OBVIOUS
  <2> DEFINE n == Len(made)
  <2>1. /\ n \in Nat /\ DOMAIN made = 1..n /\ DOMAIN Lives = 1..n /\ Len(Lives) = n
        /\ \A i \in 1..n : Lives[i] = made[i].life
        /\ LogFits(log, Lives, restarts)
    BY DEF TrailInv, Lives, LogFits
  <2> HIDE DEF n
  <2>2. log \in LogOf(n) /\ Increasing(log.stdout) /\ Increasing(LastNumbers(log.file))
    BY <2>1 DEF LogFits
  <2>3. ASSUME NEW k \in 1..n
        PROVE  IF IsPrinted(log.stdout, k)
                 THEN \E i \in DOMAIN log.stdout : Printed(log, k) = {i}
                 ELSE Printed(log, k) = {}
    <3>1. ASSUME NEW i \in DOMAIN log.stdout, NEW j \in DOMAIN log.stdout,
                 log.stdout[i] = k, log.stdout[j] = k
          PROVE  i = j
      <4>1. log.stdout \in Seq(1..n)
        BY <2>2 DEF LogOf
      <4>2. i \in Nat /\ j \in Nat
        BY <4>1
      <4>3. ~(i < j) /\ ~(j < i)
        BY <2>1, <2>2, <3>1 DEF Increasing
      <4>4. QED
        BY <4>2, <4>3
    <3>2. QED
      BY <3>1 DEF Printed, IsPrinted
  <2>4. ASSUME NEW k \in DOMAIN made
        PROVE  Cardinality(CleanLines(log, k)) + Cardinality(GluedLines(log, k))
                 + Cardinality(Printed(log, k)) = 1
    <3>1. k \in 1..n
      BY <2>1
    <3>2. ASSUME NEW S
          PROVE  /\ S = {} => Cardinality(S) = 0
                 /\ \A i : S = {i} => Cardinality(S) = 1
      BY FS_EmptySet, FS_Singleton
    <3>3. Filed(log.file, k) <=> ~IsPrinted(log.stdout, k)
      BY <2>1, <3>1 DEF LogFits
    <3>4. CASE IsPrinted(log.stdout, k)
      <4>1. CleanLines(log, k) = {} /\ GluedLines(log, k) = {}
        BY <2>1, <2>2, <3>1, <3>3, <3>4, WhereFiled
      <4>2. PICK i : Printed(log, k) = {i}
        BY <2>3, <3>1, <3>4
      <4>3. QED
        <5>1. /\ Cardinality(CleanLines(log, k)) = 0 /\ Cardinality(GluedLines(log, k)) = 0
              /\ Cardinality(Printed(log, k)) = 1
          BY <3>2, <4>1, <4>2
        <5>2. QED
          BY <5>1
    <3>5. CASE ~IsPrinted(log.stdout, k)
      <4>1. PICK i : \/ CleanLines(log, k) = {i} /\ GluedLines(log, k) = {}
                     \/ CleanLines(log, k) = {} /\ GluedLines(log, k) = {i}
        BY <2>1, <2>2, <3>1, <3>3, <3>5, WhereFiled
      <4>2. Printed(log, k) = {}
        BY <2>3, <3>1, <3>5
      <4>3. QED
        <5>1. /\ \/ /\ Cardinality(CleanLines(log, k)) = 1
                    /\ Cardinality(GluedLines(log, k)) = 0
                 \/ /\ Cardinality(CleanLines(log, k)) = 0
                    /\ Cardinality(GluedLines(log, k)) = 1
              /\ Cardinality(Printed(log, k)) = 0
          BY <3>2, <4>1, <4>2
        <5>2. QED
          BY <5>1
    <3>6. QED
      BY <3>4, <3>5
  <2>5. ASSUME NEW k \in DOMAIN made, GluedLines(log, k) # {}, NEW m \in 1..(k - 1)
        PROVE  made[m].life # made[k].life
    <3>1. k \in 1..n /\ m \in 1..n
      BY <2>1
    <3>2. PICK i \in DOMAIN log.file : Len(log.file[i]) > 1 /\ Last(log.file[i]) = Piece(k, TRUE)
      BY <2>5 DEF GluedLines
    <3>3. Last(log.file[i]).no = k /\ Last(log.file[i]).whole
      BY <3>2 DEF Piece
    <3>4. FirstOfItsLife(log.file[i], Lives)
      BY <2>1 DEF LogFits
    <3>5. Lives[m] # Lives[k]
      BY <3>2, <3>3, <3>4 DEF FirstOfItsLife
    <3>6. QED
      BY <2>1, <3>1, <3>5
  <2>6. ASSUME NEW m \in DOMAIN made, NEW k \in DOMAIN made, m < k,
               made[m].life = made[k].life, Printed(log, m) # {}
        PROVE  Printed(log, k) # {}
    <3>1. IsPrinted(log.stdout, m)
      BY <2>6 DEF Printed, IsPrinted
    <3>2. m \in 1..n /\ k \in 1..n /\ Lives[m] = Lives[k]
      BY <2>1, <2>6
    <3>3. IsPrinted(log.stdout, k)
      BY <2>1, <2>6, <3>1, <3>2 DEF LogFits
    <3>4. QED
      BY <3>3 DEF Printed, IsPrinted
  <2>7. Increasing([i \in DOMAIN log.file |-> Last(log.file[i]).no])
    BY <2>2 DEF LastNumbers
  <2>8. QED
    BY <2>2, <2>4, <2>5, <2>6, <2>7 DEF LogKeepsRecords
<1>2. QED
  BY <1>1, TrailFits, PTL
-----------------------------------------------------------------------------
(* What is recorded and counted. *)

\* What becomes of the history when a step of call c makes these records
LEMMA Recording ==
  ASSUME TrailInv, NEW c \in Calls, NEW records \in AtMostTwo, Record(c, records)
  PROVE  LET n == Len(made)
             more == Len(records)
         IN /\ n \in Nat /\ DOMAIN made = 1..n /\ DOMAIN made' = 1..(n + more)
            /\ \A i \in 1..n : made'[i] = made[i]
            /\ \A i \in 1..more :
                 /\ made'[n + i].call = c /\ made'[n + i].status = records[i].status
                 /\ made'[n + i].counter = records[i].counter /\ made'[n + i].life = restarts
            /\ counters' = [k \in Counter |->
                 counters[k] + Cardinality({i \in 1..more : records[i].counter = k})]
            /\ counters \in [Counter -> Nat]
<1> DEFINE n == Len(made)
           more == Len(records)
           e == [i \in DOMAIN records |-> [call |-> c, status |-> records[i].status,
                                           counter |-> records[i].counter, life |-> restarts]]
<1>1. /\ made \in Seq(Entry) /\ n \in Nat /\ DOMAIN made = 1..n
      /\ more \in Nat /\ DOMAIN records = 1..more /\ counters \in [Counter -> Nat]
  BY DEF TrailInv, AtMostTwo
<1>2. /\ made' = made \o e
      /\ counters' = [k \in Counter |->
           counters[k] + Cardinality({i \in DOMAIN records : records[i].counter = k})]
  BY DEF Record
<1>3. PICK last : last = e
  OBVIOUS
<1>4. /\ last \in Seq({last[i] : i \in 1..more}) /\ Len(last) = more
      /\ \A i \in 1..more : /\ last[i].call = c /\ last[i].status = records[i].status
                            /\ last[i].counter = records[i].counter /\ last[i].life = restarts
  BY <1>1, <1>3
<1> HIDE DEF e, n, more
<1>5. /\ Len(made \o last) = n + more /\ DOMAIN (made \o last) = 1..(n + more)
      /\ \A i \in 1..n : (made \o last)[i] = made[i]
      /\ \A i \in 1..more : (made \o last)[n + i] = last[i]
  BY <1>1, <1>4 DEF n
<1>6. QED
  BY <1>1, <1>2, <1>3, <1>4, <1>5 DEF n, more

\* A step adds to the records of call c a refusal or none (r), and an outcome
\* that is counted under k, or none.
Adds(c, r, k) ==
  /\ \A n \in DOMAIN made : n \in DOMAIN made' /\ made'[n] = made[n]
  /\ \A d \in Calls \ {c} : RecordsOf(d)' = RecordsOf(d)
  /\ r = 0 => RefusalsOf(c)' = RefusalsOf(c)
  /\ r = 1 => \E n : /\ RefusalsOf(c)' = RefusalsOf(c) \cup {n}
                     /\ n \notin RefusalsOf(c) /\ made'[n].status = "denied"
  /\ k = None => OutcomesOf(c)' = OutcomesOf(c)
  /\ k # None => \E n : /\ OutcomesOf(c)' = OutcomesOf(c) \cup {n}
                        /\ made'[n].counter = k /\ made'[n].life = restarts
                        /\ made'[n].status = StatusOf(k)
                        /\ \A m \in RefusalsOf(c)' : m < n
  /\ counters' = [j \in Counter |-> counters[j] + (IF j = k THEN 1 ELSE 0)]

\* The records made: refusals of a handler before its outcome
OutcomeRecords == {Outcome("success"), Outcome("error"), Outcome("denied"), RateLimitHit}

LEMMA RecordAdds ==
  ASSUME TrailInv, NEW c \in Calls,
         NEW refused \in {<<>>, <<Refusal>>},
         NEW counted \in {<<>>} \cup {<<o>> : o \in OutcomeRecords},
         Record(c, refused \o counted)
  PROVE  Adds(c, Len(refused), IF counted = <<>> THEN None ELSE counted[1].counter)
<1> DEFINE records == refused \o counted
           n == Len(made)
           more == Len(records)
           r == Len(refused)
           k == IF counted = <<>> THEN None ELSE counted[1].counter
<1>1. /\ \A o \in OutcomeRecords : /\ o \in Recorded /\ o.counter \in Counter /\ o.counter # None
                              /\ o.status = StatusOf(o.counter)
      /\ Refusal \in Recorded /\ Refusal.counter = None /\ Refusal.status = "denied"
  BY DEF OutcomeRecords, Outcome, RateLimitHit, Refusal, Recorded, Status, Counter, StatusOf, None
<1>2. /\ records \in AtMostTwo /\ r \in {0, 1} /\ more = r + (IF k = None THEN 0 ELSE 1)
      /\ r = 1 => records[1] = Refusal
      /\ k # None => /\ k \in Counter
                      /\ records[more].counter = k /\ records[more].status = StatusOf(k)
  <2>1. CASE counted = <<>>
    <3>1. <<>> \in Seq(Recorded) /\ <<Refusal>> \in Seq(Recorded)
      BY <1>1
    <3>2. records = refused /\ k = None
      BY <2>1, <3>1
    <3>3. CASE refused = <<>>
      BY <3>1, <3>2, <3>3 DEF AtMostTwo
    <3>4. CASE refused = <<Refusal>>
      BY <3>1, <3>2, <3>4 DEF AtMostTwo
    <3>5. QED
      BY <3>3, <3>4
  <2>2. CASE counted # <<>>
    <3>1. PICK o \in OutcomeRecords : counted = <<o>>
      BY <2>2
    <3>2. k = o.counter /\ k \in Counter /\ k # None /\ o.status = StatusOf(k) /\ o \in Recorded
      BY <1>1, <2>2, <3>1
    <3>3. CASE refused = <<>>
      <4>1. records = <<o>> /\ r = 0
        BY <1>1, <3>1, <3>2, <3>3
      <4>2. <<o>> \in Seq(Recorded) /\ Len(<<o>>) = 1 /\ <<o>>[1] = o
        BY <3>2
      <4>3. QED
        BY <3>2, <4>1, <4>2 DEF AtMostTwo
    <3>4. CASE refused = <<Refusal>>
      <4>1. <<Refusal>> \in Seq(Recorded) /\ <<o>> \in Seq(Recorded)
        BY <1>1, <3>2
      <4>2. /\ <<Refusal>> \o <<o>> \in Seq(Recorded) /\ Len(<<Refusal>> \o <<o>>) = 2
            /\ (<<Refusal>> \o <<o>>)[1] = Refusal /\ (<<Refusal>> \o <<o>>)[2] = o
        BY <4>1
      <4>3. records = <<Refusal>> \o <<o>> /\ r = 1
        BY <3>1, <3>4
      <4>4. QED
        BY <3>2, <4>2, <4>3 DEF AtMostTwo
    <3>5. QED
      BY <3>3, <3>4
  <2>3. QED
    BY <2>1, <2>2
<1>3. PICK all : all = records
  OBVIOUS
<1> HIDE DEF records, r, k, more
<1>4. /\ n \in Nat /\ DOMAIN made = 1..n /\ DOMAIN made' = 1..(n + more)
      /\ \A i \in 1..n : made'[i] = made[i]
      /\ \A i \in 1..more :
           /\ made'[n + i].call = c /\ made'[n + i].status = records[i].status
           /\ made'[n + i].counter = records[i].counter /\ made'[n + i].life = restarts
      /\ counters' = [j \in Counter |->
           counters[j] + Cardinality({i \in 1..more : records[i].counter = j})]
      /\ counters \in [Counter -> Nat]
  <2>1. Record(c, records)
    BY DEF records
  <2>2. QED
    BY <1>2, <2>1, Recording DEF more
<1> HIDE DEF n
<1>5. \A i \in 1..more : (i = 1 /\ r = 1) \/ (i = more /\ k # None)
  BY <1>2
<1>6. \A i \in 1..more : /\ records[i].counter = None <=> i = 1 /\ r = 1
                         /\ k = None \/ i # more => i = 1 /\ r = 1
  BY <1>1, <1>2, <1>5
<1>7. \A i \in 1..(n + more) : i \in 1..n \/ (i - n \in 1..more /\ i = n + (i - n))
  BY <1>2, <1>4
<1>8. ASSUME NEW d \in Calls, NEW m
      PROVE  m \in RecordsOf(d)' <=> m \in RecordsOf(d) \/ (d = c /\ m \in (n + 1)..(n + more))
  <2>1. CASE m \in 1..n
    BY <1>2, <1>4, <2>1 DEF RecordsOf
  <2>2. CASE m \in (n + 1)..(n + more)
    <3>1. PICK i \in 1..more : m = n + i
      <4>1. m - n \in 1..more /\ m = n + (m - n)
        BY <1>2, <1>4, <2>2
      <4>2. QED
        BY <4>1
    <3>2. m \in 1..(n + more) /\ m \notin 1..n
      BY <1>2, <1>4, <2>2
    <3>3. made'[m].call = c
      BY <1>4, <3>1
    <3>4. QED
      BY <1>4, <2>2, <3>2, <3>3 DEF RecordsOf
  <2>3. CASE m \notin 1..n /\ m \notin (n + 1)..(n + more)
    <3>1. m \notin 1..(n + more)
      BY <1>2, <1>4, <2>3
    <3>2. QED
      BY <1>4, <2>3, <3>1 DEF RecordsOf
  <2>4. QED
    BY <2>1, <2>2, <2>3
<1>9. ASSUME NEW m
      PROVE  /\ m \in RefusalsOf(c)' <=> m \in RefusalsOf(c) \/ (r = 1 /\ m = n + 1)
             /\ m \in OutcomesOf(c)' <=> m \in OutcomesOf(c) \/ (k # None /\ m = n + more)
  <2>1. CASE m \in 1..n
    <3>1. made'[m] = made[m] /\ m \notin (n + 1)..(n + more)
      BY <1>2, <1>4, <2>1
    <3>2. ~(r = 1 /\ m = n + 1) /\ ~(k # None /\ m = n + more)
      BY <1>2, <1>4, <2>1
    <3>3. QED
      BY <1>8, <3>1, <3>2 DEF RefusalsOf, OutcomesOf
  <2>2. CASE m \in (n + 1)..(n + more)
    <3>1. PICK i \in 1..more : m = n + i
      <4>1. m - n \in 1..more /\ m = n + (m - n)
        BY <1>2, <1>4, <2>2
      <4>2. QED
        BY <4>1
    <3>2. m \notin RecordsOf(c)
      <4>1. m \notin 1..n
        BY <1>2, <1>4, <2>2
      <4>2. QED
        BY <1>4, <4>1 DEF RecordsOf
    <3>3. made'[m].counter = None <=> i = 1 /\ r = 1
      BY <1>4, <1>6, <3>1
    <3>4. k # None /\ ~(i = 1 /\ r = 1) <=> k # None /\ i = more
      BY <1>2, <1>5, <1>6
    <3>5. ~(i = 1 /\ r = 1) => k # None
      BY <1>5
    <3>6. (m = n + 1 <=> i = 1) /\ (m = n + more <=> i = more)
      BY <1>2, <1>4, <3>1
    <3>7. QED
      BY <1>8, <2>2, <3>2, <3>3, <3>4, <3>5, <3>6 DEF RefusalsOf, OutcomesOf
  <2>3. CASE m \notin 1..n /\ m \notin (n + 1)..(n + more)
    <3>1. m \notin RecordsOf(c) /\ m \notin RecordsOf(c)'
      BY <1>4, <1>8, <2>3 DEF RecordsOf
    <3>2. ~(r = 1 /\ m = n + 1) /\ ~(k # None /\ m = n + more)
      BY <1>2, <1>4, <2>3
    <3>3. QED
      BY <3>1, <3>2 DEF RefusalsOf, OutcomesOf
  <2>4. QED
    BY <2>1, <2>2, <2>3
<1>10. /\ \A m \in DOMAIN made : m \in DOMAIN made' /\ made'[m] = made[m]
       /\ \A d \in Calls \ {c} : RecordsOf(d)' = RecordsOf(d)
  <2>1. \A m \in DOMAIN made : m \in DOMAIN made' /\ made'[m] = made[m]
    BY <1>2, <1>4
  <2>2. ASSUME NEW d \in Calls \ {c}
        PROVE  RecordsOf(d)' = RecordsOf(d)
    <3>1. \A m : m \in RecordsOf(d)' <=> m \in RecordsOf(d)
      BY <1>8
    <3>2. QED
      BY <3>1
  <2>3. QED
    BY <2>1, <2>2
<1>11. /\ r = 0 => RefusalsOf(c)' = RefusalsOf(c)
       /\ r = 1 => /\ RefusalsOf(c)' = RefusalsOf(c) \cup {n + 1}
                   /\ n + 1 \notin RefusalsOf(c) /\ made'[n + 1].status = "denied"
  <2>1. n + 1 \notin RefusalsOf(c)
    BY <1>4 DEF RefusalsOf, RecordsOf
  <2>2. r = 1 => made'[n + 1].status = "denied"
    BY <1>1, <1>2, <1>4
  <2>3. r = 0 => RefusalsOf(c)' = RefusalsOf(c)
    <3>1. r = 0 => \A m : m \in RefusalsOf(c)' <=> m \in RefusalsOf(c)
      BY <1>9
    <3>2. QED
      BY <3>1
  <2>4. r = 1 => RefusalsOf(c)' = RefusalsOf(c) \cup {n + 1}
    <3>1. r = 1 => \A m : m \in RefusalsOf(c)' <=> m \in RefusalsOf(c) \cup {n + 1}
      BY <1>9
    <3>2. QED
      BY <3>1
  <2>5. QED
    BY <2>1, <2>2, <2>3, <2>4
<1>12. /\ k = None => OutcomesOf(c)' = OutcomesOf(c)
       /\ k # None => /\ OutcomesOf(c)' = OutcomesOf(c) \cup {n + more}
                      /\ made'[n + more].counter = k /\ made'[n + more].life = restarts
                      /\ made'[n + more].status = StatusOf(k)
                      /\ \A m \in RefusalsOf(c)' : m < n + more
  <2>1. k # None => more \in 1..more
    BY <1>2
  <2>2. k # None => \A m \in RefusalsOf(c)' : m < n + more
    <3>1. \A m \in RefusalsOf(c)' : m \in 1..n \/ (r = 1 /\ m = n + 1)
      BY <1>4, <1>9 DEF RefusalsOf, RecordsOf
    <3>2. QED
      BY <1>2, <1>4, <3>1
  <2>3. QED
    BY <1>2, <1>4, <1>9, <2>1, <2>2
<1>13. counters' = [j \in Counter |-> counters[j] + (IF j = k THEN 1 ELSE 0)]
  <2>1. ASSUME NEW j \in Counter
        PROVE  Cardinality({i \in 1..more : records[i].counter = j}) = IF j = k THEN 1 ELSE 0
    <3>1. j # None
      BY DEF Counter, Status, None
    <3>2. \A i \in 1..more : records[i].counter = j <=> i = more /\ j = k
      BY <1>2, <1>5, <1>6, <3>1
    <3>3. {i \in 1..more : records[i].counter = j} = IF j = k THEN {more} ELSE {}
      BY <1>2, <3>1, <3>2
    <3>4. Cardinality({more}) = 1 /\ Cardinality({}) = 0
      BY FS_EmptySet, FS_Singleton
    <3>5. QED
      BY <3>3, <3>4
  <2>2. QED
    BY <1>4, <2>1
<1>14. QED
  BY <1>10, <1>11, <1>12, <1>13 DEF Adds, r, k

\* Nothing changes of what is recorded of a call, and of what it is recorded by.
Kept(d) ==
  /\ pc'[d] = pc[d] /\ req'[d] = req[d] /\ answer'[d] = answer[d]
  /\ answers'[d] = answers[d] /\ wire'[d] = wire[d] /\ result'[d] = result[d]

Untold(d) ==
  /\ RecordsOf(d)' = RecordsOf(d)
  /\ \A n \in RecordsOf(d) : made'[n] = made[n]

\* A step that adds records of call c adds none of another.
LEMMA OthersUntold ==
  ASSUME NEW c \in Calls, NEW r, NEW k, Adds(c, r, k), NEW d \in Calls \ {c}
  PROVE  Untold(d)
BY DEF Adds, Untold, RecordsOf

\* What is untold stays as it is.
LEMMA UntoldRecords ==
  ASSUME NEW d \in Calls, Untold(d)
  PROVE  RefusalsOf(d)' = RefusalsOf(d) /\ OutcomesOf(d)' = OutcomesOf(d)
<1>1. \A n \in RecordsOf(d) : made'[n] = made[n]
  BY DEF Untold
<1>2. RefusalsOf(d)' = RefusalsOf(d)
  BY <1>1 DEF Untold, RefusalsOf
<1>3. QED
  BY <1>2 DEF Untold, OutcomesOf

\* As long as no record is added, they read as before.
LEMMA RecordsFitKept ==
  ASSUME NEW d \in Calls, Untold(d), RecordsFit(d), Handler(d)' = Handler(d),
         req'[d] = req[d], result'[d] = result[d], answers'[d] = answers[d]
  PROVE  RecordsFit(d)'
<1>1. RefusalsOf(d)' = RefusalsOf(d) /\ OutcomesOf(d)' = OutcomesOf(d)
  BY UntoldRecords
<1>2. RefusalsOf(d) \subseteq RecordsOf(d) /\ OutcomesOf(d) \subseteq RecordsOf(d)
  BY DEF RefusalsOf, OutcomesOf
<1>3. \A n \in RecordsOf(d) : made'[n] = made[n]
  BY DEF Untold
<1>4. QED
  BY <1>1, <1>2, <1>3 DEF RecordsFit

\* A call nothing happens to keeps its part of the invariant.
LEMMA RecordsKept ==
  ASSUME NEW d \in Calls, Untold(d), Kept(d)
  PROVE  /\ RecordsOf(d) = {} => RecordsOf(d)' = {}
         /\ RecordsFit(d) => RecordsFit(d)'
         /\ SentFits(d) => SentFits(d)'
<1>1. /\ Handler(d)' = Handler(d) /\ result'[d] = result[d] /\ req'[d] = req[d]
      /\ answers'[d] = answers[d]
  BY DEF Kept, Handler
<1>2. RecordsFit(d) => RecordsFit(d)'
  BY <1>1, RecordsFitKept
<1>3. SentFits(d) => SentFits(d)'
  BY <1>1 DEF SentFits, Kept, Answered, Unacknowledged
<1>4. QED
  BY <1>2, <1>3 DEF Untold

\* An outcome is counted as it is recorded, once: its call had none.
LEMMA CountsKept ==
  ASSUME TrailInv, OutcomeInv, restarts' = restarts, NEW c \in Calls, NEW r,
         NEW k \in Counter \cup {None}, Adds(c, r, k), k = None \/ OutcomesOf(c) = {},
         NEW j \in Counter
  PROVE  IsFiniteSet(Counted(j)') /\ counters'[j] = Cardinality(Counted(j)')
<1>1. /\ IsFiniteSet(Counted(j)) /\ counters[j] = Cardinality(Counted(j))
      /\ Cardinality(Counted(j)) \in Nat
  BY FS_CardinalityType DEF OutcomeInv
<1>2. counters'[j] = counters[j] + (IF j = k THEN 1 ELSE 0)
  BY DEF Adds
<1>3. \A n \in DOMAIN made : n \in DOMAIN made' /\ made'[n] = made[n]
  BY DEF Adds
<1>4. ASSUME NEW d \in Calls \ {c}
      PROVE  d \in Counted(j)' <=> d \in Counted(j)
  <2>1. OutcomesOf(d)' = OutcomesOf(d) /\ OutcomesOf(d) \subseteq DOMAIN made
    BY OthersUntold, UntoldRecords DEF OutcomesOf, RecordsOf
  <2>2. QED
    BY <1>3, <2>1 DEF Counted
<1>5. CASE j # k
  <2>1. c \in Counted(j)' <=> c \in Counted(j)
    <3>1. CASE k = None
      <4>1. OutcomesOf(c)' = OutcomesOf(c) /\ OutcomesOf(c) \subseteq DOMAIN made
        BY <3>1 DEF Adds, OutcomesOf, RecordsOf
      <4>2. QED
        BY <1>3, <4>1 DEF Counted
    <3>2. CASE k # None
      <4>1. PICK n : OutcomesOf(c)' = {n} /\ made'[n].counter = k
        BY <3>2 DEF Adds
      <4>2. c \notin Counted(j)'
        BY <1>5, <4>1 DEF Counted
      <4>3. c \notin Counted(j)
        BY <3>2 DEF Counted
      <4>4. QED
        BY <4>2, <4>3
    <3>3. QED
      BY <3>1, <3>2
  <2>2. Counted(j) \subseteq Calls /\ Counted(j)' \subseteq Calls
    BY DEF Counted
  <2>3. \A d : d \in Counted(j)' <=> d \in Counted(j)
    BY <1>4, <2>1, <2>2
  <2>4. Counted(j)' = Counted(j)
    BY <2>3
  <2>5. QED
    BY <1>1, <1>2, <1>5, <2>4
<1>6. CASE j = k
  <2>1. k # None
    BY <1>6 DEF Counter, Status, None
  <2>2. PICK n : n \in OutcomesOf(c)' /\ made'[n].counter = k /\ made'[n].life = restarts
    BY <2>1 DEF Adds
  <2>3. c \in Counted(j)'
    BY <1>6, <2>2 DEF Counted
  <2>4. c \notin Counted(j)
    BY <2>1 DEF Counted
  <2>5. Counted(j) \subseteq Calls /\ Counted(j)' \subseteq Calls
    BY DEF Counted
  <2>6. \A d : d \in Counted(j)' <=> d \in Counted(j) \cup {c}
    BY <1>4, <2>3, <2>5
  <2>7. Counted(j)' = Counted(j) \cup {c}
    BY <2>6
  <2>8. QED
    BY <1>1, <1>2, <1>6, <2>4, <2>7, FS_AddElement
<1>7. QED
  BY <1>5, <1>6

\* One call takes a step.
LEMMA OneOutcome ==
  ASSUME TrailInv, OutcomeInv, restarts' = restarts, NEW c \in Calls, NEW r,
         NEW k \in Counter \cup {None}, Adds(c, r, k), k = None \/ OutcomesOf(c) = {},
         \A d \in Calls \ {c} : Kept(d),
         req'[c] # NoRequest, RecordsFit(c)', SentFits(c)'
  PROVE  OutcomeInv'
<1>1. ASSUME NEW d \in Calls
      PROVE  /\ req'[d] # NoRequest => RecordsFit(d)' /\ SentFits(d)'
             /\ req'[d] = NoRequest => RecordsOf(d)' = {}
  <2>1. CASE d = c
    BY <2>1
  <2>2. CASE d # c
    <3>1. Untold(d) /\ Kept(d)
      BY <2>2, OthersUntold
    <3>2. req'[d] = req[d]
      BY <3>1 DEF Kept
    <3>3. QED
      BY <3>1, <3>2, RecordsKept DEF OutcomeInv
  <2>3. QED
    BY <2>1, <2>2
<1>2. \A j \in Counter : IsFiniteSet(Counted(j)') /\ counters'[j] = Cardinality(Counted(j)')
  BY CountsKept
<1>3. QED
  BY <1>1, <1>2 DEF OutcomeInv

\* Steps that record nothing
LEMMA NothingAdded ==
  ASSUME TrailInv, UNCHANGED trail, NEW c \in Calls
  PROVE  Adds(c, 0, None)
<1>1. made' = made /\ counters' = counters /\ counters \in [Counter -> Nat]
  BY DEF trail, TrailInv
<1>2. \A j \in Counter : j # None
  BY DEF Counter, Status, None
<1>3. counters' = [j \in Counter |-> counters[j] + (IF j = None THEN 1 ELSE 0)]
  BY <1>1, <1>2
<1>4. QED
  BY <1>1, <1>3 DEF Adds, RecordsOf, RefusalsOf, OutcomesOf

\* A step that neither records nor ends anything
LEMMA NoOutcome ==
  ASSUME TrailInv, OutcomeInv, restarts' = restarts, UNCHANGED trail, \A d \in Calls : Kept(d)
  PROVE  OutcomeInv'
<1>1. made' = made /\ counters' = counters
  BY DEF trail
<1>2. ASSUME NEW d \in Calls
      PROVE  Untold(d) /\ Kept(d) /\ req'[d] = req[d]
  BY <1>1 DEF Untold, RecordsOf, Kept
<1>3. \A j \in Counter : Counted(j)' = Counted(j)
  BY <1>1 DEF Counted, OutcomesOf, RefusalsOf, RecordsOf
<1>4. QED
  BY <1>1, <1>2, <1>3, RecordsKept DEF OutcomeInv

-----------------------------------------------------------------------------
(* How a handler proceeds: it goes on, ends, or notes an answer of many. *)

Told(c, how) == IF Handler(c).tool THEN <<Outcome(CounterOf[how])>> ELSE <<>>

GoesOn(c) ==
  \E next \in Awaits :
    Await(c, next) /\ UNCHANGED <<trail, answers>> /\ pc[c] \notin Lasts

\* What the action of a call has come to when the call succeeds
HasActed(c) == wire[c] = "executed" \/ (Unacknowledged(c) /\ wire[c] = "sent")

Stops(c) ==
  \E how \in {"ok", "error", "denied"}, refused \in {<<>>, <<Refusal>>} :
    /\ ~Handler(c).bulk /\ Stop(c, how, refused \o Told(c, how))
    /\ refused # <<>> => how = "error" \/ (how = "ok" /\ Handler(c).kind = "diagnose")
    /\ how = "denied" => wire[c] = "none"
    /\ how = "ok" /\ Handler(c).acts => HasActed(c)

Notes(c) ==
  \E ok \in BOOLEAN, refused \in {<<>>, <<Refusal>>} :
    Handler(c).bulk /\ Push(c, ok, refused) /\ (refused # <<>> => ~ok)

Proceeds(c) == GoesOn(c) \/ Stops(c) \/ Notes(c)

\* A handler that awaits an answer has told nothing of its outcome yet; what it
\* was sent to do, it has sent with its last request.
LEMMA AtWork ==
  ASSUME CallInv, OutcomeInv, NEW c \in Calls, Awaiting(c)
  PROVE  /\ req[c] \in Request /\ req[c] # NoRequest /\ HandlerFits(Handler(c))
         /\ result[c] = "none" /\ OutcomesOf(c) = {}
         /\ RecordsFit(c) /\ SentFits(c)
         /\ ~Handler(c).bulk => RefusalsOf(c) = {}
         /\ wire[c] # "none" => pc[c] \in Lasts /\ Handler(c).acts
         /\ wire \in [Calls -> {"none", "sent", "executed"}]
<1>1. /\ req[c] \in Request /\ HandlerFits(Handler(c)) /\ AwaitsFit(c)
      /\ wire \in [Calls -> {"none", "sent", "executed"}]
  BY WorksFits DEF CallInv, CallType
<1>2. req[c] # NoRequest
  BY <1>1, ServerToolsAssumption
<1>3. RecordsFit(c) /\ SentFits(c)
  BY <1>2 DEF OutcomeInv
<1>4. result[c] = "none"
  BY <1>3 DEF SentFits, Awaiting, Awaits
<1>5. OutcomesOf(c) = {}
  BY <1>3, <1>4 DEF RecordsFit
<1>6. ~Handler(c).bulk => RefusalsOf(c) = {}
  BY <1>3, <1>4 DEF RecordsFit
<1>7. wire[c] # "none" => pc[c] \in Lasts /\ Handler(c).acts
  BY <1>1, <1>3, <1>4 DEF SentFits, AwaitsFit
<1>8. QED
  BY <1>1, <1>2, <1>3, <1>4, <1>5, <1>6, <1>7

\* What a handler changes of other calls: nothing
LEMMA HandlerKept ==
  ASSUME CallInv, NEW c \in Calls, req' = req,
         answers' = answers \/ \E a : answers' = [answers EXCEPT ![c] = a],
         \/ \E next : Await(c, next)
         \/ \E how, records : Return(c, how, records),
         NEW d \in Calls \ {c}
  PROVE  Kept(d)
BY DEF CallInv, CallType, Await, Return, Kept

\* A request goes out.
LEMMA GoesOnTells ==
  ASSUME CallInv, TrailInv, OutcomeInv, NEW c \in Calls, Awaiting(c), req' = req,
         restarts' = restarts, GoesOn(c)
  PROVE  OutcomeInv'
<1>1. PICK next \in Awaits :
        Await(c, next) /\ UNCHANGED <<trail, answers>> /\ pc[c] \notin Lasts
  BY DEF GoesOn
<1>2. /\ req[c] # NoRequest /\ result[c] = "none" /\ OutcomesOf(c) = {} /\ RecordsFit(c)
      /\ wire[c] = "none" /\ wire \in [Calls -> {"none", "sent", "executed"}]
  BY <1>1, AtWork
<1>3. Adds(c, 0, None) /\ \A d \in Calls \ {c} : Kept(d)
  BY <1>1, HandlerKept, NothingAdded
<1>4. RecordsFit(c)'
  <2>1. Untold(c) /\ result' = result /\ answers' = answers /\ Handler(c)' = Handler(c)
    BY <1>1 DEF Untold, RecordsOf, Await, trail, Handler
  <2>2. QED
    BY <1>2, <2>1, RecordsFitKept
<1>5. SentFits(c)'
  <2>1. /\ pc'[c] = next /\ answer'[c] = NoAnswer /\ result'[c] = "none"
        /\ wire'[c] = IF Handler(c).acts /\ next \in Lasts THEN "sent" ELSE "none"
        /\ Handler(c)' = Handler(c) /\ next # "done"
    BY <1>1, <1>2 DEF Await, CallInv, CallType, Lasts, Handler, Awaits
  <2>2. ~Answered(c)'
    BY <2>1 DEF Answered, NoAnswer
  <2>3. QED
    BY <2>1, <2>2 DEF SentFits
<1>6. QED
  BY <1>2, <1>3, <1>4, <1>5, OneOutcome

\* The call ends, with one record of its outcome after a refusal or none.
LEMMA StopsTells ==
  ASSUME CallInv, TrailInv, OutcomeInv, NEW c \in Calls, Awaiting(c), req' = req,
         restarts' = restarts, Stops(c)
  PROVE  OutcomeInv'
<1>1. PICK how \in {"ok", "error", "denied"}, refused \in {<<>>, <<Refusal>>} :
        /\ ~Handler(c).bulk /\ Stop(c, how, refused \o Told(c, how))
        /\ refused # <<>> => how = "error" \/ (how = "ok" /\ Handler(c).kind = "diagnose")
        /\ how = "denied" => wire[c] = "none"
        /\ how = "ok" /\ Handler(c).acts => HasActed(c)
  BY DEF Stops
<1>2. /\ req[c] # NoRequest /\ result[c] = "none" /\ OutcomesOf(c) = {} /\ RefusalsOf(c) = {}
      /\ wire[c] # "none" => pc[c] \in Lasts /\ Handler(c).acts
  BY <1>1, AtWork
<1>3. PICK told \in {<<>>} \cup {<<o>> : o \in OutcomeRecords} :
        /\ told = Told(c, how)
        /\ told = <<>> <=> ~Handler(c).tool
        /\ told # <<>> => told[1].counter = CounterOf[how] /\ CounterOf[how] \in Counter
  <2>1. /\ Outcome(CounterOf[how]) \in OutcomeRecords /\ CounterOf[how] \in Counter
        /\ Outcome(CounterOf[how]).counter = CounterOf[how]
    BY DEF CounterOf, Outcome, OutcomeRecords, Counter, Status
  <2>2. CASE Handler(c).tool
    <3>1. PICK o \in OutcomeRecords : o = Outcome(CounterOf[how])
      BY <2>1
    <3>2. Told(c, how) = <<o>> /\ <<o>> # <<>> /\ <<o>>[1].counter = CounterOf[how]
      BY <2>1, <2>2, <3>1 DEF Told
    <3>3. <<o>> \in {<<>>} \cup {<<p>> : p \in OutcomeRecords}
      OBVIOUS
    <3>4. WITNESS <<o>> \in {<<>>} \cup {<<p>> : p \in OutcomeRecords}
    <3>5. QED
      BY <2>1, <2>2, <3>2
  <2>3. CASE ~Handler(c).tool
    BY <2>3 DEF Told
  <2>4. QED
    BY <2>2, <2>3
<1>4. PICK r, k : /\ r = Len(refused) /\ k = IF told = <<>> THEN None ELSE told[1].counter
                  /\ Adds(c, r, k)
  <2>1. Record(c, refused \o told)
    BY <1>1, <1>3 DEF Stop, Return
  <2>2. QED
    BY <2>1, RecordAdds
<1>5. /\ r = IF refused = <<>> THEN 0 ELSE 1
      /\ k = IF Handler(c).tool THEN CounterOf[how] ELSE None
      /\ k \in Counter \cup {None}
      /\ \A j \in Counter : j # None
  BY <1>3, <1>4 DEF Counter, Status, None
<1>6. /\ \A d \in Calls \ {c} : Kept(d)
      /\ pc'[c] = "done" /\ result'[c] = how /\ wire' = wire /\ answers' = answers
      /\ Handler(c)' = Handler(c)
  <2>1. \A d \in Calls \ {c} : Kept(d)
    BY <1>1, HandlerKept DEF Stop
  <2>2. QED
    BY <1>1, <2>1 DEF Stop, Return, CallInv, CallType, Handler
<1>7. SentFits(c)'
  <2>1. "done" \notin Lasts /\ how # "none"
    BY DEF Lasts
  <2>2. QED
    BY <1>1, <1>2, <1>6, <2>1 DEF SentFits, HasActed, Unacknowledged
<1>8. IF Handler(c).tool
        THEN \E n : /\ OutcomesOf(c)' = {n} /\ made'[n].counter = CounterOf[how]
                    /\ made'[n].status = StatusOf(CounterOf[how])
                    /\ \A m \in RefusalsOf(c)' : m < n
        ELSE OutcomesOf(c)' = {}
  BY <1>2, <1>3, <1>4, <1>5 DEF Adds
<1>9. IF refused = <<>> THEN RefusalsOf(c)' = {}
        ELSE \E n : RefusalsOf(c)' = {n} /\ made'[n].status = "denied"
  BY <1>2, <1>4, <1>5 DEF Adds
<1>10. /\ \A n \in RefusalsOf(c)' : made'[n].status = "denied"
       /\ RefusalsOf(c)' # {} => Cardinality(RefusalsOf(c)') = 1 /\ refused # <<>>
  BY <1>9, FS_Singleton
<1>11. RecordsFit(c)'
  <2>1. (OutcomesOf(c)' # {} <=> Handler(c).tool) /\ how \notin {"none", "lost"}
    BY <1>8
  <2>2. ~Handler(c)'.bulk /\ result'[c] = how
    BY <1>1, <1>6
  <2>3. \A n \in OutcomesOf(c)' :
          /\ OutcomesOf(c)' = {n}
          /\ made'[n].counter = CounterOf[how]
          /\ made'[n].status = StatusOf(CounterOf[how])
          /\ \A m \in RefusalsOf(c)' : m < n
    BY <1>8
  <2>4. QED
    BY <1>1, <1>6, <1>10, <2>1, <2>2, <2>3 DEF RecordsFit
<1>12. QED
  BY <1>2, <1>4, <1>5, <1>6, <1>7, <1>11, OneOutcome

\* The servers a bulk tool answers for with an error, and how their number grows
Failures(results) == {i \in DOMAIN results : ~results[i].ok}

LEMMA FailuresGrow ==
  ASSUME NEW S, NEW results \in Seq([server: S, ok: BOOLEAN]),
         NEW new \in [server: S, ok: BOOLEAN], NEW more, more = Append(results, new)
  PROVE  /\ Cardinality(Failures(results)) \in Nat
         /\ Cardinality(Failures(more)) = Cardinality(Failures(results)) + (IF new.ok THEN 0 ELSE 1)
<1> DEFINE failed == {i \in DOMAIN results : ~results[i].ok}
           failing == {i \in DOMAIN more : ~more[i].ok}
           n == Len(results)
<1>1. n \in Nat /\ DOMAIN results = 1..n
  OBVIOUS
<1>2. /\ DOMAIN more = 1..(n + 1) /\ more[n + 1] = new
      /\ \A i \in 1..n : more[i] = results[i]
  OBVIOUS
<1> HIDE DEF n
<1>3. IsFiniteSet(failed)
  <2>1. IsFiniteSet(1..n)
    BY <1>1, FS_Interval
  <2>2. failed \subseteq 1..n
    BY <1>1
  <2>3. QED
    BY <2>1, <2>2, FS_Subset
<1>4. \A i : i \in 1..(n + 1) <=> i \in 1..n \/ i = n + 1
  BY <1>1
<1>5. failing = IF new.ok THEN failed ELSE failed \cup {n + 1}
  <2>1. \A i : i \in failing <=> i \in (IF new.ok THEN failed ELSE failed \cup {n + 1})
    <3>1. CASE new.ok
      BY <1>1, <1>2, <1>4, <3>1
    <3>2. CASE ~new.ok
      BY <1>1, <1>2, <1>4, <3>2
    <3>3. QED
      BY <3>1, <3>2
  <2>2. QED
    BY <2>1
<1>6. n + 1 \notin failed
  BY <1>1
<1> HIDE DEF failed, failing
<1>7. Cardinality(failed) \in Nat /\ Cardinality(failed \cup {n + 1}) = Cardinality(failed) + 1
  BY <1>3, <1>6, FS_CardinalityType, FS_AddElement
<1>8. Cardinality(failing) = Cardinality(failed) + (IF new.ok THEN 0 ELSE 1)
  <2>1. CASE new.ok
    BY <1>5, <1>7, <2>1
  <2>2. CASE ~new.ok
    BY <1>5, <1>7, <2>2
  <2>3. QED
    BY <2>1, <2>2
<1>9. QED
  BY <1>7, <1>8 DEF failed, failing, Failures

\* A refusal is one record more.
LEMMA RefusalsGrow ==
  ASSUME TrailInv, NEW c \in Calls, NEW r \in {0, 1}, NEW k, Adds(c, r, k)
  PROVE  /\ Cardinality(RefusalsOf(c)) \in Nat
         /\ Cardinality(RefusalsOf(c)') = Cardinality(RefusalsOf(c)) + r
         /\ \A n \in RefusalsOf(c)' : n \in RefusalsOf(c) \/ made'[n].status = "denied"
<1>1. IsFiniteSet(RefusalsOf(c))
  <2>1. Len(made) \in Nat /\ DOMAIN made = 1..Len(made)
    BY DEF TrailInv
  <2>2. IsFiniteSet(1..Len(made))
    BY <2>1, FS_Interval
  <2>3. RefusalsOf(c) \subseteq 1..Len(made)
    BY <2>1 DEF RefusalsOf, RecordsOf
  <2>4. QED
    BY <2>2, <2>3, FS_Subset
<1>2. Cardinality(RefusalsOf(c)) \in Nat
  BY <1>1, FS_CardinalityType
<1>3. CASE r = 0
  BY <1>2, <1>3 DEF Adds
<1>4. CASE r = 1
  <2>1. PICK n : /\ RefusalsOf(c)' = RefusalsOf(c) \cup {n}
                 /\ n \notin RefusalsOf(c) /\ made'[n].status = "denied"
    BY <1>4 DEF Adds
  <2>2. Cardinality(RefusalsOf(c) \cup {n}) = Cardinality(RefusalsOf(c)) + 1
    BY <1>1, <2>1, FS_AddElement
  <2>3. QED
    BY <1>2, <1>4, <2>1, <2>2
<1>5. QED
  BY <1>3, <1>4

\* A bulk tool notes an answer; with the last it has succeeded.
LEMMA NotesTells ==
  ASSUME CallInv, TrailInv, OutcomeInv, NEW c \in Calls, Awaiting(c), req' = req,
         restarts' = restarts, Notes(c)
  PROVE  OutcomeInv'
<1>1. PICK ok \in BOOLEAN, refused \in {<<>>, <<Refusal>>} :
        Handler(c).bulk /\ Push(c, ok, refused) /\ (refused # <<>> => ~ok)
  BY DEF Notes
<1>2. /\ req[c] # NoRequest /\ result[c] = "none" /\ OutcomesOf(c) = {} /\ RecordsFit(c)
      /\ HandlerFits(Handler(c)) /\ (wire[c] # "none" => Handler(c).acts)
      /\ wire \in [Calls -> {"none", "sent", "executed"}]
  BY AtWork
<1>3. /\ Handler(c).tool /\ ~Handler(c).acts /\ wire[c] = "none"
      /\ FirstAwait(Handler(c)) # "done"
  <2>1. FirstAwait(Handler(c)) \in {"fetch", "request", "server"}
    BY <1>2, FirstAwaitFits
  <2>2. Handler(c).tool /\ ~Handler(c).acts
    BY <1>1, <1>2 DEF HandlerFits
  <2>3. QED
    BY <1>2, <2>1, <2>2
<1> PICK success : success = Outcome("success")
  OBVIOUS
<1> DEFINE more == at[c] < Len(ServersOf(req[c]))
           new == [server |-> ServerOf(c), ok |-> ok]
<1>4. /\ answers' = [answers EXCEPT ![c] = Append(answers[c], new)]
      /\ IF more THEN /\ \E next : Await(c, next) /\ next = FirstAwait(Handler(c))
                      /\ Record(c, refused)
         ELSE Return(c, "ok", refused \o <<success>>)
  BY <1>1, <1>3 DEF Push, AddAnswer, Succeeded
<1>5. \A d \in Calls \ {c} : Kept(d)
  BY <1>4, HandlerKept
<1>6a. /\ Len(refused) \in {0, 1} /\ (Len(refused) = 1 <=> refused # <<>>)
       /\ None \in {None, "success"} /\ "success" \in {None, "success"}
  OBVIOUS
<1>6. PICK r \in {0, 1}, k \in {None, "success"} :
        /\ Adds(c, r, k) /\ (r = 1 <=> refused # <<>>) /\ (k = None <=> more)
  <2>1. CASE more
    <3>1. Record(c, refused) /\ refused \o <<>> = refused
      <4>1. Refusal \in Recorded
        BY DEF Refusal, Recorded, Status, Counter, None
      <4>2. <<>> \in Seq(Recorded) /\ <<Refusal>> \in Seq(Recorded)
        BY <4>1
      <4>3. QED
        BY <1>4, <2>1, <4>2
    <3>2. Adds(c, Len(refused), None)
      BY <3>1, RecordAdds
    <3>3. QED
      BY <1>6a, <2>1, <3>2
  <2>2. CASE ~more
    <3>1. success \in OutcomeRecords /\ success.counter = "success" /\ "success" # None
      BY DEF Outcome, OutcomeRecords, None
    <3>2. PICK told : told = <<success>>
      OBVIOUS
    <3>3. /\ told \in {<<>>} \cup {<<o>> : o \in OutcomeRecords}
          /\ Record(c, refused \o told) /\ told # <<>> /\ told[1].counter = "success"
      BY <1>4, <2>2, <3>1, <3>2 DEF Return
    <3>4. Adds(c, Len(refused), "success")
      BY <3>3, RecordAdds
    <3>5. QED
      BY <1>6a, <2>2, <3>1, <3>4
  <2>3. QED
    BY <2>1, <2>2
<1>7. k \in Counter \cup {None} /\ "success" # None
  BY DEF Counter, Status, None
<1>8. /\ ServerOf(c) \in Servers /\ answers[c] \in Seq([server: Servers, ok: BOOLEAN])
      /\ answers \in [Calls -> Seq([server: Servers, ok: BOOLEAN])]
      /\ result \in [Calls -> {"none", "ok", "denied", "error", "rate_limited", "lost"}]
      /\ pc \in [Calls -> Awaits \cup {"idle", "done"}]
  <2>1. /\ req[c] \in Request /\ Len(req[c].servers) > 0 /\ BulkFits(c)
    BY <1>1, WorksFits DEF AwaitsFit
  <2>2. answers \in [Calls -> Seq([server: Servers, ok: BOOLEAN])] /\ at[c] \in Nat \ {0}
    BY DEF CallInv, CallType
  <2>3. at[c] \in 1..Len(ServersOf(req[c]))
    BY <2>1, <2>2, ServersAsked DEF BulkFits, Expected
  <2>4. ServerOf(c) \in Servers
    BY <2>1, <2>3, ServersAsked DEF ServerOf
  <2>5. QED
    BY <2>2, <2>4 DEF CallInv, CallType
<1> HIDE DEF more
<1>9. /\ Cardinality(Failures(answers[c])) \in Nat
      /\ Cardinality(Failures(answers'[c]))
           = Cardinality(Failures(answers[c])) + (IF ok THEN 0 ELSE 1)
  <2>1. new \in [server: Servers, ok: BOOLEAN] /\ new.ok = ok
    BY <1>8
  <2>2. answers'[c] = Append(answers[c], new)
    BY <1>4, <1>8
  <2>3. PICK old, item, grown : old = answers[c] /\ item = new /\ grown = answers'[c]
    OBVIOUS
  <2>4. /\ old \in Seq([server: Servers, ok: BOOLEAN]) /\ item \in [server: Servers, ok: BOOLEAN]
        /\ grown = Append(old, item) /\ item.ok = ok
    BY <1>8, <2>1, <2>2, <2>3
  <2>5. /\ Cardinality(Failures(old)) \in Nat
        /\ Cardinality(Failures(grown)) = Cardinality(Failures(old)) + (IF item.ok THEN 0 ELSE 1)
    BY <2>4, FailuresGrow
  <2>6. QED
    BY <2>3, <2>4, <2>5
<1>10. /\ Cardinality(RefusalsOf(c)) \in Nat
       /\ Cardinality(RefusalsOf(c)') = Cardinality(RefusalsOf(c)) + r
       /\ \A n \in RefusalsOf(c)' : n \in RefusalsOf(c) \/ made'[n].status = "denied"
  BY <1>6, RefusalsGrow
<1>11. /\ wire'[c] = "none" /\ Handler(c)' = Handler(c) /\ req'[c] = req[c]
       /\ IF more THEN pc'[c] # "done" /\ result'[c] = "none"
                  ELSE pc'[c] = "done" /\ result'[c] = "ok"
  <2>1. CASE more
    <3>1. PICK next : Await(c, next) /\ next = FirstAwait(Handler(c))
      BY <1>4, <2>1
    <3>2. QED
      BY <1>2, <1>3, <1>8, <2>1, <3>1 DEF Await, Handler
  <2>2. CASE ~more
    BY <1>3, <1>4, <1>8, <2>2 DEF Return, Handler
  <2>3. QED
    BY <2>1, <2>2
<1>12. SentFits(c)'
  BY <1>3, <1>11 DEF SentFits
<1>13. IF more THEN OutcomesOf(c)' = {}
         ELSE \E n : /\ OutcomesOf(c)' = {n} /\ made'[n].counter = "success"
                     /\ made'[n].status = StatusOf("success")
                     /\ \A m \in RefusalsOf(c)' : m < n
  BY <1>2, <1>6, <1>7 DEF Adds
<1>14. \A n \in RefusalsOf(c)' : made'[n].status = "denied"
  <2>1. \A n \in RefusalsOf(c) : made'[n] = made[n]
    BY <1>6 DEF Adds, RefusalsOf, RecordsOf
  <2>2. QED
    BY <1>2, <1>10, <2>1 DEF RecordsFit
<1>15. Cardinality(RefusalsOf(c)') <= Cardinality(Failures(answers'[c]))
  <2>1. Cardinality(RefusalsOf(c)) <= Cardinality(Failures(answers[c]))
    BY <1>1, <1>2 DEF RecordsFit, Failures
  <2>2. r = 1 => ~ok
    BY <1>1, <1>6
  <2>3. PICK few, many : /\ few = Cardinality(Failures(answers[c]))
                         /\ many = Cardinality(Failures(answers'[c]))
    OBVIOUS
  <2>4. few \in Nat /\ (ok => many = few) /\ (~ok => many = few + 1)
    BY <1>9, <2>3
  <2>5. Cardinality(RefusalsOf(c)) <= few
    BY <2>1, <2>3
  <2>6. Cardinality(RefusalsOf(c)') <= many
    <3>1. CASE ok
      BY <1>6, <1>10, <2>2, <2>4, <2>5, <3>1
    <3>2. CASE ~ok
      BY <1>6, <1>10, <2>2, <2>4, <2>5, <3>2
    <3>3. QED
      BY <3>1, <3>2
  <2>7. QED
    BY <2>3, <2>6
<1>16. RecordsFit(c)'
  <2>1. CounterOf["ok"] = "success"
    BY DEF CounterOf
  <2>2. /\ \A n \in OutcomesOf(c)' :
             /\ OutcomesOf(c)' = {n}
             /\ made'[n].counter = CounterOf[result'[c]]
             /\ made'[n].status = StatusOf(made'[n].counter)
             /\ \A m \in RefusalsOf(c)' : m < n
        /\ OutcomesOf(c)' # {} <=> result'[c] \notin {"none", "lost"}
        /\ result'[c] # "error"
    BY <1>11, <1>13, <2>1
  <2>3. QED
    BY <1>1, <1>3, <1>11, <1>14, <1>15, <2>2 DEF RecordsFit, Failures
<1>17. QED
  BY <1>2, <1>5, <1>6, <1>7, <1>12, <1>16, OneOutcome

\* However a handler proceeds, it tells what becomes of its call.
LEMMA ProceedsTells ==
  ASSUME CallInv, TrailInv, OutcomeInv, NEW c \in Calls, Awaiting(c), req' = req,
         restarts' = restarts, Proceeds(c)
  PROVE  OutcomeInv'
BY GoesOnTells, StopsTells, NotesTells DEF Proceeds

\* What a handler tells reads as the outcomes the code records.
LEMMA ToldReads ==
  ASSUME NEW c
  PROVE  /\ <<>> \o Succeeded(c) = Succeeded(c) /\ Told(c, "ok") = Succeeded(c)
         /\ Told(c, "error") = Failed(c)
         /\ Handler(c).tool => <<>> \o Told(c, "denied") = <<Outcome("denied")>>
         /\ ~Handler(c).tool =>
              \A refused \in {<<>>, <<Refusal>>} : refused \o Told(c, "ok") = refused
<1>1. /\ CounterOf["ok"] = "success" /\ CounterOf["error"] = "error"
      /\ CounterOf["denied"] = "denied"
  BY DEF CounterOf
<1>2. Told(c, "ok") = Succeeded(c) /\ Told(c, "error") = Failed(c)
  BY <1>1 DEF Told, Succeeded, Failed
<1>3. ASSUME NEW o
      PROVE  <<>> \o <<o>> = <<o>> /\ <<o>> \o <<>> = <<o>>
  <2>1. <<o>> \in Seq({o}) /\ <<>> \in Seq({o})
    OBVIOUS
  <2>2. QED
    BY <2>1
<1>4. <<>> \o <<>> = <<>>
  OBVIOUS
<1>5. <<>> \o Succeeded(c) = Succeeded(c)
  BY <1>3, <1>4 DEF Succeeded
<1>6. Handler(c).tool => <<>> \o Told(c, "denied") = <<Outcome("denied")>>
  BY <1>1, <1>3 DEF Told
<1>7. ASSUME ~Handler(c).tool, NEW refused \in {<<>>, <<Refusal>>}
      PROVE  refused \o Told(c, "ok") = refused
  BY <1>3, <1>4, <1>7 DEF Told
<1>8. QED
  BY <1>2, <1>5, <1>6, <1>7

LEMMA GoOnProceeds ==
  ASSUME NEW c \in Calls, NEW next \in Awaits, GoOn(c, next), pc[c] \notin Lasts
  PROVE  Proceeds(c)
BY DEF GoOn, Proceeds, GoesOn

LEMMA FinishProceeds ==
  ASSUME NEW c \in Calls, Finish(c), Handler(c).acts => HasActed(c)
  PROVE  Proceeds(c)
<1>1. CASE Handler(c).bulk
  BY <1>1 DEF Finish, Proceeds, Notes
<1>2. CASE ~Handler(c).bulk
  <2>1. Stop(c, "ok", <<>> \o Told(c, "ok"))
    BY <1>2, ToldReads DEF Finish
  <2>2. Stops(c)
    BY <1>2, <2>1 DEF Stops
  <2>3. QED
    BY <2>2 DEF Proceeds
<1>3. QED
  BY <1>1, <1>2

LEMMA ThrowProceeds ==
  ASSUME CallInv, NEW c \in Calls, Awaiting(c), NEW records \in {<<>>, <<Refusal>>},
         Throw(c, records)
  PROVE  Proceeds(c)
<1>1. CASE Handler(c).bulk
  BY <1>1 DEF Throw, Proceeds, Notes
<1>2. CASE ~Handler(c).bulk /\ DiagnosesOutput(c)
  <2>1. Handler(c).kind = "diagnose" /\ ~Handler(c).tool /\ ~Handler(c).acts
    BY <1>2, WorksFits DEF DiagnosesOutput, HandlerFits
  <2>2. Stop(c, "ok", records \o Told(c, "ok"))
    BY <1>2, <2>1, ToldReads DEF Throw
  <2>3. Stops(c)
    BY <1>2, <2>1, <2>2 DEF Stops
  <2>4. QED
    BY <2>3 DEF Proceeds
<1>3. CASE ~Handler(c).bulk /\ ~DiagnosesOutput(c)
  <2>1. Stop(c, "error", records \o Told(c, "error"))
    BY <1>3, ToldReads DEF Throw
  <2>2. Stops(c)
    BY <1>3, <2>1 DEF Stops
  <2>3. QED
    BY <2>2 DEF Proceeds
<1>4. QED
  BY <1>1, <1>2, <1>3

\* Only what has not been sent yet is denied.
LEMMA DenialProceeds ==
  ASSUME CallInv, OutcomeInv, NEW c \in Calls, Awaiting(c), Handler(c).kind = "command",
         pc[c] \notin Lasts, Stop(c, "denied", <<Outcome("denied")>>)
  PROVE  Proceeds(c)
<1>1. ~Handler(c).bulk /\ Handler(c).tool /\ wire[c] = "none"
  BY AtWork DEF HandlerFits
<1>2. Stop(c, "denied", <<>> \o Told(c, "denied"))
  BY <1>1, ToldReads
<1>3. Stops(c)
  BY <1>1, <1>2 DEF Stops
<1>4. QED
  BY <1>3 DEF Proceeds

LEMMA NextPathProceeds ==
  ASSUME CallInv, NEW c \in Calls, pc[c] = "log", NextPath(c)
  PROVE  Proceeds(c)
<1>1. Awaiting(c) /\ pc[c] \notin Lasts /\ "log" \in Awaits /\ "access" \in Awaits
  BY DEF Awaiting, Awaits, Lasts
<1>2. CASE Await(c, "log") /\ UNCHANGED <<trail, at, answers>>
  BY <1>1, <1>2 DEF Proceeds, GoesOn
<1>3. CASE Throw(c, <<>>) \/ GoOn(c, "access")
  BY <1>1, <1>3, ThrowProceeds, GoOnProceeds
<1>4. QED
  BY <1>2, <1>3 DEF NextPath

LEMMA UnusableProceeds ==
  ASSUME CallInv, NEW c \in Calls, Awaiting(c), Unusable(c)
  PROVE  Proceeds(c)
BY ThrowProceeds DEF Unusable

\* Every handler proceeds in one of these ways, whatever it receives.
LEMMA ResumeProceeds ==
  ASSUME CallInv, OutcomeInv, NEW c \in Calls, Resume(c)
  PROVE  Awaiting(c) /\ req' = req /\ restarts' = restarts /\ Proceeds(c)
<1> USE DEF Receives, environment
<1>1. /\ pc[c] \in Awaits /\ Answered(c) /\ req' = req /\ restarts' = restarts
  BY DEF Resume, OnServer, OnFetch, OnLog, OnAccess, OnPower, OnCredentials, OnResources,
         OnLast, Awaits
<1>2. /\ Awaiting(c) /\ HandlerFits(Handler(c)) /\ AwaitsFit(c) /\ SentFits(c)
  BY <1>1, WorksFits, AtWork DEF Awaiting
<1> SUFFICES Proceeds(c)
  BY <1>1, <1>2
<1>3. CASE OnServer(c)
  <2>1. pc[c] \notin Lasts /\ {"request", "access", "resources"} \subseteq Awaits
    BY <1>3 DEF OnServer, Lasts, Awaits
  <2>2. CASE Throw(c, <<Refusal>>)
    BY <1>2, <2>2, ThrowProceeds
  <2>3. CASE GoOn(c, "request")
    BY <2>1, <2>3, GoOnProceeds
  <2>4. CASE GoOn(c, IF req[c].wait THEN "access" ELSE "resources")
    BY <2>1, <2>4, GoOnProceeds
  <2>5. CASE Handler(c).kind = "command" /\ Stop(c, "denied", <<Outcome("denied")>>)
    BY <1>2, <2>1, <2>5, DenialProceeds
  <2>6. CASE GoOn(c, IF answer[c].state.status = "suspended" THEN "request" ELSE "resources")
    BY <2>1, <2>6, GoOnProceeds
  <2>7. QED
    BY <1>3, <2>2, <2>3, <2>4, <2>5, <2>6 DEF OnServer
<1>4. CASE OnFetch(c)
  <2>1. pc[c] \notin Lasts /\ {"log", "access"} \subseteq Awaits
    BY <1>4 DEF OnFetch, Lasts, Awaits
  <2>2. Unusable(c) \/ Throw(c, <<>>) \/ GoOn(c, "log") \/ GoOn(c, "access")
    BY <1>4 DEF OnFetch
  <2>3. QED
    BY <1>2, <2>1, <2>2, UnusableProceeds, ThrowProceeds, GoOnProceeds
<1>5. CASE OnLog(c)
  <2>1. pc[c] = "log" /\ (NextPath(c) \/ Throw(c, <<>>) \/ Finish(c))
    BY <1>5 DEF OnLog
  <2>2. ~Handler(c).acts
    BY <1>2, <2>1 DEF AwaitsFit, HandlerFits
  <2>3. QED
    BY <1>2, <2>1, <2>2, NextPathProceeds, ThrowProceeds, FinishProceeds
<1>6. CASE OnAccess(c)
  <2>1. /\ pc[c] \notin Lasts /\ "power" \in Awaits
        /\ Unusable(c) \/ GoOn(c, "power")
    BY <1>6 DEF OnAccess, Lasts, Awaits
  <2>2. QED
    BY <1>2, <2>1, UnusableProceeds, GoOnProceeds
<1>7. CASE OnPower(c)
  <2>1. /\ pc[c] \notin Lasts /\ "credentials" \in Awaits
        /\ GoOn(c, "credentials") \/ Throw(c, <<>>)
    BY <1>7 DEF OnPower, Lasts, Awaits
  <2>2. QED
    BY <1>2, <2>1, ThrowProceeds, GoOnProceeds
<1>8. CASE OnCredentials(c)
  <2>1. pc[c] \notin Lasts /\ "session" \in Awaits /\ GoOn(c, "session")
    BY <1>8 DEF OnCredentials, Lasts, Awaits
  <2>2. QED
    BY <2>1, GoOnProceeds
<1>9. CASE OnResources(c)
  <2>1. pc[c] \notin Lasts /\ {"command", "fetch"} \subseteq Awaits
    BY <1>9 DEF OnResources, Lasts, Awaits
  <2>2. CASE GoOn(c, IF Handler(c).kind = "command" THEN "command" ELSE "fetch")
    BY <2>1, <2>2, GoOnProceeds
  <2>3. CASE Handler(c).kind = "command" /\ Stop(c, "denied", <<Outcome("denied")>>)
    BY <1>2, <2>1, <2>3, DenialProceeds
  <2>4. CASE Handler(c).kind = "diagnose" /\ Finish(c)
    <3>1. ~Handler(c).acts
      BY <1>2, <2>4 DEF HandlerFits
    <3>2. QED
      BY <2>4, <3>1, FinishProceeds
  <2>5. QED
    BY <1>9, <2>2, <2>3, <2>4 DEF OnResources
<1>10. CASE OnLast(c)
  <2>1. pc[c] \in Lasts /\ (Throw(c, <<>>) \/ Finish(c))
    BY <1>10 DEF OnLast, Lasts
  <2>2. ASSUME Handler(c).acts
        PROVE  HasActed(c)
    <3>1. CASE pc[c] # "session"
      BY <1>1, <1>2, <2>1, <2>2, <3>1 DEF SentFits, HasActed
    <3>2. CASE pc[c] = "session"
      <4>1. wire[c] \in {"sent", "executed"}
        BY <1>2, <2>1, <2>2, AtWork DEF SentFits
      <4>2. Handler(c).kind = "command"
        BY <1>2, <2>2, <3>2 DEF AwaitsFit, HandlerFits
      <4>3. req[c].wait
        BY <1>2, <3>2, <4>2, WorksFits DEF CommandFits
      <4>4. QED
        BY <4>1, <4>2, <4>3 DEF HasActed, Unacknowledged
    <3>3. QED
      BY <3>1, <3>2
  <2>3. QED
    BY <1>2, <2>1, <2>2, ThrowProceeds, FinishProceeds
<1>11. QED
  BY <1>1, <1>2, <1>3, <1>4, <1>5, <1>6, <1>7, <1>8, <1>9, <1>10 DEF Resume

\* So does it when a request fails.
LEMMA FailureProceeds ==
  ASSUME CallInv, NEW c \in Calls, RequestFails(c)
  PROVE  Awaiting(c) /\ req' = req /\ restarts' = restarts /\ Proceeds(c)
<1>1. Awaiting(c) /\ req' = req /\ restarts' = restarts
  BY DEF RequestFails, environment
<1>2. QED
  BY <1>1, NextPathProceeds, ThrowProceeds DEF RequestFails

-----------------------------------------------------------------------------
(* The other steps and the records. *)

\* Nothing has been recorded of a call that was not made, nor has it done
\* anything.
LEMMA NotMade ==
  ASSUME CallInv, OutcomeInv, NEW c \in Calls, pc[c] = "idle"
  PROVE  /\ req[c] = NoRequest /\ result[c] = "none" /\ wire[c] = "none"
         /\ answers[c] = <<>> /\ answer[c] = NoAnswer
         /\ RecordsOf(c) = {} /\ RefusalsOf(c) = {} /\ OutcomesOf(c) = {}
<1>1. Untouched(c)
  BY DEF CallInv, CallFits
<1>2. RecordsOf(c) = {}
  BY <1>1 DEF Untouched, OutcomeInv
<1>3. QED
  BY <1>1, <1>2 DEF Untouched, RefusalsOf, OutcomesOf

\* A call that ends before its first request is denied, or a bulk read of a
\* refused path, or has nothing to tell yet.
LEMMA FirstTold ==
  ASSUME CallInv, TrailInv, OutcomeInv, NEW c \in Calls, NEW r \in RequestsOf(c), Begin(c, r),
         NEW k \in Counter \cup {None}, Adds(c, 0, k),
         \/ /\ k = None /\ result'[c] = "none" /\ pc'[c] \in Awaits
            /\ pc'[c] \in Lasts => ~HandlerOf[r.tool].acts
         \/ /\ k = None /\ result'[c] = "error" /\ pc'[c] = "done"
            /\ HandlerOf[r.tool].bulk /\ ~r.valid
         \/ /\ result'[c] \in {"rate_limited", "denied"} /\ pc'[c] = "done"
            /\ k = CounterOf[result'[c]] /\ HandlerOf[r.tool].tool
  PROVE  OutcomeInv'
<1>1. /\ req[c] = NoRequest /\ result[c] = "none" /\ wire[c] = "none" /\ answers[c] = <<>>
      /\ RefusalsOf(c) = {} /\ OutcomesOf(c) = {}
  BY NotMade DEF Begin
<1>2. /\ r \in Request /\ r # NoRequest
  BY RequestsAreMade, ServerToolsAssumption
<1>3. /\ req' = [req EXCEPT ![c] = r] /\ restarts' = restarts /\ wire' = wire
      /\ answers' = answers
      /\ \E next : pc' = [pc EXCEPT ![c] = next]
      /\ answer' = answer \/ answer' = [answer EXCEPT ![c] = NoAnswer]
      /\ result' = result \/ \E how : result' = [result EXCEPT ![c] = how]
  BY DEF Begin, Return, environment
<1>4. \A d \in Calls \ {c} : Kept(d)
  BY <1>3 DEF CallInv, CallType, Kept
<1>5. req'[c] = r /\ Handler(c)' = HandlerOf[r.tool] /\ wire'[c] = "none" /\ answers'[c] = <<>>
  BY <1>1, <1>3 DEF CallInv, CallType, Handler
<1>6. SentFits(c)'
  <2>1. "done" \notin Awaits /\ "done" \notin Lasts
    BY DEF Awaits, Lasts
  <2>2. QED
    BY <1>5, <2>1 DEF SentFits
<1>7. /\ CounterOf["rate_limited"] = "rate_limit_hits" /\ CounterOf["denied"] = "denied"
      /\ "rate_limit_hits" # None /\ "denied" # None
  BY DEF CounterOf, None
<1>8. /\ RefusalsOf(c)' = {}
      /\ k = None => OutcomesOf(c)' = {}
      /\ k # None => \E n : /\ OutcomesOf(c)' = {n} /\ made'[n].counter = k
                            /\ made'[n].status = StatusOf(k)
  BY <1>1 DEF Adds
<1>9. Cardinality(RefusalsOf(c)') <= Cardinality({i \in DOMAIN answers'[c] : ~answers'[c][i].ok})
  <2>1. {i \in DOMAIN answers'[c] : ~answers'[c][i].ok} = {}
    BY <1>5
  <2>2. Cardinality({}) <= Cardinality({})
    BY FS_EmptySet
  <2>3. QED
    BY <1>8, <2>1, <2>2
<1>10. /\ OutcomesOf(c)' # {} <=>
            /\ result'[c] \notin {"none", "lost"}
            /\ HandlerOf[r.tool].tool
            /\ ~(HandlerOf[r.tool].bulk /\ result'[c] = "error")
       /\ \A n \in OutcomesOf(c)' :
            /\ OutcomesOf(c)' = {n}
            /\ made'[n].counter = CounterOf[result'[c]]
            /\ made'[n].status = StatusOf(made'[n].counter)
       /\ HandlerOf[r.tool].bulk /\ result'[c] = "error" => ~r.valid
  BY <1>7, <1>8
<1>11. RecordsFit(c)'
  BY <1>5, <1>8, <1>9, <1>10 DEF RecordsFit
<1>12. QED
  BY <1>1, <1>2, <1>3, <1>4, <1>5, <1>6, <1>11, OneOutcome

\* A call is made.
LEMMA BeginTells ==
  ASSUME CallInv, TrailInv, OutcomeInv, NEW c \in Calls, NEW r \in RequestsOf(c), Begin(c, r)
  PROVE  OutcomeInv'
<1> DEFINE h == HandlerOf[r.tool]
<1>1. HandlerFits(h)
  BY RequestsAreMade, HandlersFit DEF Request
<1>2. /\ pc \in [Calls -> Awaits \cup {"idle", "done"}]
      /\ result \in [Calls -> {"none", "ok", "denied", "error", "rate_limited", "lost"}]
      /\ result[c] = "none"
  BY NotMade DEF CallInv, CallType, Begin
<1>3. ASSUME NEW o \in OutcomeRecords, NEW how \in {"rate_limited", "denied"}, h.tool,
             Return(c, how, <<o>>), o.counter = CounterOf[how]
      PROVE  OutcomeInv'
  <2>1. PICK told : told = <<o>>
    OBVIOUS
  <2>2. told \in {<<>>} \cup {<<p>> : p \in OutcomeRecords} /\ told # <<>> /\ told[1] = o
    BY <2>1
  <2>3. <<>> \o told = told
    <3>1. <<o>> \in Seq({o})
      OBVIOUS
    <3>2. QED
      BY <2>1, <3>1
  <2>4. Record(c, <<>> \o told)
    BY <1>3, <2>1, <2>3 DEF Return
  <2>5. PICK k : k = CounterOf[how] /\ Adds(c, 0, k)
    BY <1>3, <2>2, <2>4, RecordAdds
  <2>6. k \in Counter \cup {None}
    BY <2>5 DEF CounterOf, Counter, Status
  <2>7. result'[c] = how /\ pc'[c] = "done"
    BY <1>2, <1>3 DEF Return
  <2>8. QED
    BY <1>3, <2>5, <2>6, <2>7, FirstTold
<1>4. CASE h.tool /\ Return(c, "rate_limited", <<RateLimitHit>>)
  <2>1. /\ RateLimitHit \in OutcomeRecords
        /\ RateLimitHit.counter = CounterOf["rate_limited"]
    BY DEF RateLimitHit, OutcomeRecords, CounterOf
  <2>2. QED
    BY <1>3, <1>4, <2>1
<1>5. CASE h.checksArg /\ ~h.bulk /\ Return(c, "denied", <<Outcome("denied")>>)
  <2>1. /\ Outcome("denied") \in OutcomeRecords /\ h.tool
        /\ Outcome("denied").counter = CounterOf["denied"]
    BY <1>1, <1>5 DEF Outcome, OutcomeRecords, CounterOf, HandlerFits
  <2>2. QED
    BY <1>3, <1>5, <2>1
<1>6. CASE h.bulk /\ ~r.valid /\ Return(c, "error", <<>>)
  <2>1. Record(c, <<>> \o <<>>)
    BY <1>6 DEF Return
  <2>2. Adds(c, 0, None)
    BY <2>1, RecordAdds
  <2>3. result'[c] = "error" /\ pc'[c] = "done"
    BY <1>2, <1>6 DEF Return
  <2>4. QED
    BY <1>6, <2>2, <2>3, FirstTold
<1>7. CASE pc' = [pc EXCEPT ![c] = FirstAwait(h)] /\ UNCHANGED <<trail, result>>
  <2>1. Adds(c, 0, None)
    BY <1>7, NothingAdded
  <2>2. /\ FirstAwait(h) \in {"fetch", "request", "server"}
        /\ FirstAwait(h) = "request" => ~h.acts
    BY <1>1, FirstAwaitFits DEF FirstAwait, HandlerFits
  <2>3. /\ pc'[c] = FirstAwait(h) /\ FirstAwait(h) \in Awaits /\ result'[c] = "none"
        /\ FirstAwait(h) \in Lasts => FirstAwait(h) = "request"
    BY <1>2, <1>7, <2>2 DEF Awaits, Lasts
  <2>4. QED
    BY <2>1, <2>2, <2>3, FirstTold
<1>8. QED
  BY <1>4, <1>5, <1>6, <1>7 DEF Begin

\* The panel answers a request that does not act, or a console session has no
\* more to say.
LEMMA PanelAnswersTells ==
  ASSUME CallInv, TrailInv, OutcomeInv, NEW c \in Calls, PanelAnswers(c)
  PROVE  OutcomeInv'
<1>1. /\ Awaiting(c) /\ (wire[c] = "sent" => pc[c] = "session")
      /\ restarts' = restarts /\ UNCHANGED trail
      /\ UNCHANGED <<pc, req, answers, wire, result>>
      /\ \E a : answer' = [answer EXCEPT ![c] = a]
  BY DEF PanelAnswers, environment
<1>2. req[c] # NoRequest /\ RecordsFit(c) /\ SentFits(c) /\ OutcomesOf(c) = {}
      /\ wire \in [Calls -> {"none", "sent", "executed"}]
  BY <1>1, AtWork
<1>3. Adds(c, 0, None)
  BY <1>1, NothingAdded
<1>4. \A d \in Calls \ {c} : Kept(d)
  BY <1>1 DEF Kept, CallInv, CallType
<1>5. Untold(c) /\ Handler(c)' = Handler(c)
  BY <1>1 DEF Untold, RecordsOf, trail, Handler
<1>6. RecordsFit(c)'
  BY <1>1, <1>2, <1>5, RecordsFitKept
<1>7. SentFits(c)'
  BY <1>1, <1>2, <1>5 DEF SentFits, Unacknowledged
<1>8. QED
  BY <1>1, <1>2, <1>3, <1>4, <1>6, <1>7, OneOutcome

\* The panel carries out what it was sent, whether the call still waits or not.
LEMMA PanelExecutesTells ==
  ASSUME CallInv, TrailInv, OutcomeInv, NEW c \in Calls, PanelExecutes(c)
  PROVE  OutcomeInv'
<1>1. /\ wire[c] = "sent" /\ restarts' = restarts /\ UNCHANGED trail
      /\ UNCHANGED <<pc, req, answers, result>>
      /\ wire' = [wire EXCEPT ![c] = "executed"]
      /\ \E a : answer' = [answer EXCEPT ![c] = a]
  BY DEF PanelExecutes, environment
<1>2. req[c] \in Request /\ req[c] # NoRequest
  BY <1>1, ServerToolsAssumption DEF CallInv, CallFits, Untouched
<1>3. RecordsFit(c) /\ SentFits(c)
  BY <1>2 DEF OutcomeInv
<1>4. Adds(c, 0, None)
  BY <1>1, NothingAdded
<1>5. \A d \in Calls \ {c} : Kept(d)
  BY <1>1 DEF Kept, CallInv, CallType
<1>6. Untold(c) /\ Handler(c)' = Handler(c)
  BY <1>1 DEF Untold, RecordsOf, trail, Handler
<1>7. RecordsFit(c)'
  BY <1>1, <1>3, <1>6, RecordsFitKept
<1>8. wire'[c] = "executed"
  BY <1>1 DEF CallInv, CallType
<1>9. SentFits(c)'
  BY <1>1, <1>3, <1>6, <1>8 DEF SentFits, Unacknowledged
<1>10. QED
  BY <1>1, <1>2, <1>4, <1>5, <1>7, <1>9, OneOutcome

\* A new process has counted nothing, and what was under way is lost untold.
LEMMA RestartTells ==
  ASSUME CallInv, TrailInv, OutcomeInv, Restart
  PROVE  OutcomeInv'
<1>1. /\ restarts' = restarts + 1 /\ made' = made /\ counters' = [j \in Counter |-> 0]
      /\ UNCHANGED <<req, answers, wire>>
      /\ pc' = [d \in Calls |-> IF Awaiting(d) THEN "done" ELSE pc[d]]
      /\ result' = [d \in Calls |-> IF Awaiting(d) THEN "lost" ELSE result[d]]
      /\ answer' = [d \in Calls |-> NoAnswer]
  BY DEF Restart
<1>2. ASSUME NEW j \in Counter
      PROVE  IsFiniteSet(Counted(j)') /\ counters'[j] = Cardinality(Counted(j)')
  <2>1. \A n \in DOMAIN made' : made'[n].life <= restarts /\ made'[n].life \in Nat
    <3>1. /\ Lives \in Seq(Nat) /\ DOMAIN Lives = DOMAIN made
          /\ \A n \in DOMAIN Lives : Lives[n] <= restarts
      BY DEF TrailInv, LogFits, Lives
    <3>2. \A n \in DOMAIN made : Lives[n] = made[n].life /\ Lives[n] \in Nat
      BY <3>1 DEF Lives
    <3>3. QED
      BY <1>1, <3>1, <3>2
  <2>2. \A n \in DOMAIN made' : made'[n].life # restarts'
    BY <1>1, <2>1 DEF TrailInv
  <2>3. Counted(j)' = {}
    BY <2>2 DEF Counted, OutcomesOf, RecordsOf
  <2>4. QED
    BY <1>1, <2>3, FS_EmptySet
<1>3. ASSUME NEW d \in Calls
      PROVE  /\ req'[d] # NoRequest => RecordsFit(d)' /\ SentFits(d)'
             /\ req'[d] = NoRequest => RecordsOf(d)' = {}
  <2>1. Untold(d) /\ Handler(d)' = Handler(d)
    BY <1>1 DEF Untold, RecordsOf, Handler
  <2>2. req'[d] = NoRequest => RecordsOf(d)' = {}
    BY <1>1, <2>1 DEF Untold, OutcomeInv
  <2>3. CASE Awaiting(d)
    <3>1. /\ OutcomesOf(d) = {} /\ RecordsFit(d) /\ SentFits(d) /\ result[d] = "none"
          /\ ~Handler(d).bulk => RefusalsOf(d) = {}
      BY <2>3, AtWork
    <3>2. result'[d] = "lost" /\ pc'[d] = "done" /\ answer'[d] = NoAnswer
      BY <1>1, <2>3
    <3>3. /\ RefusalsOf(d)' = RefusalsOf(d) /\ OutcomesOf(d)' = {}
          /\ RefusalsOf(d) \subseteq RecordsOf(d) /\ made' = made
      BY <1>1, <2>1, <3>1, UntoldRecords DEF RefusalsOf
    <3>4. RecordsFit(d)'
      BY <1>1, <2>1, <3>1, <3>2, <3>3 DEF RecordsFit
    <3>5. SentFits(d)'
      BY <3>2 DEF SentFits, Lasts
    <3>6. QED
      BY <2>2, <3>4, <3>5
  <2>4. CASE ~Awaiting(d)
    <3>1. /\ pc'[d] = pc[d] /\ result'[d] = result[d] /\ answer'[d] = NoAnswer
          /\ pc[d] \notin Lasts
      BY <1>1, <2>4 DEF Awaiting, Awaits, Lasts
    <3>2. req[d] # NoRequest => RecordsFit(d)'
      BY <1>1, <2>1, <3>1, RecordsFitKept DEF OutcomeInv
    <3>3. req[d] # NoRequest => SentFits(d)'
      BY <1>1, <2>1, <3>1 DEF OutcomeInv, SentFits, Unacknowledged
    <3>4. QED
      BY <1>1, <2>2, <3>2, <3>3
  <2>5. QED
    BY <2>3, <2>4
<1>4. QED
  BY <1>2, <1>3 DEF OutcomeInv

\* What is recorded and counted of every call fits what has become of it.
THEOREM OutcomesFit == Spec => []OutcomeInv
<1>1. Init => OutcomeInv
  <2> SUFFICES ASSUME Init
               PROVE  OutcomeInv
    OBVIOUS
  <2>1. /\ made = <<>> /\ counters = [j \in Counter |-> 0]
        /\ \A c \in Calls : req[c] = NoRequest
    BY DEF Init
  <2>2. \A c \in Calls : RecordsOf(c) = {} /\ OutcomesOf(c) = {}
    BY <2>1 DEF RecordsOf, OutcomesOf
  <2>3. \A j \in Counter : Counted(j) = {}
    BY <2>2 DEF Counted
  <2>4. QED
    BY <2>1, <2>2, <2>3, FS_EmptySet DEF OutcomeInv
<1>2. ASSUME CallInv, TrailInv, OutcomeInv, [Next]_vars
      PROVE  OutcomeInv'
  <2>1. ASSUME NEW c \in Calls, Step(c)
        PROVE  OutcomeInv'
    <3>1. CASE \E r \in RequestsOf(c) : Begin(c, r)
      BY <1>2, <3>1, BeginTells
    <3>2. CASE RequestFails(c)
      BY <1>2, <3>2, FailureProceeds, ProceedsTells
    <3>3. CASE Resume(c)
      BY <1>2, <3>3, ResumeProceeds, ProceedsTells
    <3>4. CASE PanelAnswers(c) \/ PanelExecutes(c)
      BY <1>2, <3>4, PanelAnswersTells, PanelExecutesTells
    <3>5. QED
      BY <2>1, <3>1, <3>2, <3>3, <3>4 DEF Step
  <2>2. ASSUME NEW s \in Servers, NEW state \in PanelStates, PanelChanges(s, state)
        PROVE  OutcomeInv'
    <3>1. restarts' = restarts /\ UNCHANGED trail /\ \A d \in Calls : Kept(d)
      BY <2>2 DEF PanelChanges, Kept
    <3>2. QED
      BY <1>2, <3>1, NoOutcome
  <2>3. CASE Restart
    BY <1>2, <2>3, RestartTells
  <2>4. CASE UNCHANGED vars
    <3>1. restarts' = restarts /\ UNCHANGED trail /\ \A d \in Calls : Kept(d)
      BY <2>4 DEF vars, environment, Kept
    <3>2. QED
      BY <1>2, <3>1, NoOutcome
  <2>5. QED
    BY <1>2, <2>1, <2>2, <2>3, <2>4 DEF Next
<1>3. QED
  BY <1>1, <1>2, CallsFit, TrailFits, PTL DEF Spec

\* Who reads the audit log and the counters learns what became of every call.
THEOREM OutcomesRecorded == Spec => []EveryOutcomeRecorded
<1>1. CallInv /\ OutcomeInv => EveryOutcomeRecorded
  <2> SUFFICES ASSUME CallInv, OutcomeInv
               PROVE  EveryOutcomeRecorded
    OBVIOUS
  <2>1. ASSUME NEW c \in Calls
        PROVE  /\ req[c] # NoRequest => RecordsFit(c)
               /\ pc[c] = "done" /\ wire[c] # "none" => result[c] \in {"ok", "error", "lost"}
               /\ result[c] = "ok" /\ Handler(c).acts =>
                    wire[c] = "executed" \/ (Unacknowledged(c) /\ wire[c] = "sent")
    <3>1. CASE Untouched(c)
      BY <3>1 DEF Untouched, OutcomeInv
    <3>2. CASE ~Untouched(c)
      <4>1. req[c] # NoRequest
        BY <3>2, ServerToolsAssumption DEF CallInv, CallFits
      <4>2. RecordsFit(c) /\ SentFits(c)
        BY <4>1 DEF OutcomeInv
      <4>3. QED
        BY <4>2 DEF SentFits, Lasts
    <3>3. QED
      BY <3>1, <3>2
  <2>2. QED
    BY <2>1 DEF EveryOutcomeRecorded, OutcomeInv
<1>2. QED
  BY <1>1, CallsFit, OutcomesFit, PTL
-----------------------------------------------------------------------------
(* The invariant as a whole. *)

\* What TypeOK and LogRead say of the variables that CallInv and TrailInv leave
\* out
RestFits ==
  /\ changes \in 0..MaxChanges /\ restarts \in 0..MaxRestarts
  /\ \E batch \in Batches : Follows(batch, req)
  /\ path \in [Calls -> 1..4]
  /\ \A c \in Calls : answer[c].type # "none" => pc[c] \in Awaits
  /\ DOMAIN shown = Calls
  /\ \A c \in Calls : shown[c].file \in LogFiles \cup {<<>>}
  /\ LogRead

\* There are four places to look for the console log.
LEMMA FourPaths == Len(COMMON_LOG_PATHS) = 4 /\ DOMAIN COMMON_LOG_PATHS = 1..4
BY DEF COMMON_LOG_PATHS

\* The parts are the invariant.
LEMMA Parts ==
  ASSUME CallInv, TrailInv, RestFits, OutcomeInv
  PROVE  IInv
<1> DEFINE n == Len(made)
<1>1. /\ made \in Seq(Entry) /\ n \in Nat /\ DOMAIN made = 1..n /\ Len(Lives) = n
      /\ log \in LogOf(Len(Lives)) /\ faults \in 0..MaxFaults /\ counters \in [Counter -> Nat]
  BY DEF TrailInv, Lives, LogFits
<1> HIDE DEF n
<1>2. /\ log.enabled \in BOOLEAN /\ log.stdout \in Seq(1..n)
      /\ log.file \in Seq(Seq(PieceOf(n)) \ {<<>>})
  BY <1>1 DEF LogOf
<1>3. \A i \in DOMAIN log.file : log.file[i] \in Seq([no: DOMAIN made, whole: BOOLEAN])
  <2>1. \A i \in DOMAIN log.file : log.file[i] \in Seq(PieceOf(n))
    BY <1>2
  <2>2. PieceOf(n) = [no: DOMAIN made, whole: BOOLEAN]
    BY <1>1 DEF PieceOf
  <2>3. QED
    BY <2>1, <2>2
<1>4. TypeOK
  BY <1>1, <1>2, <1>3, FourPaths DEF TypeOK, CallInv, CallType, RestFits
<1>5. QED
  BY <1>4 DEF IInv, RestFits

\* The handler goes on or ends: it has no answer then, and may be at any path.
Goes(c) ==
  /\ \E next : pc' = [pc EXCEPT ![c] = next]
  /\ answer' = [answer EXCEPT ![c] = NoAnswer]
  /\ path' = path \/ \E k \in 1..4 : path' = [path EXCEPT ![c] = k]

LEMMA GoOnGoes ==
  ASSUME NEW c \in Calls, NEW next, GoOn(c, next)
  PROVE  Goes(c)
BY DEF GoOn, Await, Goes

LEMMA StopGoes ==
  ASSUME NEW c \in Calls, NEW how, NEW records, Stop(c, how, records)
  PROVE  Goes(c)
BY DEF Stop, Return, Goes

LEMMA PushGoes ==
  ASSUME NEW c \in Calls, NEW ok, NEW records, Push(c, ok, records)
  PROVE  Goes(c)
<1>1. 1 \in 1..4
  OBVIOUS
<1>2. QED
  BY <1>1 DEF Push, Await, Return, Goes

LEMMA FinishGoes ==
  ASSUME NEW c \in Calls, Finish(c)
  PROVE  Goes(c)
BY PushGoes, StopGoes DEF Finish

LEMMA ThrowGoes ==
  ASSUME NEW c \in Calls, NEW records, Throw(c, records)
  PROVE  Goes(c)
BY PushGoes, StopGoes DEF Throw

LEMMA NextPathGoes ==
  ASSUME NEW c \in Calls, path \in [Calls -> 1..4], NextPath(c)
  PROVE  Goes(c)
<1>1. path[c] < 4 => path[c] + 1 \in 1..4
  OBVIOUS
<1>2. QED
  BY <1>1, FourPaths, GoOnGoes, ThrowGoes DEF NextPath, Await, Goes

\* The log file a handler shows is the one it has read.
LEMMA ResumeGoes ==
  ASSUME NEW c \in Calls, RestFits, Resume(c)
  PROVE  /\ Goes(c) /\ UNCHANGED <<changes, restarts, req>>
         /\ \/ shown' = shown
            \/ \E s : s.file \in LogFiles /\ shown' = [shown EXCEPT ![c] = s]
<1>1. path \in [Calls -> 1..4]
  BY DEF RestFits
<1>2. CASE OnServer(c)
  BY <1>2, ThrowGoes, GoOnGoes, StopGoes DEF OnServer, Receives, environment
<1>3. CASE OnFetch(c)
  BY <1>3, GoOnGoes, ThrowGoes DEF OnFetch, Unusable, Receives, environment
<1>4. CASE OnLog(c)
  <2>1. answer[c].file \in LogFiles
    BY <1>4 DEF OnLog, Receives, RestFits, LogRead
  <2>2. Goes(c) /\ UNCHANGED <<changes, restarts, req>>
    BY <1>1, <1>4, NextPathGoes, ThrowGoes, FinishGoes DEF OnLog, Receives, environment
  <2>3. ASSUME NEW search, NEW limit, NEW lines,
               shown' = [shown EXCEPT ![c] = [file |-> answer[c].file, search |-> search,
                                              limit |-> limit, lines |-> lines]]
        PROVE  \E s : s.file \in LogFiles /\ shown' = [shown EXCEPT ![c] = s]
    <3>1. WITNESS [file |-> answer[c].file, search |-> search, limit |-> limit,
                   lines |-> lines]
    <3>2. QED
      BY <2>1, <2>3
  <2>4. QED
    BY <1>4, <2>2, <2>3 DEF OnLog
<1>5. CASE OnAccess(c)
  BY <1>5, GoOnGoes, ThrowGoes DEF OnAccess, Unusable, Receives, environment
<1>6. CASE OnPower(c)
  BY <1>6, GoOnGoes, ThrowGoes DEF OnPower, Receives, environment
<1>7. CASE OnCredentials(c)
  BY <1>7, GoOnGoes DEF OnCredentials, Receives, environment
<1>8. CASE OnResources(c)
  BY <1>8, GoOnGoes, StopGoes, FinishGoes DEF OnResources, Receives, environment
<1>9. CASE OnLast(c)
  BY <1>9, ThrowGoes, FinishGoes DEF OnLast, Receives, environment
<1>10. QED
  BY <1>2, <1>3, <1>4, <1>5, <1>6, <1>7, <1>8, <1>9 DEF Resume

\* A step of a handler keeps the rest of the types.
LEMMA GoesKeeps ==
  ASSUME CallInv, RestFits, NEW c \in Calls, Goes(c), UNCHANGED <<changes, restarts, req>>,
         \/ shown' = shown
         \/ \E s : s.file \in LogFiles /\ shown' = [shown EXCEPT ![c] = s]
  PROVE  RestFits'
<1>1. pc \in [Calls -> Awaits \cup {"idle", "done"}] /\ answer \in [Calls -> Answer]
  BY DEF CallInv, CallType
<1>2. path' \in [Calls -> 1..4]
  BY DEF RestFits, Goes
<1>3. ASSUME NEW d \in Calls
      PROVE  /\ answer'[d].type # "none" => pc'[d] \in Awaits
             /\ pc'[d] = "log" /\ Answered(d)' => answer'[d].file \in LogFiles
  <2>1. CASE d = c
    BY <1>1, <2>1 DEF Goes, NoAnswer, Answered
  <2>2. CASE d # c
    BY <1>1, <2>2 DEF Goes, RestFits, LogRead, Answered
  <2>3. QED
    BY <2>1, <2>2
<1>4. DOMAIN shown' = Calls /\ \A d \in Calls : shown'[d].file \in LogFiles \cup {<<>>}
  BY DEF RestFits
<1>5. QED
  BY <1>2, <1>3, <1>4 DEF RestFits, Follows, LogRead

\* So does every step of a call.
LEMMA StepKeepsRest ==
  ASSUME CallInv, RestFits, NEW c \in Calls, Step(c)
  PROVE  RestFits'
<1>1. /\ pc \in [Calls -> Awaits \cup {"idle", "done"}] /\ answer \in [Calls -> Answer]
      /\ CallFits(c)
  BY DEF CallInv, CallType
<1>2. ASSUME NEW r, Begin(c, r)
      PROVE  RestFits'
  <2>1. answer[c] = NoAnswer
    BY <1>1, <1>2 DEF Begin, CallFits, Untouched
  <2>2. /\ \E next : pc' = [pc EXCEPT ![c] = next]
        /\ answer' = answer \/ answer' = [answer EXCEPT ![c] = NoAnswer]
        /\ UNCHANGED <<changes, restarts, path, shown>>
        /\ \E batch \in Batches : Follows(batch, req')
    BY <1>2 DEF Begin, Return, environment
  <2>3. ASSUME NEW d \in Calls
        PROVE  /\ answer'[d].type # "none" => pc'[d] \in Awaits
               /\ pc'[d] = "log" /\ Answered(d)' => answer'[d].file \in LogFiles
    <3>1. CASE d = c
      BY <1>1, <2>1, <2>2, <3>1 DEF NoAnswer, Answered
    <3>2. CASE d # c
      BY <1>1, <2>2, <3>2 DEF RestFits, LogRead, Answered
    <3>3. QED
      BY <3>1, <3>2
  <2>4. QED
    BY <2>2, <2>3 DEF RestFits, Follows, LogRead
<1>3. CASE RequestFails(c)
  BY <1>3, NextPathGoes, ThrowGoes, GoesKeeps DEF RequestFails, environment, RestFits
<1>4. CASE Resume(c)
  BY <1>4, ResumeGoes, GoesKeeps
<1>5. CASE PanelAnswers(c)
  <2>1. PICK a : /\ answer' = [answer EXCEPT ![c] = a]
                 /\ pc[c] = "log" => a.file \in LogFiles
    <3>1. CASE pc[c] = "log"
      <4>1. PICK a \in {FileAnswer(file) : file \in LogFiles} : answer' = [answer EXCEPT ![c] = a]
        BY <1>5, <3>1 DEF PanelAnswers
      <4>2. a.file \in LogFiles
        BY DEF FileAnswer
      <4>3. QED
        BY <4>1, <4>2
    <3>2. CASE pc[c] # "log"
      <4>1. \E a : answer' = [answer EXCEPT ![c] = a]
        BY <1>5 DEF PanelAnswers
      <4>2. QED
        BY <3>2, <4>1
    <3>3. QED
      BY <3>1, <3>2
  <2>2. Awaiting(c) /\ UNCHANGED <<changes, restarts, pc, req, path, shown>>
    BY <1>5 DEF PanelAnswers, environment
  <2>3. ASSUME NEW d \in Calls
        PROVE  /\ answer'[d].type # "none" => pc'[d] \in Awaits
               /\ pc'[d] = "log" /\ Answered(d)' => answer'[d].file \in LogFiles
    <3>1. CASE d = c
      BY <1>1, <2>1, <2>2, <3>1 DEF Awaiting
    <3>2. CASE d # c
      BY <1>1, <2>1, <2>2, <3>2 DEF RestFits, LogRead, Answered
    <3>3. QED
      BY <3>1, <3>2
  <2>4. QED
    BY <2>2, <2>3 DEF RestFits, Follows, LogRead
<1>6. CASE PanelExecutes(c)
  <2>1. /\ wire[c] = "sent" /\ UNCHANGED <<changes, restarts, pc, req, path, shown>>
        /\ answer' = [answer EXCEPT ![c] =
                      IF Awaiting(c) /\ pc[c] # "session" THEN Accepted ELSE answer[c]]
    BY <1>6 DEF PanelExecutes, environment
  <2>2. Awaiting(c) => pc[c] # "log"
    BY <1>1, <2>1 DEF CallFits, Untouched, AwaitsFit
  <2>3. ASSUME NEW d \in Calls
        PROVE  /\ answer'[d].type # "none" => pc'[d] \in Awaits
               /\ pc'[d] = "log" /\ Answered(d)' => answer'[d].file \in LogFiles
    <3>1. CASE d = c /\ Awaiting(c)
      BY <1>1, <2>1, <2>2, <3>1 DEF Awaiting
    <3>2. CASE d # c \/ ~Awaiting(c)
      BY <1>1, <2>1, <3>2 DEF RestFits, LogRead, Answered
    <3>3. QED
      BY <3>1, <3>2
  <2>4. QED
    BY <2>1, <2>3 DEF RestFits, Follows, LogRead
<1>7. QED
  BY <1>2, <1>3, <1>4, <1>5, <1>6 DEF Step

\* Every state of the tools is one the code leaves between its awaits.
THEOREM ServerToolsInvariant == Spec => []IInv
<1>1. Init => RestFits
  <2> SUFFICES ASSUME Init
               PROVE  RestFits
    OBVIOUS
  <2>1. PICK batch : batch \in Batches
    BY ServerToolsAssumption
  <2>2. Follows(batch, req)
    BY DEF Init, Follows
  <2>3. \A c \in Calls : answer[c].type = "none" /\ shown[c].file = <<>>
    BY DEF Init, NoAnswer, Nothing
  <2>4. QED
    BY <2>1, <2>2, <2>3, ServerToolsAssumption DEF Init, RestFits, LogRead, Answered
<1>2. ASSUME CallInv, RestFits, [Next]_vars
      PROVE  RestFits'
  <2>1. ASSUME NEW s \in Servers, NEW state \in PanelStates, PanelChanges(s, state)
        PROVE  RestFits'
    BY <1>2, <2>1, ServerToolsAssumption
    DEF PanelChanges, RestFits, Follows, LogRead, Answered
  <2>2. CASE Restart
    <3>1. \A c \in Calls : answer'[c].type = "none"
      BY <2>2 DEF Restart, NoAnswer
    <3>2. restarts' \in 0..MaxRestarts
      BY <1>2, <2>2, ServerToolsAssumption DEF Restart, RestFits
    <3>3. QED
      BY <1>2, <2>2, <3>1, <3>2 DEF Restart, RestFits, Follows, LogRead, Answered
  <2>3. CASE UNCHANGED vars
    BY <1>2, <2>3 DEF vars, environment, RestFits, Follows, LogRead, Answered
  <2>4. QED
    BY <1>2, <2>1, <2>2, <2>3, StepKeepsRest DEF Next
<1>3. CallInv /\ TrailInv /\ RestFits /\ OutcomeInv => IInv
  BY Parts
<1>4. QED
  BY <1>1, <1>2, <1>3, CallsFit, TrailFits, OutcomesFit, PTL DEF Spec
-----------------------------------------------------------------------------
(* What is shown of a log. *)

\* The lines a handler takes from a log are the last ones read, or of these the
\* first that match.
LEMMA TakenAreTheLastRead ==
  ASSUME NEW file \in Seq(Line), NEW search \in {"none", "match", "invert"},
         NEW limit \in Nat \ {0}, NEW tail,
         tail = TailLines(Stripped(file, Truncated(file, FileMaxReadBytes)), ConsoleMaxLines),
         NEW lines, lines = SearchLines(file, tail, search, limit)
  PROVE  TheLastRead(file, search, limit, lines)
<1> DEFINE whole(i) == StartOf(file, i) + file[i].bytes <= FileMaxReadBytes
           read == {i \in DOMAIN file :
                      /\ file[i].bytes > 0 /\ StartOf(file, i) < FileMaxReadBytes
                      /\ ~(file[i].codes /\ whole(i))}
           recent == {i \in read : Cardinality({j \in read : j > i}) < ConsoleMaxLines}
           wanted == CASE search = "none"   -> recent
                       [] search = "match"  -> {i \in recent : whole(i) /\ file[i].hit}
                       [] search = "invert" -> {i \in recent : ~(whole(i) /\ file[i].hit)}
           first == {i \in wanted : search = "none"
                                      \/ Cardinality({j \in wanted : j < i}) < limit}
<1>1. PICK kept : kept = Stripped(file, Truncated(file, FileMaxReadBytes))
  OBVIOUS
<1>2. /\ {FileMaxReadBytes, ConsoleMaxLines} \subseteq Nat \ {0}
      /\ kept \in Seq(Nat) /\ DOMAIN kept = DOMAIN file
      /\ \A i \in DOMAIN file :
           /\ i \in WithText(kept) <=>
                /\ file[i].bytes > 0 /\ StartOf(file, i) < FileMaxReadBytes
                /\ ~(file[i].codes /\ whole(i))
           /\ i \in WithText(kept) => (kept[i] = file[i].bytes <=> whole(i))
  BY <1>1, ServerToolsAssumption, WhatIsLeft
<1>3. WithText(kept) = read
  <2>1. \A i : i \in WithText(kept) <=> i \in read
    BY <1>2 DEF WithText
  <2>2. QED
    BY <2>1
<1>4. \A i \in read : i \in DOMAIN file /\ (kept[i] = file[i].bytes <=> whole(i))
  BY <1>2, <1>3
<1> HIDE DEF read
<1>5. /\ tail \in Seq(Pair) /\ Ordered(tail)
      /\ \A k \in DOMAIN tail : \E i \in read : tail[k] = <<i, kept[i]>>
      /\ Numbers(tail) = LastOf(read, ConsoleMaxLines)
  BY <1>1, <1>2, <1>3, TailLinesAreTheLast
<1>6. Numbers(tail) = recent
  BY <1>5 DEF LastOf
<1>7. \A k \in DOMAIN tail : /\ tail[k][1] \in read /\ tail[k][1] \in recent
                             /\ tail[k][2] = file[tail[k][1]].bytes <=> whole(tail[k][1])
  <2> HIDE DEF recent, whole
  <2> SUFFICES ASSUME NEW k \in DOMAIN tail
               PROVE  /\ tail[k][1] \in read /\ tail[k][1] \in recent
                      /\ tail[k][2] = file[tail[k][1]].bytes <=> whole(tail[k][1])
    OBVIOUS
  <2>1. PICK i \in read : tail[k] = <<i, kept[i]>>
    BY <1>5
  <2>2. tail[k][1] = i /\ tail[k][2] = kept[i]
    BY <2>1
  <2>3. tail[k][1] \in recent
    BY <1>6 DEF Numbers
  <2>4. QED
    BY <1>4, <2>2, <2>3
<1>8. \A i \in recent : \E k \in DOMAIN tail : tail[k][1] = i
  BY <1>6 DEF Numbers
<1> HIDE DEF recent, whole
<1>9. /\ lines \in Seq(Pair) /\ Ordered(lines)
      /\ \A k \in DOMAIN lines : \E i \in DOMAIN tail : lines[k] = tail[i]
      /\ Numbers(lines) = first
  <2>1. CASE search = "none"
    <3>1. lines = tail
      BY <2>1 DEF SearchLines
    <3>2. first = recent
      BY <2>1
    <3>3. QED
      BY <1>5, <1>6, <3>1, <3>2
  <2>2. CASE search # "none"
    <3>1. /\ lines \in Seq(Pair) /\ Ordered(lines)
          /\ \A k \in DOMAIN lines : \E i \in DOMAIN tail : lines[k] = tail[i]
          /\ Numbers(lines) = FirstOf(Included(file, tail, search), limit)
      <4>1. AreLines(lines, tail, FirstOf(Included(file, tail, search), limit))
        BY <1>2, <1>5, <2>2, SearchLinesAreTheFirst
      <4>2. QED
        BY <4>1 DEF AreLines
    <3>2. \A k \in DOMAIN tail :
            Matches(file, tail[k]) <=> whole(tail[k][1]) /\ file[tail[k][1]].hit
      BY <1>7 DEF Matches
    <3>3. \A k \in DOMAIN tail : Matches(file, tail[k]) \in BOOLEAN
      BY DEF Matches
    <3>4. CASE search = "match"
      <4>1. \A k \in DOMAIN tail : (Matches(file, tail[k]) # (search = "invert"))
                                     <=> Matches(file, tail[k])
        BY <3>3, <3>4
      <4>2. wanted = {i \in recent : whole(i) /\ file[i].hit}
        BY <3>4
      <4>3. \A i : i \in Included(file, tail, search) <=> i \in wanted
        BY <1>7, <1>8, <3>2, <4>1, <4>2 DEF Included
      <4>4. Included(file, tail, search) = wanted
        BY <4>3
      <4>5. QED
        BY <2>2, <3>1, <4>4 DEF FirstOf
    <3>5. CASE search = "invert"
      <4>1. \A k \in DOMAIN tail : (Matches(file, tail[k]) # (search = "invert"))
                                     <=> ~Matches(file, tail[k])
        BY <3>3, <3>5
      <4>2. wanted = {i \in recent : ~(whole(i) /\ file[i].hit)}
        BY <3>5
      <4>3. \A i : i \in Included(file, tail, search) <=> i \in wanted
        BY <1>7, <1>8, <3>2, <4>1, <4>2 DEF Included
      <4>4. Included(file, tail, search) = wanted
        BY <4>3
      <4>5. QED
        BY <2>2, <3>1, <4>4 DEF FirstOf
    <3>6. QED
      BY <2>2, <3>4, <3>5
  <2>3. QED
    BY <2>1, <2>2
<1>10. {lines[k][1] : k \in DOMAIN lines} = first
  BY <1>9 DEF Numbers
<1>11. Increasing([k \in DOMAIN lines |-> lines[k][1]])
  BY <1>9 DEF Increasing, Ordered
<1>12. \A k \in DOMAIN lines : lines[k][2] = file[lines[k][1]].bytes <=> whole(lines[k][1])
  BY <1>7, <1>9
<1>13. QED
  BY <1>10, <1>11, <1>12 DEF TheLastRead, read, recent, whole

\* Only a log file that was read changes what a handler shows.
LEMMA ShownFromLog ==
  ASSUME NEW c \in Calls, Step(c)
  PROVE  shown' = shown \/ OnLog(c)
<1>1. ASSUME NEW r, Begin(c, r)
      PROVE  shown' = shown
  BY <1>1 DEF Begin
<1>2. CASE RequestFails(c)
  BY <1>2 DEF RequestFails
<1>3. CASE PanelAnswers(c)
  BY <1>3 DEF PanelAnswers
<1>4. CASE PanelExecutes(c)
  BY <1>4 DEF PanelExecutes
<1>5. CASE Resume(c)
  BY <1>5 DEF Resume, OnServer, OnFetch, OnAccess, OnPower, OnCredentials, OnResources, OnLast
<1>6. QED
  BY <1>1, <1>2, <1>3, <1>4, <1>5 DEF Step

\* A log file that was read is shown as it should be.
LEMMA OnLogShows ==
  ASSUME IInv, CallInv, LinesAreTheLastRead, NEW c \in Calls, OnLog(c)
  PROVE  LinesAreTheLastRead'
<1>1. PICK file : file = answer[c].file
  OBVIOUS
<1>2. PICK tail : tail = TailLines(Stripped(file, Truncated(file, FileMaxReadBytes)),
                                   ConsoleMaxLines)
  OBVIOUS
<1>3. PICK search, limit : search = Search(c) /\ limit = MatchLimit(c)
  OBVIOUS
<1>4. PICK lines : lines = SearchLines(file, tail, search, limit)
  OBVIOUS
<1>5. file \in Seq(Line)
  <2>1. file \in LogFiles
    BY <1>1 DEF OnLog, Receives, IInv, LogRead
  <2>2. QED
    BY <2>1, ServerToolsAssumption
<1>6. search \in {"none", "match", "invert", "invalid"} /\ limit \in Nat \ {0}
  <2>1. req[c] \in Request
    BY DEF OnLog, Receives, CallInv, CallFits, Untouched
  <2>2. search \in {"none", "match", "invert", "invalid"}
    BY <1>3, <2>1 DEF Request, Search
  <2>3. QED
    BY <1>3, <2>2, ServerToolsAssumption DEF MatchLimit
<1>7. search # "invalid" => TheLastRead(file, search, limit, lines)
  BY <1>2, <1>4, <1>5, <1>6, TakenAreTheLastRead
<1>8. \/ shown' = shown
      \/ /\ search # "invalid"
         /\ shown' = [shown EXCEPT ![c] = [file |-> file, search |-> search,
                                           limit |-> limit, lines |-> lines]]
  BY <1>1, <1>2, <1>3, <1>4 DEF OnLog
<1>9. DOMAIN shown = Calls
  BY DEF IInv, TypeOK
<1>10. ASSUME NEW d \in Calls, shown'[d] # Nothing
       PROVE  TheLastRead(shown'[d].file, shown'[d].search, shown'[d].limit, shown'[d].lines)
  <2>1. CASE shown'[d] = shown[d]
    BY <1>10, <2>1 DEF LinesAreTheLastRead
  <2>2. CASE /\ search # "invalid"
             /\ shown'[d] = [file |-> file, search |-> search, limit |-> limit,
                             lines |-> lines]
    BY <1>7, <2>2
  <2>3. QED
    BY <1>8, <1>9, <2>1, <2>2
<1>11. QED
  BY <1>10 DEF LinesAreTheLastRead

\* Whoever reads the console log is shown its last lines, as far as it was read,
\* or the first of them that match.
THEOREM LinesShown == Spec => []LinesAreTheLastRead
<1>1. Init => LinesAreTheLastRead
  BY DEF Init, LinesAreTheLastRead
<1>2. IInv /\ CallInv /\ LinesAreTheLastRead /\ [Next]_vars => LinesAreTheLastRead'
  <2> SUFFICES ASSUME IInv, CallInv, LinesAreTheLastRead, [Next]_vars
               PROVE  LinesAreTheLastRead'
    OBVIOUS
  <2>1. CASE shown' = shown
    BY <2>1 DEF LinesAreTheLastRead
  <2>2. shown' = shown \/ \E c \in Calls : OnLog(c)
    <3>1. ASSUME NEW s \in Servers, NEW state \in PanelStates, PanelChanges(s, state)
          PROVE  shown' = shown
      BY <3>1 DEF PanelChanges
    <3>2. CASE Restart
      BY <3>2 DEF Restart
    <3>3. CASE UNCHANGED vars
      BY <3>3 DEF vars
    <3>4. QED
      BY <3>1, <3>2, <3>3, ShownFromLog DEF Next
  <2>3. QED
    BY <2>1, <2>2, OnLogShows
<1>3. QED
  BY <1>1, <1>2, ServerToolsInvariant, CallsFit, PTL DEF Spec
-----------------------------------------------------------------------------
(* Why a call returns. *)

\* A handler at work is at one of the servers it was given.
LEMMA AtAServer ==
  ASSUME CallInv, NEW c \in Calls, Awaiting(c)
  PROVE  Expected(c) \in Nat /\ at[c] \in 1..Expected(c)
<1>1. at[c] \in Nat \ {0}
  BY DEF CallInv, CallType
<1>2. req[c] \in Request /\ Len(req[c].servers) > 0
  BY WorksFits DEF AwaitsFit
<1>3. Expected(c) \in Nat \ {0}
  BY <1>2, ServersAsked DEF Expected
<1>4. Handler(c).bulk => at[c] <= Expected(c)
  BY WorksFits DEF BulkFits
<1>5. ~Handler(c).bulk => at[c] = 1
  BY WorksFits
<1>6. QED
  BY <1>1, <1>3, <1>4, <1>5

\* Of one server no more requests are ahead than a handler asks for one.
LEMMA StageFits ==
  ASSUME NEW awaited, NEW k \in 1..4
  PROVE  Stage(awaited, k) \in 1..PerServer
BY DEF Stage, PerServer

\* A handler at work has a request ahead, and no more than its servers need.
LEMMA AheadFits ==
  ASSUME CallInv, path \in [Calls -> 1..4], NEW c \in Calls
  PROVE  /\ Ahead(c) \in Nat
         /\ Awaiting(c) => Ahead(c) \in 1..(PerServer * Expected(c))
<1>1. CASE Awaiting(c)
  <2>1. Expected(c) \in Nat /\ at[c] \in 1..Expected(c)
    BY <1>1, AtAServer
  <2>2. Stage(pc[c], path[c]) \in 1..PerServer
    BY StageFits
  <2>3. QED
    BY <1>1, <2>1, <2>2 DEF Ahead, PerServer
<1>2. CASE ~Awaiting(c)
  BY <1>2 DEF Ahead
<1>3. QED
  BY <1>1, <1>2

\* The handler ends, has fewer requests ahead about its server, or turns to the
\* next of its servers.
Nearer(c, next) ==
  \/ next = "done"
  \/ at' = at /\ Stage(next, path'[c]) < Stage(pc[c], path[c])
  \/ at[c] < Expected(c) /\ at' = [at EXCEPT ![c] = at[c] + 1]

ComesNearer(c) ==
  /\ \E next : pc' = [pc EXCEPT ![c] = next] /\ Nearer(c, next)
  /\ at' = at \/ at' = [at EXCEPT ![c] = at[c] + 1]
  /\ path' = path \/ \E k \in 1..4 : path' = [path EXCEPT ![c] = k]

\* A call has as many requests ahead as before when it is where it was.
LEMMA AheadKept ==
  ASSUME NEW d \in Calls, pc'[d] = pc[d], at'[d] = at[d], path'[d] = path[d], req'[d] = req[d]
  PROVE  Ahead(d)' = Ahead(d)
BY DEF Ahead, Awaiting, Expected

\* Then the call has fewer requests ahead, and every other as many as before.
LEMMA NearerLowers ==
  ASSUME CallInv, path \in [Calls -> 1..4], req' = req, NEW c \in Calls, Awaiting(c),
         ComesNearer(c)
  PROVE  Ahead(c)' \in 0..(Ahead(c) - 1) /\ \A d \in Calls \ {c} : Ahead(d)' = Ahead(d)
<1>1. pc \in [Calls -> Awaits \cup {"idle", "done"}] /\ at \in [Calls -> Nat \ {0}]
  BY DEF CallInv, CallType
<1>2. PICK next : pc' = [pc EXCEPT ![c] = next] /\ Nearer(c, next)
  BY DEF ComesNearer
<1>3. Ahead(c)' \in 0..(Ahead(c) - 1)
  <2>1. /\ Expected(c) \in Nat /\ at[c] \in 1..Expected(c)
        /\ Ahead(c) = PerServer * (Expected(c) - at[c]) + Stage(pc[c], path[c])
    BY AtAServer DEF Ahead
  <2>2. pc'[c] = next /\ Expected(c)' = Expected(c)
    BY <1>1, <1>2 DEF Expected
  <2>3. Stage(pc[c], path[c]) \in 1..PerServer
    BY StageFits
  <2>4. path'[c] \in 1..4
    BY DEF ComesNearer
  <2>5. Stage(next, path'[c]) \in 1..PerServer
    BY <2>4, StageFits
  <2>6. \/ Ahead(c)' = 0
        \/ Ahead(c)' = PerServer * (Expected(c) - at'[c]) + Stage(next, path'[c])
    BY <2>2 DEF Ahead
  <2>7. CASE next = "done"
    <3>1. Ahead(c)' = 0
      BY <2>2, <2>7 DEF Ahead, Awaiting, Awaits
    <3>2. QED
      BY <2>1, <2>3, <3>1 DEF PerServer
  <2>8. CASE at' = at /\ Stage(next, path'[c]) < Stage(pc[c], path[c])
    BY <2>1, <2>3, <2>5, <2>6, <2>8 DEF PerServer
  <2>9. CASE at[c] < Expected(c) /\ at' = [at EXCEPT ![c] = at[c] + 1]
    <3>1. at'[c] = at[c] + 1
      BY <1>1, <2>9
    <3>2. QED
      BY <2>1, <2>3, <2>5, <2>6, <2>9, <3>1 DEF PerServer
  <2>10. QED
    BY <1>2, <2>7, <2>8, <2>9 DEF Nearer
<1>4. ASSUME NEW d \in Calls \ {c}
      PROVE  Ahead(d)' = Ahead(d)
  <2>1. pc'[d] = pc[d]
    BY <1>1, <1>2
  <2>2. at'[d] = at[d] /\ path'[d] = path[d]
    BY <1>1 DEF ComesNearer
  <2>3. QED
    BY <2>1, <2>2, AheadKept
<1>5. QED
  BY <1>3, <1>4

\* A request leads to one later in the order.
LEMMA GoOnNearer ==
  ASSUME NEW c \in Calls, NEW next, GoOn(c, next),
         Stage(next, path[c]) < Stage(pc[c], path[c])
  PROVE  ComesNearer(c)
<1>1. pc' = [pc EXCEPT ![c] = next] /\ at' = at /\ path' = path
  BY DEF GoOn, Await
<1>2. Nearer(c, next)
  BY <1>1 DEF Nearer
<1>3. QED
  BY <1>1, <1>2 DEF ComesNearer

LEMMA StopNearer ==
  ASSUME NEW c \in Calls, NEW how, NEW records, Stop(c, how, records)
  PROVE  ComesNearer(c)
BY DEF Stop, Return, ComesNearer, Nearer

LEMMA PushNearer ==
  ASSUME NEW c \in Calls, NEW ok, NEW records, Push(c, ok, records)
  PROVE  ComesNearer(c)
<1>1. 1 \in 1..4
  OBVIOUS
<1>2. CASE at[c] < Expected(c)
  <2>1. /\ pc' = [pc EXCEPT ![c] = FirstAwait(Handler(c))]
        /\ at' = [at EXCEPT ![c] = at[c] + 1] /\ path' = [path EXCEPT ![c] = 1]
    BY <1>2 DEF Push, Await, Expected
  <2>2. Nearer(c, FirstAwait(Handler(c)))
    BY <1>2, <2>1 DEF Nearer
  <2>3. QED
    BY <1>1, <2>1, <2>2 DEF ComesNearer
<1>3. CASE ~(at[c] < Expected(c))
  BY <1>3 DEF Push, Return, Expected, ComesNearer, Nearer
<1>4. QED
  BY <1>2, <1>3

LEMMA FinishNearer ==
  ASSUME NEW c \in Calls, Finish(c)
  PROVE  ComesNearer(c)
BY PushNearer, StopNearer DEF Finish

LEMMA ThrowNearer ==
  ASSUME NEW c \in Calls, NEW records, Throw(c, records)
  PROVE  ComesNearer(c)
BY PushNearer, StopNearer DEF Throw

\* There are only so many paths to try.
LEMMA NextPathNearer ==
  ASSUME NEW c \in Calls, path \in [Calls -> 1..4], pc[c] = "log", NextPath(c)
  PROVE  ComesNearer(c)
<1>1. path[c] \in 1..4 /\ Stage(pc[c], path[c]) = 9 - path[c]
  BY DEF Stage
<1>2. CASE path[c] < 4
  <2>1. /\ pc' = [pc EXCEPT ![c] = "log"] /\ at' = at
        /\ path' = [path EXCEPT ![c] = path[c] + 1]
    BY <1>2, FourPaths DEF NextPath, Await
  <2>2. path[c] + 1 \in 1..4 /\ path'[c] = path[c] + 1
    BY <1>1, <1>2, <2>1
  <2>3. Stage("log", path'[c]) < Stage(pc[c], path[c])
    BY <1>1, <2>2 DEF Stage
  <2>4. Nearer(c, "log")
    BY <2>1, <2>3 DEF Nearer
  <2>5. QED
    BY <2>1, <2>2, <2>4 DEF ComesNearer
<1>3. CASE ~(path[c] < 4)
  <2>1. (\E records : Throw(c, records)) \/ GoOn(c, "access")
    BY <1>3, FourPaths DEF NextPath
  <2>2. Stage("access", path[c]) < Stage(pc[c], path[c])
    BY <1>1 DEF Stage
  <2>3. QED
    BY <2>1, <2>2, ThrowNearer, GoOnNearer
<1>4. QED
  BY <1>2, <1>3

\* Whatever its answer, a handler comes nearer its end.
LEMMA ResumeNearer ==
  ASSUME NEW c \in Calls, path \in [Calls -> 1..4], Resume(c)
  PROVE  Awaiting(c) /\ ComesNearer(c) /\ req' = req
<1>1. path[c] \in 1..4
  OBVIOUS
<1>2. CASE OnServer(c)
  <2>1. \A next \in {"request", "access", "resources"} :
          Stage(next, path[c]) < Stage("server", path[c])
    BY <1>1 DEF Stage
  <2>2. \/ \E records : Throw(c, records)
        \/ \E next \in {"request", "access", "resources"} : GoOn(c, next)
        \/ \E how, records : Stop(c, how, records)
    BY <1>2 DEF OnServer
  <2>3. QED
    BY <1>2, <2>1, <2>2, ThrowNearer, GoOnNearer, StopNearer
    DEF OnServer, Receives, Awaiting, Awaits
<1>3. CASE OnFetch(c)
  <2>1. \A next \in {"log", "access"} : Stage(next, path[c]) < Stage("fetch", path[c])
    BY <1>1 DEF Stage
  <2>2. QED
    BY <1>3, <2>1, ThrowNearer, GoOnNearer
    DEF OnFetch, Unusable, Receives, Awaiting, Awaits
<1>4. CASE OnLog(c)
  <2>1. pc[c] = "log" /\ req' = req
    BY <1>4 DEF OnLog, Receives
  <2>2. NextPath(c) \/ Throw(c, <<>>) \/ Finish(c)
    BY <1>4 DEF OnLog
  <2>3. QED
    BY <2>1, <2>2, NextPathNearer, ThrowNearer, FinishNearer DEF Awaiting, Awaits
<1>5. CASE OnAccess(c)
  <2>1. Stage("power", path[c]) < Stage("access", path[c])
    BY <1>1 DEF Stage
  <2>2. QED
    BY <1>5, <2>1, ThrowNearer, GoOnNearer
    DEF OnAccess, Unusable, Receives, Awaiting, Awaits
<1>6. CASE OnPower(c)
  <2>1. Stage("credentials", path[c]) < Stage("power", path[c])
    BY <1>1 DEF Stage
  <2>2. QED
    BY <1>6, <2>1, ThrowNearer, GoOnNearer DEF OnPower, Receives, Awaiting, Awaits
<1>7. CASE OnCredentials(c)
  <2>1. Stage("session", path[c]) < Stage("credentials", path[c])
    BY <1>1 DEF Stage
  <2>2. QED
    BY <1>7, <2>1, GoOnNearer DEF OnCredentials, Receives, Awaiting, Awaits
<1>8. CASE OnResources(c)
  <2>1. \A next \in {"command", "fetch"} : Stage(next, path[c]) < Stage("resources", path[c])
    BY <1>1 DEF Stage
  <2>2. \/ \E next \in {"command", "fetch"} : GoOn(c, next)
        \/ \E how, records : Stop(c, how, records)
        \/ Finish(c)
    BY <1>8 DEF OnResources
  <2>3. QED
    BY <1>8, <2>1, <2>2, GoOnNearer, StopNearer, FinishNearer
    DEF OnResources, Receives, Awaiting, Awaits
<1>9. CASE OnLast(c)
  BY <1>9, ThrowNearer, FinishNearer DEF OnLast, Receives, Awaiting, Awaits
<1>10. QED
  BY <1>2, <1>3, <1>4, <1>5, <1>6, <1>7, <1>8, <1>9 DEF Resume

\* So does one whose request fails.
LEMMA FailureNearer ==
  ASSUME NEW c \in Calls, path \in [Calls -> 1..4], RequestFails(c)
  PROVE  Awaiting(c) /\ ComesNearer(c) /\ req' = req
BY NextPathNearer, ThrowNearer DEF RequestFails

\* Every step: a call at work that goes on comes nearer, and no step takes a
\* call that was made further away.
LEMMA StepNears ==
  ASSUME CallInv, path \in [Calls -> 1..4], [Next]_vars, NEW c \in Calls
  PROVE  Nears(c)
<1>1. /\ pc \in [Calls -> Awaits \cup {"idle", "done"}]
      /\ req \in [Calls -> Request \cup {NoRequest}]
  BY DEF CallInv, CallType
<1>2. Ahead(c) \in Nat
  BY AheadFits
<1>3. Resume(c) \/ RequestFails(c) => Ahead(c)' < Ahead(c)
  BY <1>2, ResumeNearer, FailureNearer, NearerLowers
<1>4. ASSUME pc[c] # "idle"
      PROVE  Ahead(c)' <= Ahead(c)
  <2>1. ASSUME pc'[c] = pc[c], at'[c] = at[c], path'[c] = path[c], req'[c] = req[c]
        PROVE  Ahead(c)' <= Ahead(c)
    BY <1>2, <2>1, AheadKept
  <2>2. ASSUME NEW d \in Calls, NEW r, Begin(d, r)
        PROVE  Ahead(c)' <= Ahead(c)
    <3>1. /\ d # c /\ \E next : pc' = [pc EXCEPT ![d] = next]
          /\ req' = [req EXCEPT ![d] = r] /\ at' = at /\ path' = path
      BY <1>4, <2>2 DEF Begin, Return
    <3>2. QED
      BY <1>1, <2>1, <3>1
  <2>3. ASSUME NEW d \in Calls, Resume(d) \/ RequestFails(d)
        PROVE  Ahead(c)' <= Ahead(c)
    <3>1. Ahead(d)' \in 0..(Ahead(d) - 1) /\ \A e \in Calls \ {d} : Ahead(e)' = Ahead(e)
      BY <2>3, ResumeNearer, FailureNearer, NearerLowers
    <3>2. CASE c # d
      BY <1>2, <3>1, <3>2
    <3>3. CASE c = d
      BY <1>2, <3>1, <3>3
    <3>4. QED
      BY <3>2, <3>3
  <2>4. ASSUME NEW d \in Calls, PanelAnswers(d) \/ PanelExecutes(d)
        PROVE  Ahead(c)' <= Ahead(c)
    BY <2>1, <2>4 DEF PanelAnswers, PanelExecutes
  <2>5. ASSUME NEW s, NEW state, PanelChanges(s, state)
        PROVE  Ahead(c)' <= Ahead(c)
    BY <2>1, <2>5 DEF PanelChanges
  <2>6. CASE Restart
    <3>1. Ahead(c)' = 0
      BY <1>1, <2>6 DEF Restart, Ahead, Awaiting, Awaits
    <3>2. QED
      BY <1>2, <3>1
  <2>7. CASE UNCHANGED vars
    BY <2>1, <2>7 DEF vars
  <2>8. QED
    BY <2>2, <2>3, <2>4, <2>5, <2>6, <2>7 DEF Next, Step
<1>5. QED
  BY <1>3, <1>4 DEF Nears

\* Each answer and each failure of a request brings the end of its call nearer,
\* and nothing takes it further away; no call has more than eleven requests
\* ahead for each of its servers, so that is how many it asks at most.
THEOREM CallsComeToAnEnd == Spec => []AheadBounded /\ EveryAnswerBringsTheEnd
<1>1. IInv => CallInv /\ path \in [Calls -> 1..4]
  BY FourPaths DEF IInv, TypeOK
<1>2. IInv => AheadBounded
  BY <1>1, AheadFits DEF AheadBounded
<1>3. IInv /\ [Next]_vars => [\A c \in Calls : Nears(c)]_vars
  BY <1>1, StepNears
<1>4. QED
  BY <1>2, <1>3, ServerToolsInvariant, PTL DEF Spec, EveryAnswerBringsTheEnd
=============================================================================
