----------------------- MODULE ConfirmedTools_proofs ------------------------
(***************************************************************************)
(* Type correctness of ConfirmedTools, and its main safety invariants, for *)
(* every set of calls, keys, servers, tools and arguments and every        *)
(* lifetime and limit.                                                     *)
(*                                                                         *)
(* Few steps touch the stores or consume a token.  Lemma Unrelated covers  *)
(* all those that do not; the five that issue or consume are taken one by  *)
(* one.                                                                    *)
(***************************************************************************)
EXTENDS ConfirmedInvariant, TLAPS

USE LimiterAssumption, ConfirmedToolsAssumption

-----------------------------------------------------------------------------
(* Type correctness. *)

\* What check leaves behind is a bucket.
LEMMA CheckedBucket ==
  ASSUME NEW b \in Bucket, NEW t \in Nat
  PROVE  RateCheck(b, t) \in Bucket
<1>1. b.count \in Nat /\ b.resetAt \in Nat
  BY DEF Bucket
<1>2. [b EXCEPT !.count = @ + 1] \in Bucket
  BY <1>1 DEF Bucket
<1> QED
  BY <1>2 DEF RateCheck, Bucket

\* What a request is made of, without looking at the tool.
LEMMA RequestParts ==
  ASSUME NEW r \in Requests
  PROVE  /\ r.tool \in Tools /\ r.key \in Keys
         /\ r.serverId \in Servers \cup {AdminServer}
         /\ r.token \in Calls \cup {NoToken}
         /\ r.arg \in ArgsOf(r.tool)
         /\ IsPower(r) => r.arg \in Signals
         /\ User(r) \in {UserOf[k] : k \in Keys}
         /\ Fingerprint(r) \in {Fingerprint(q) : q \in Requests}
BY DEF Requests, ArgsOf, IsPower, User

\* A handler's fields are of their types, whatever the tool.
LEMMA HandlerType ==
  ASSUME NEW tool
  PROVE  HandlerOf(tool) \in Handler
<1> USE DEF Kind, ActionKind
<1>1. ASSUME NEW kind \in Kind PROVE Plain(kind) \in Handler
  BY <1>1 DEF Plain, Handler
<1>2. \A kind \in Kind : Plain(kind) \in Handler
  BY <1>1
<1>3. WriteServerFile \in Handler
  BY DEF WriteServerFile, Plain, Handler
<1>4. CreateServerBackup \in Handler
  BY DEF CreateServerBackup, Plain, Handler
<1>5. RestoreServerBackup \in Handler
  BY DEF RestoreServerBackup, Plain, Handler
<1>6. DeleteServerBackup \in Handler /\ DeleteServerDatabase \in Handler
  BY <1>2 DEF DeleteServerBackup, DeleteServerDatabase
<1>7. DeleteServerSubuser \in Handler /\ DeleteServerAllocation \in Handler
  BY <1>2 DEF DeleteServerSubuser, DeleteServerAllocation
<1>8. DeleteServerFiles \in Handler
  BY DEF DeleteServerFiles, Plain, Handler
<1>9. CreateServer \in Handler
  BY DEF CreateServer, Plain, Handler
<1>10. DeleteServer \in Handler
  BY DEF DeleteServer, Plain, Handler
<1>11. Plain("server_power") \in Handler
  BY <1>2
<1> QED
  BY <1>3, <1>4, <1>5, <1>6, <1>7, <1>8, <1>9, <1>10, <1>11 DEF HandlerOf

\* The entries both stores create are of their types.
LEMMA NewEntryTypes ==
  ASSUME NEW c \in Calls, NEW r \in Requests, now \in Nat
  PROVE  /\ IsPower(r) => NewPowerEntry(c, r) \in PowerEntry
         /\ NewActionEntry(c, r) \in ActionEntry
<1>1. now + Ttl \in Nat
  OBVIOUS
<1>2. HandlerOf(r.tool).kind \in Kind
  BY HandlerType DEF Handler
<1> QED
  BY <1>1, <1>2, RequestParts DEF NewPowerEntry, NewActionEntry, PowerEntry, ActionEntry

\* Initially every variable has its type.
LEMMA InitType == Init => TypeOK
BY DEF Init, TypeOK, NoBucket, Bucket, NeverBackedUp, PC, Result, Wire

\* The ways a handler goes on, as far as types are concerned.
LEMMA AdmitType ==
  ASSUME TypeOK, NEW c \in Calls, NEW r \in Requests,
         buckets' = [buckets EXCEPT ![r.key] = RateCheck(@, now)],
         req' = [req EXCEPT ![c] = r]
  PROVE  buckets' \in [Keys -> Bucket] /\ req' \in [Calls -> Requests \cup {NoRequest}]
<1>1. r.key \in Keys
  BY RequestParts
<1>2. RateCheck(buckets[r.key], now) \in Bucket
  BY <1>1, CheckedBucket DEF TypeOK
<1> QED
  BY <1>1, <1>2 DEF TypeOK

\* A call that returns has a result and a record of the right types.
LEMMA ReturnType ==
  ASSUME TypeOK, NEW c \in Calls, NEW how \in Result, NEW records \in Seq(Status),
         Return(c, how, records)
  PROVE  pc' \in [Calls -> PC] /\ result' \in [Calls -> Result] /\ audit' \in [Calls -> Seq(Status)]
<1>1. audit[c] \o records \in Seq(Status)
  BY DEF TypeOK
<1> QED
  BY <1>1 DEF TypeOK, Return, PC

\* A call that awaits keeps its result and its records.
LEMMA AwaitType ==
  ASSUME TypeOK, NEW c \in Calls, NEW next \in PC, Await(c, next)
  PROVE  pc' \in [Calls -> PC] /\ result' \in [Calls -> Result] /\ audit' \in [Calls -> Seq(Status)]
BY DEF TypeOK, Await

\* A call that sends its action keeps its result and its records.
LEMMA SendType ==
  ASSUME TypeOK, NEW c \in Calls, Send(c)
  PROVE  /\ pc' \in [Calls -> PC] /\ result' \in [Calls -> Result]
         /\ audit' \in [Calls -> Seq(Status)] /\ wire' \in [Calls -> Wire]
<1>1. "act" \in PC
  BY DEF PC
<1> QED
  BY <1>1, AwaitType DEF TypeOK, Send, Wire

HistoryType ==
  /\ confirms \in [Calls -> Calls \cup {NoToken}]
  /\ issuedAt \in [Calls -> Nat]
  /\ recordedAt \in [Calls -> Nat]

StoresType == powerPending \subseteq PowerEntry /\ actionPending \subseteq ActionEntry

\* No operation of either store leaves its type.
LEMMA StoreSteps ==
  ASSUME TypeOK, NEW c \in Calls, NEW r \in Requests,
         \/ IsPower(r) /\ PowerCreate(c, r)
         \/ ActionCreate(c, r)
         \/ PowerConsume(c, r)
         \/ ActionConsume(c, r)
         \/ PowerConsumeFails(r)
         \/ ActionConsumeFails(r)
  PROVE  StoresType' /\ HistoryType'
<1>1. Unexpired(powerPending) \subseteq PowerEntry /\ Unexpired(actionPending) \subseteq ActionEntry
  BY DEF TypeOK, Unexpired
<1>2. r.token \in Calls \cup {NoToken}
  BY RequestParts
<1>3. CASE IsPower(r) /\ PowerCreate(c, r)
  BY <1>1, <1>3, NewEntryTypes DEF TypeOK, PowerCreate, StoresType, HistoryType
<1>4. CASE ActionCreate(c, r)
  BY <1>1, <1>4, NewEntryTypes DEF TypeOK, ActionCreate, StoresType, HistoryType
<1>5. CASE PowerConsume(c, r)
  BY <1>1, <1>2, <1>5 DEF TypeOK, PowerConsume, StoresType, HistoryType
<1>6. CASE ActionConsume(c, r)
  BY <1>1, <1>2, <1>6 DEF TypeOK, ActionConsume, StoresType, HistoryType
<1>7. CASE PowerConsumeFails(r)
  BY <1>1, <1>7 DEF TypeOK, PowerConsumeFails, StoresType, HistoryType, history
<1>8. CASE ActionConsumeFails(r)
  BY <1>1, <1>8 DEF TypeOK, ActionConsumeFails, StoresType, HistoryType, history
<1> QED
  BY <1>3, <1>4, <1>5, <1>6, <1>7, <1>8

\* The statuses and results that handlers return are of their types.
LEMMA Constants ==
  /\ <<>> \in Seq(Status) /\ <<"success">> \in Seq(Status)
  /\ <<"error">> \in Seq(Status) /\ <<"denied">> \in Seq(Status)
  /\ <<"denied", "denied">> \in Seq(Status) /\ <<"denied", "error">> \in Seq(Status)
  /\ {"requires_confirmation", "ok", "denied", "error", "rate_limited"} \subseteq Result
  /\ {"permission", "lookup", "act", "done"} \subseteq PC
<1>1. {"success", "error", "denied"} = Status
  BY DEF Status
<1>2. <<>> \in Seq(Status) /\ <<"success">> \in Seq(Status)
  BY <1>1
<1>3. <<"error">> \in Seq(Status) /\ <<"denied">> \in Seq(Status)
  BY <1>1
<1>4. <<"denied", "denied">> \in Seq(Status) /\ <<"denied", "error">> \in Seq(Status)
  BY <1>1
<1> QED
  BY <1>2, <1>3, <1>4 DEF Result, PC

\* TypeOK as the lemmas above split it.
CallsType ==
  /\ pc \in [Calls -> PC]
  /\ result \in [Calls -> Result]
  /\ audit \in [Calls -> Seq(Status)]

\* The start of a call keeps the types.
LEMMA StartType ==
  ASSUME TypeOK, NEW c \in Calls, NEW r \in Requests,
         \/ RateLimited(c, r)
         \/ StartPower(c, r)
         \/ FailChecks(c, r)
         \/ StartRequest(c, r)
         \/ IssueAtOnce(c, r)
         \/ StartConfirmed(c, r)
         \/ RefuseToken(c, r)
  PROVE  TypeOK'
<1>1. CASE RateLimited(c, r)
  <2>1. CallsType'
    BY <1>1, ReturnType, Constants DEF RateLimited, CallsType
  <2> QED
    BY <1>1, <2>1, AdmitType DEF RateLimited, TypeOK, CallsType, clock, stores, history
<1>2. CASE StartPower(c, r)
  <2>1. CallsType'
    BY <1>2, AwaitType, Constants DEF StartPower, CallsType
  <2> QED
    BY <1>2, <2>1, AdmitType DEF StartPower, Admit, TypeOK, CallsType, clock, stores, history
<1>3. CASE FailChecks(c, r)
  <2>1. CallsType'
    BY <1>3, ReturnType, Constants DEF FailChecks, CallsType
  <2> QED
    BY <1>3, <2>1, AdmitType DEF FailChecks, Admit, TypeOK, CallsType, clock, stores, history
<1>4. CASE StartRequest(c, r)
  <2>1. CallsType'
    BY <1>4, AwaitType, Constants DEF StartRequest, CallsType
  <2> QED
    BY <1>4, <2>1, AdmitType DEF StartRequest, Admit, TypeOK, CallsType, clock, stores, history
<1>5. CASE IssueAtOnce(c, r)
  <2>1. CallsType'
    BY <1>5, ReturnType, Constants DEF IssueAtOnce, CallsType
  <2>2. StoresType' /\ HistoryType'
    BY <1>5, StoreSteps DEF IssueAtOnce
  <2> QED
    BY <1>5, <2>1, <2>2, AdmitType
    DEF IssueAtOnce, Admit, TypeOK, CallsType, StoresType, HistoryType, clock
<1>6. CASE StartConfirmed(c, r)
  <2>1. CallsType' /\ wire' \in [Calls -> Wire]
    BY <1>6, AwaitType, SendType, Constants DEF StartConfirmed, CallsType, TypeOK
  <2>2. StoresType' /\ HistoryType'
    BY <1>6, StoreSteps DEF StartConfirmed
  <2> QED
    BY <1>6, <2>1, <2>2, AdmitType
    DEF StartConfirmed, Admit, TypeOK, CallsType, StoresType, HistoryType, clock
<1>7. CASE RefuseToken(c, r)
  <2>1. CallsType'
    BY <1>7, ReturnType, Constants DEF RefuseToken, CallsType
  <2>2. StoresType' /\ HistoryType'
    BY <1>7, StoreSteps DEF RefuseToken
  <2> QED
    BY <1>7, <2>1, <2>2, AdmitType
    DEF RefuseToken, Admit, TypeOK, CallsType, StoresType, HistoryType, clock
<1> QED
  BY <1>1, <1>2, <1>3, <1>4, <1>5, <1>6, <1>7

\* A call that awaits a reply was started with a request.
LEMMA ReplyType ==
  ASSUME TypeOK, LifeOfCall, NEW c \in Calls, Reply(c)
  PROVE  TypeOK'
<1>1. pc[c] # "idle" /\ req[c] \in Requests
  BY DEF LifeOfCall, Reply, PermissionReply, PermissionFails, Installing, PowerDirect,
     PowerIssue, PowerConfirmed, PowerRefused, ActionIssue, ActionSend, LookupReply,
     LookupFinds, LookupFindsNone, LookupFails, ActReply, ActSucceeds, ActFails, Resumes
<1> USE DEF Resumes
<1>2. CASE PermissionFails(c)
  <2>1. CallsType'
    BY <1>2, ReturnType, Constants DEF PermissionFails, CallsType
  <2> QED
    BY <1>2, <2>1 DEF PermissionFails, TypeOK, CallsType, clock, stores, limiters, history
<1>3. CASE Installing(c)
  <2>1. CallsType'
    BY <1>3, ReturnType, Constants DEF Installing, CallsType
  <2> QED
    BY <1>3, <2>1 DEF Installing, TypeOK, CallsType, clock, stores, limiters, history
<1>4. CASE PowerDirect(c) \/ ActionSend(c) \/ LookupFinds(c)
  <2>1. CallsType' /\ wire' \in [Calls -> Wire]
    BY <1>4, SendType DEF PowerDirect, ActionSend, LookupFinds, CallsType
  <2> QED
    BY <1>4, <2>1 DEF PowerDirect, ActionSend, LookupFinds, TypeOK, CallsType, clock, stores,
       limiters, history
<1>5. CASE PowerIssue(c) \/ ActionIssue(c)
  <2>1. CallsType'
    BY <1>5, ReturnType, Constants DEF PowerIssue, ActionIssue, CallsType
  <2>2. StoresType' /\ HistoryType'
    BY <1>1, <1>5, StoreSteps DEF PowerIssue, ActionIssue
  <2> QED
    BY <1>5, <2>1, <2>2 DEF PowerIssue, ActionIssue, TypeOK, CallsType, StoresType,
       HistoryType, clock, limiters
<1>6. CASE PowerConfirmed(c)
  <2>1. CallsType' /\ wire' \in [Calls -> Wire]
    BY <1>6, SendType DEF PowerConfirmed, CallsType
  <2>2. StoresType' /\ HistoryType'
    BY <1>1, <1>6, StoreSteps DEF PowerConfirmed
  <2> QED
    BY <1>6, <2>1, <2>2 DEF PowerConfirmed, TypeOK, CallsType, StoresType, HistoryType,
       clock, limiters
<1>7. CASE PowerRefused(c)
  <2>1. CallsType'
    BY <1>7, ReturnType, Constants DEF PowerRefused, CallsType
  <2>2. StoresType' /\ HistoryType'
    BY <1>1, <1>7, StoreSteps DEF PowerRefused
  <2> QED
    BY <1>7, <2>1, <2>2 DEF PowerRefused, TypeOK, CallsType, StoresType, HistoryType,
       clock, limiters
<1>8. CASE LookupFindsNone(c) \/ LookupFails(c) \/ ActFails(c)
  <2>1. CallsType'
    BY <1>8, ReturnType, Constants DEF LookupFindsNone, LookupFails, ActFails, CallsType
  <2> QED
    BY <1>8, <2>1 DEF LookupFindsNone, LookupFails, ActFails, TypeOK, CallsType, clock,
       stores, limiters, history
<1>9. CASE ActSucceeds(c)
  <2>1. CallsType'
    BY <1>9, ReturnType, Constants DEF ActSucceeds, CallsType
  <2>2. lastBackup' \in [Servers -> Nat] /\ recordedAt' \in [Calls -> Nat]
    <3>1. \/ /\ lastBackup' = [lastBackup EXCEPT ![req[c].serverId] = now]
             /\ recordedAt' = [recordedAt EXCEPT ![c] = now]
          \/ UNCHANGED <<lastBackup, recordedAt>>
      BY <1>9 DEF ActSucceeds, RecordBackup
    <3>2. ASSUME NEW s PROVE [lastBackup EXCEPT ![s] = now] \in [Servers -> Nat]
      BY DEF TypeOK
    <3>3. [recordedAt EXCEPT ![c] = now] \in [Calls -> Nat]
      BY DEF TypeOK
    <3>4. lastBackup \in [Servers -> Nat] /\ recordedAt \in [Calls -> Nat]
      BY DEF TypeOK
    <3> QED
      BY <3>1, <3>2, <3>3, <3>4
  <2> QED
    BY <1>9, <2>1, <2>2 DEF ActSucceeds, TypeOK, CallsType, clock, stores
<1> QED
  BY <1>2, <1>3, <1>4, <1>5, <1>6, <1>7, <1>8, <1>9
  DEF Reply, PermissionReply, LookupReply, ActReply

\* Every step keeps the types.
LEMMA TypeStep == TypeOK /\ LifeOfCall /\ [Next]_vars => TypeOK'
<1> SUFFICES ASSUME TypeOK, LifeOfCall, [Next]_vars PROVE TypeOK'
  OBVIOUS
<1>1. ASSUME NEW c \in Calls, Start(c) PROVE TypeOK'
  BY <1>1, StartType DEF Start
<1>2. ASSUME NEW c \in Calls, Reply(c) PROVE TypeOK'
  BY <1>2, ReplyType
<1>3. ASSUME NEW c \in Calls, PanelExecutes(c) \/ PanelRefuses(c) PROVE TypeOK'
  BY <1>3 DEF PanelExecutes, PanelRefuses, TypeOK, Wire, clock, stores, limiters, history
<1>4. CASE Tick
  BY <1>4 DEF Tick, TypeOK, stores, limiters, calls, history
<1>5. CASE Restart
  <2>1. pc' \in [Calls -> PC] /\ result' \in [Calls -> Result]
    BY <1>5 DEF Restart, TypeOK, PC, Result
  <2>2. NoBucket \in Bucket
    BY DEF NoBucket, Bucket
  <2> QED
    BY <1>5, <2>1, <2>2 DEF Restart, TypeOK, NeverBackedUp
<1>6. CASE UNCHANGED vars
  BY <1>6 DEF vars, TypeOK, clock, stores, limiters, calls, history
<1> QED
  BY <1>1, <1>2, <1>3, <1>4, <1>5, <1>6 DEF Next

-----------------------------------------------------------------------------
(* Calls live once: idle, started with a request, ended with a result. *)

\* What every step of a call does to the three functions LifeOfCall reads.
LEMMA LifeOfOne ==
  ASSUME TypeOK, LifeOfCall, NEW c \in Calls,
         \A d \in Calls \ {c} :
           /\ pc'[d] = pc[d] /\ result'[d] = result[d] /\ wire'[d] = wire[d]
           /\ confirms'[d] = confirms[d] /\ req'[d] = req[d],
         pc'[c] # "idle", req'[c] \in Requests,
         pc'[c] = "done" \/ result'[c] = "none"
  PROVE  LifeOfCall'
BY DEF LifeOfCall

\* The start of a call takes it from idle to a later stage.
LEMMA LifeStart ==
  ASSUME TypeOK, LifeOfCall, NEW c \in Calls, NEW r \in Requests,
         \/ RateLimited(c, r)
         \/ StartPower(c, r)
         \/ FailChecks(c, r)
         \/ StartRequest(c, r)
         \/ IssueAtOnce(c, r)
         \/ StartConfirmed(c, r)
         \/ RefuseToken(c, r)
  PROVE  LifeOfCall'
<1> USE DEF TypeOK
<1>1. req'[c] = r /\ \A d \in Calls \ {c} : req'[d] = req[d]
  BY DEF RateLimited, StartPower, FailChecks, StartRequest, IssueAtOnce, StartConfirmed,
     RefuseToken, Admit
<1>2. pc[c] = "idle" /\ result[c] = "none"
  BY DEF RateLimited, StartPower, FailChecks, StartRequest, IssueAtOnce, StartConfirmed,
     RefuseToken, Admit, LifeOfCall
<1>3. \A d \in Calls \ {c} : confirms'[d] = confirms[d]
  BY DEF RateLimited, StartPower, FailChecks, StartRequest, IssueAtOnce, StartConfirmed,
     RefuseToken, ActionCreate, ActionConsume, ActionConsumeFails, history
<1>4. CASE RateLimited(c, r) \/ FailChecks(c, r) \/ IssueAtOnce(c, r) \/ RefuseToken(c, r)
  BY <1>1, <1>2, <1>3, <1>4, LifeOfOne DEF RateLimited, FailChecks, IssueAtOnce, RefuseToken, Return
<1>5. CASE StartPower(c, r) \/ StartRequest(c, r)
  BY <1>1, <1>2, <1>3, <1>5, LifeOfOne DEF StartPower, StartRequest, Await
<1>6. CASE StartConfirmed(c, r)
  BY <1>1, <1>2, <1>3, <1>6, LifeOfOne DEF StartConfirmed, Await, Send
<1> QED
  BY <1>4, <1>5, <1>6

\* What goes on after a reply is a call that was waiting for one.
LEMMA Awaiting ==
  ASSUME LifeOfCall, NEW c \in Calls, Reply(c)
  PROVE  /\ pc[c] \in {"permission", "lookup", "act"} /\ result[c] = "none"
         /\ req[c] \in Requests
BY DEF LifeOfCall, Reply, PermissionReply, PermissionFails, Installing, PowerDirect,
   PowerIssue, PowerConfirmed, PowerRefused, ActionIssue, ActionSend, LookupReply,
   LookupFinds, LookupFindsNone, LookupFails, ActReply, ActSucceeds, ActFails, Resumes

\* What follows a reply keeps a call's life in order.
LEMMA LifeReply ==
  ASSUME TypeOK, LifeOfCall, NEW c \in Calls, Reply(c)
  PROVE  LifeOfCall'
<1> USE DEF TypeOK, Resumes
<1>1. pc[c] \in {"permission", "lookup", "act"} /\ result[c] = "none" /\ req[c] \in Requests
  BY Awaiting
<1>2. CASE PermissionFails(c) \/ Installing(c) \/ LookupFindsNone(c) \/ LookupFails(c)
           \/ ActFails(c) \/ ActSucceeds(c)
  BY <1>1, <1>2, LifeOfOne DEF PermissionFails, Installing, LookupFindsNone, LookupFails,
     ActFails, ActSucceeds, Return, history
<1>3. CASE PowerIssue(c) \/ ActionIssue(c) \/ PowerRefused(c)
  BY <1>1, <1>3, LifeOfOne DEF PowerIssue, ActionIssue, PowerRefused, Return, PowerCreate,
     ActionCreate, PowerConsumeFails, history
<1>4. CASE PowerDirect(c) \/ ActionSend(c) \/ LookupFinds(c)
  BY <1>1, <1>4, LifeOfOne DEF PowerDirect, ActionSend, LookupFinds, Send, Await, history
<1>5. CASE PowerConfirmed(c)
  BY <1>1, <1>5, LifeOfOne DEF PowerConfirmed, Send, Await, PowerConsume
<1> QED
  BY <1>2, <1>3, <1>4, <1>5 DEF Reply, PermissionReply, LookupReply, ActReply

\* Every step keeps each call's life in order.
LEMMA LifeStep == TypeOK /\ LifeOfCall /\ [Next]_vars => LifeOfCall'
<1> SUFFICES ASSUME TypeOK, LifeOfCall, [Next]_vars PROVE LifeOfCall'
  OBVIOUS
<1>1. ASSUME NEW c \in Calls, Start(c) PROVE LifeOfCall'
  BY <1>1, LifeStart DEF Start
<1>2. ASSUME NEW c \in Calls, Reply(c) PROVE LifeOfCall'
  BY <1>2, LifeReply
<1>3. ASSUME NEW c \in Calls, PanelExecutes(c) \/ PanelRefuses(c) PROVE LifeOfCall'
  BY <1>3 DEF PanelExecutes, PanelRefuses, LifeOfCall, TypeOK, history
<1>4. CASE Tick
  BY <1>4 DEF Tick, LifeOfCall, calls, history
<1>5. CASE Restart
  BY <1>5 DEF Restart, LifeOfCall, TypeOK
<1>6. CASE UNCHANGED vars
  BY <1>6 DEF vars, LifeOfCall, calls, history
<1> QED
  BY <1>1, <1>2, <1>3, <1>4, <1>5, <1>6 DEF Next

-----------------------------------------------------------------------------
(* Steps that neither issue nor consume a token. *)

\* Stores may shrink and requests may arrive: what was issued stays issued.
LEMMA Unrelated ==
  ASSUME IInv,
         powerPending' \subseteq powerPending, actionPending' \subseteq actionPending,
         confirms' = confirms,
         \A c \in Calls : pc[c] # "idle" => req'[c] = req[c],
         \A c \in Calls :
           result[c] = "requires_confirmation" =>
             result'[c] = "requires_confirmation" /\ issuedAt'[c] = issuedAt[c]
  PROVE  PowerStoreOK' /\ ActionStoreOK' /\ ConfirmsOK' /\ ConfirmedOnce'
<1>1. \A c \in Calls : result[c] = "requires_confirmation" => req'[c] = req[c]
  BY DEF IInv, LifeOfCall
<1>2. \A c \in Calls : confirms[c] # NoToken => confirms[c] \in Calls /\ req'[c] = req[c]
  BY DEF IInv, LifeOfCall, TypeOK
<1>3. /\ \A e \in powerPending : e.token \in Calls
      /\ \A e \in actionPending : e.token \in Calls
  BY DEF IInv, TypeOK, PowerEntry, ActionEntry
<1>4. PowerStoreOK'
  <2> SUFFICES ASSUME NEW e \in powerPending'
               PROVE  LET t == e.token IN
                        /\ Unspent(t)'
                        /\ IsPower(req'[t])
                        /\ e = [token |-> t, userId |-> User(req'[t]),
                                serverId |-> req'[t].serverId, signal |-> req'[t].arg,
                                expiresAt |-> issuedAt'[t] + Ttl]
    BY DEF PowerStoreOK
  <2> QED
    BY <1>1, <1>3 DEF IInv, PowerStoreOK, Unspent
<1>5. ActionStoreOK'
  <2> SUFFICES ASSUME NEW e \in actionPending'
               PROVE  LET t == e.token IN
                        /\ Unspent(t)'
                        /\ ~IsPower(req'[t])
                        /\ e = [token |-> t, userId |-> User(req'[t]),
                                serverId |-> req'[t].serverId,
                                kind |-> HandlerOf(req'[t].tool).kind,
                                fingerprint |-> Fingerprint(req'[t]),
                                expiresAt |-> issuedAt'[t] + Ttl]
    BY DEF ActionStoreOK
  <2> QED
    BY <1>1, <1>3 DEF IInv, ActionStoreOK, Unspent
<1>6. ConfirmsOK'
  BY <1>1, <1>2 DEF IInv, ConfirmsOK
<1>7. ConfirmedOnce'
  BY DEF IInv, ConfirmedOnce
<1> QED
  BY <1>4, <1>5, <1>6, <1>7


-----------------------------------------------------------------------------
(* The steps that issue a token. *)

\* The issuer had no result, so its name is on no entry and consumed by none.
LEMMA IssueStep ==
  ASSUME IInv, NEW c \in Calls, NEW r \in Requests,
         result[c] = "none", confirms[c] # NoToken => req[c] = r,
         req'[c] = r, result'[c] = "requires_confirmation",
         \A d \in Calls \ {c} : req'[d] = req[d] /\ result'[d] = result[d],
         \/ IsPower(r) /\ PowerCreate(c, r)
         \/ ~IsPower(r) /\ ActionCreate(c, r)
  PROVE  PowerStoreOK' /\ ActionStoreOK' /\ ConfirmsOK' /\ ConfirmedOnce'
<1>1. /\ \A e \in powerPending : e.token \in Calls /\ e.token # c
      /\ \A e \in actionPending : e.token \in Calls /\ e.token # c
  BY DEF IInv, TypeOK, PowerEntry, ActionEntry, PowerStoreOK, ActionStoreOK, Unspent
<1>2. \A d \in Calls : confirms[d] # NoToken => confirms[d] \in Calls \ {c}
  BY DEF IInv, TypeOK, ConfirmsOK
<1>3. confirms' = confirms /\ issuedAt'[c] = now
      /\ \A d \in Calls \ {c} : issuedAt'[d] = issuedAt[d]
  BY DEF PowerCreate, ActionCreate, IInv, TypeOK
<1>4. Unspent(c)'
  BY <1>2, <1>3 DEF Unspent
<1>5. ASSUME NEW t \in Calls, t # c, Unspent(t) PROVE Unspent(t)'
  BY <1>3, <1>5 DEF Unspent
<1>6. PowerStoreOK'
  <2> SUFFICES ASSUME NEW e \in powerPending'
               PROVE  LET t == e.token IN
                        /\ Unspent(t)'
                        /\ IsPower(req'[t])
                        /\ e = [token |-> t, userId |-> User(req'[t]),
                                serverId |-> req'[t].serverId, signal |-> req'[t].arg,
                                expiresAt |-> issuedAt'[t] + Ttl]
    BY DEF PowerStoreOK
  <2>1. CASE e \in powerPending
    <3>1. req'[e.token] = req[e.token] /\ issuedAt'[e.token] = issuedAt[e.token]
      BY <1>1, <1>3, <2>1
    <3> QED
      BY <3>1, <1>1, <1>5, <2>1 DEF IInv, PowerStoreOK
  <2>2. CASE e \notin powerPending
    <3>1. IsPower(r) /\ e = NewPowerEntry(c, r)
      BY <2>2 DEF PowerCreate, ActionCreate, Unexpired
    <3>2. e.token = c
      BY <3>1 DEF NewPowerEntry
    <3> QED
      BY <3>1, <3>2, <1>3, <1>4 DEF NewPowerEntry
  <2> QED
    BY <2>1, <2>2
<1>7. ActionStoreOK'
  <2> SUFFICES ASSUME NEW e \in actionPending'
               PROVE  LET t == e.token IN
                        /\ Unspent(t)'
                        /\ ~IsPower(req'[t])
                        /\ e = [token |-> t, userId |-> User(req'[t]),
                                serverId |-> req'[t].serverId,
                                kind |-> HandlerOf(req'[t].tool).kind,
                                fingerprint |-> Fingerprint(req'[t]),
                                expiresAt |-> issuedAt'[t] + Ttl]
    BY DEF ActionStoreOK
  <2>1. CASE e \in actionPending
    <3>1. req'[e.token] = req[e.token] /\ issuedAt'[e.token] = issuedAt[e.token]
      BY <1>1, <1>3, <2>1
    <3> QED
      BY <3>1, <1>1, <1>5, <2>1 DEF IInv, ActionStoreOK
  <2>2. CASE e \notin actionPending
    <3>1. ~IsPower(r) /\ e = NewActionEntry(c, r)
      BY <2>2 DEF PowerCreate, ActionCreate, Unexpired
    <3>2. e.token = c
      BY <3>1 DEF NewActionEntry
    <3> QED
      BY <3>1, <3>2, <1>3, <1>4 DEF NewActionEntry
  <2> QED
    BY <2>1, <2>2
<1>8. ConfirmsOK'
  <2>1. ASSUME NEW d \in Calls, confirms[d] # NoToken PROVE req'[d] = req[d]
    BY <2>1
  <2>2. ASSUME NEW d \in Calls, confirms[d] # NoToken
        PROVE  req'[confirms[d]] = req[confirms[d]] /\ result'[confirms[d]] = result[confirms[d]]
    BY <2>2, <1>2
  <2> QED
    BY <1>3, <2>1, <2>2 DEF IInv, ConfirmsOK
<1>9. ConfirmedOnce'
  BY <1>3 DEF IInv, ConfirmedOnce
<1> QED
  BY <1>6, <1>7, <1>8, <1>9

-----------------------------------------------------------------------------
(* The steps that consume a token. *)

\* An entry says what its token's call asked for, so a match is agreement.
LEMMA MatchIsAgreement ==
  ASSUME IInv, NEW r \in Requests, NEW e,
         \/ IsPower(r) /\ e \in powerPending /\ PowerMatches(e, r)
         \/ ~IsPower(r) /\ e \in actionPending /\ ActionMatches(e, r)
  PROVE  /\ e.token = r.token /\ e.token \in Calls
         /\ Unspent(e.token)
         /\ Asked(req[e.token]) = Asked(r)
<1> DEFINE t == e.token
<1>1. t \in Calls
  BY DEF IInv, TypeOK, PowerEntry, ActionEntry
<1>2. CASE IsPower(r) /\ e \in powerPending /\ PowerMatches(e, r)
  <2>1. Unspent(t) /\ IsPower(req[t])
    BY <1>2 DEF IInv, PowerStoreOK
  <2>2. e.userId = User(req[t]) /\ e.serverId = req[t].serverId /\ e.signal = req[t].arg
    BY <1>2 DEF IInv, PowerStoreOK
  <2>3. req[t].tool = r.tool
    BY <1>2, <2>1 DEF IsPower
  <2> QED
    BY <1>1, <1>2, <2>1, <2>2, <2>3 DEF PowerMatches, Asked
<1>3. CASE ~IsPower(r) /\ e \in actionPending /\ ActionMatches(e, r)
  <2>1. Unspent(t) /\ ~IsPower(req[t])
    BY <1>3 DEF IInv, ActionStoreOK
  <2>2. /\ e.userId = User(req[t]) /\ e.serverId = req[t].serverId
        /\ e.kind = HandlerOf(req[t].tool).kind /\ e.fingerprint = Fingerprint(req[t])
    BY <1>3 DEF IInv, ActionStoreOK
  <2>3. Fingerprint(req[t]) = Fingerprint(r)
    BY <1>3, <2>2 DEF ActionMatches
  <2>4. req[t].arg = r.arg
    BY <2>3 DEF Fingerprint
  <2> QED
    BY <1>1, <1>3, <2>1, <2>2, <2>4 DEF ActionMatches, Asked, IsPower
<1> QED
  BY <1>2, <1>3

\* A consumer with no result is nobody's token, and the entry it removes is
\* the only one that bears the token.
LEMMA ConsumeStep ==
  ASSUME IInv, NEW c \in Calls, NEW r \in Requests,
         result[c] = "none", req'[c] = r, result' = result,
         \A d \in Calls \ {c} : req'[d] = req[d],
         \/ IsPower(r) /\ PowerConsume(c, r)
         \/ ~IsPower(r) /\ ActionConsume(c, r)
  PROVE  /\ PowerStoreOK' /\ ActionStoreOK' /\ ConfirmsOK' /\ ConfirmedOnce'
         /\ confirms'[c] # NoToken
<1>1. PICK e : /\ \/ IsPower(r) /\ e \in powerPending /\ PowerMatches(e, r)
                  \/ ~IsPower(r) /\ e \in actionPending /\ ActionMatches(e, r)
               /\ powerPending' \subseteq powerPending \ {e}
               /\ actionPending' \subseteq actionPending \ {e}
  <2>1. CASE IsPower(r) /\ PowerConsume(c, r)
    <3>1. PICK e \in Unexpired(powerPending) :
            PowerMatches(e, r) /\ powerPending' = Unexpired(powerPending) \ {e}
      BY <2>1 DEF PowerConsume
    <3>2. e \notin actionPending
      BY <3>1 DEF Unexpired, IInv, PowerStoreOK, ActionStoreOK
    <3> QED
      BY <2>1, <3>1, <3>2 DEF PowerConsume, Unexpired
  <2>2. CASE ~IsPower(r) /\ ActionConsume(c, r)
    <3>1. PICK e \in Unexpired(actionPending) :
            ActionMatches(e, r) /\ actionPending' = Unexpired(actionPending) \ {e}
      BY <2>2 DEF ActionConsume
    <3>2. e \notin powerPending
      BY <3>1 DEF Unexpired, IInv, PowerStoreOK, ActionStoreOK
    <3> QED
      BY <2>2, <3>1, <3>2 DEF ActionConsume, Unexpired
  <2> QED
    BY <2>1, <2>2
<1> DEFINE t == r.token
<1>2. e.token = t /\ t \in Calls /\ Unspent(t) /\ Asked(req[t]) = Asked(r)
  BY <1>1, MatchIsAgreement
<1>3. /\ confirms'[c] = t /\ issuedAt' = issuedAt
      /\ \A d \in Calls \ {c} : confirms'[d] = confirms[d]
  BY DEF PowerConsume, ActionConsume, IInv, TypeOK
<1>4. /\ \A f \in powerPending : f.token \in Calls \ {c} /\ Unspent(f.token)
      /\ \A f \in actionPending : f.token \in Calls \ {c} /\ Unspent(f.token)
  BY DEF IInv, TypeOK, PowerEntry, ActionEntry, PowerStoreOK, ActionStoreOK, Unspent
\* Both stores are functions of the token: no other entry bears it.
<1>5. \A f \in powerPending' : f.token # t
  <2> SUFFICES ASSUME NEW f \in powerPending', f.token = t PROVE FALSE
    OBVIOUS
  <2>1. f \in powerPending /\ f # e
    BY <1>1
  <2>2. /\ IsPower(req[t])
        /\ f = [token |-> t, userId |-> User(req[t]), serverId |-> req[t].serverId,
                signal |-> req[t].arg, expiresAt |-> issuedAt[t] + Ttl]
    BY <2>1 DEF IInv, PowerStoreOK
  <2>3. e \in powerPending
    BY <1>1, <1>2, <2>2 DEF IInv, ActionStoreOK
  <2>4. e = [token |-> t, userId |-> User(req[t]), serverId |-> req[t].serverId,
             signal |-> req[t].arg, expiresAt |-> issuedAt[t] + Ttl]
    BY <1>2, <2>3 DEF IInv, PowerStoreOK
  <2> QED
    BY <2>1, <2>2, <2>4
<1>6. \A f \in actionPending' : f.token # t
  <2> SUFFICES ASSUME NEW f \in actionPending', f.token = t PROVE FALSE
    OBVIOUS
  <2>1. f \in actionPending /\ f # e
    BY <1>1
  <2>2. /\ ~IsPower(req[t])
        /\ f = [token |-> t, userId |-> User(req[t]), serverId |-> req[t].serverId,
                kind |-> HandlerOf(req[t].tool).kind, fingerprint |-> Fingerprint(req[t]),
                expiresAt |-> issuedAt[t] + Ttl]
    BY <2>1 DEF IInv, ActionStoreOK
  <2>3. e \in actionPending
    BY <1>1, <1>2, <2>2 DEF IInv, PowerStoreOK
  <2>4. e = [token |-> t, userId |-> User(req[t]), serverId |-> req[t].serverId,
             kind |-> HandlerOf(req[t].tool).kind, fingerprint |-> Fingerprint(req[t]),
             expiresAt |-> issuedAt[t] + Ttl]
    BY <1>2, <2>3 DEF IInv, ActionStoreOK
  <2> QED
    BY <2>1, <2>2, <2>4
<1>7. ASSUME NEW u \in Calls, u # t, Unspent(u) PROVE Unspent(u)'
  BY <1>3, <1>7 DEF Unspent
<1>8. PowerStoreOK'
  <2> SUFFICES ASSUME NEW f \in powerPending'
               PROVE  LET u == f.token IN
                        /\ Unspent(u)'
                        /\ IsPower(req'[u])
                        /\ f = [token |-> u, userId |-> User(req'[u]),
                                serverId |-> req'[u].serverId, signal |-> req'[u].arg,
                                expiresAt |-> issuedAt'[u] + Ttl]
    BY DEF PowerStoreOK
  <2>1. f \in powerPending /\ f.token # t /\ f.token \in Calls \ {c}
    BY <1>1, <1>4, <1>5
  <2>2. req'[f.token] = req[f.token] /\ issuedAt'[f.token] = issuedAt[f.token]
    BY <2>1, <1>3
  <2> QED
    BY <2>1, <2>2, <1>4, <1>7 DEF IInv, PowerStoreOK
<1>9. ActionStoreOK'
  <2> SUFFICES ASSUME NEW f \in actionPending'
               PROVE  LET u == f.token IN
                        /\ Unspent(u)'
                        /\ ~IsPower(req'[u])
                        /\ f = [token |-> u, userId |-> User(req'[u]),
                                serverId |-> req'[u].serverId,
                                kind |-> HandlerOf(req'[u].tool).kind,
                                fingerprint |-> Fingerprint(req'[u]),
                                expiresAt |-> issuedAt'[u] + Ttl]
    BY DEF ActionStoreOK
  <2>1. f \in actionPending /\ f.token # t /\ f.token \in Calls \ {c}
    BY <1>1, <1>4, <1>6
  <2>2. req'[f.token] = req[f.token] /\ issuedAt'[f.token] = issuedAt[f.token]
    BY <2>1, <1>3
  <2> QED
    BY <2>1, <2>2, <1>4, <1>7 DEF IInv, ActionStoreOK
<1>10. ConfirmsOK'
  <2> SUFFICES ASSUME NEW d \in Calls, confirms'[d] # NoToken
               PROVE  /\ result'[confirms'[d]] = "requires_confirmation"
                      /\ Asked(req'[confirms'[d]]) = Asked(req'[d])
    BY DEF ConfirmsOK
  <2>1. CASE d = c
    <3>1. result[t] = "requires_confirmation" /\ t # c
      BY <1>2 DEF Unspent
    <3> QED
      BY <2>1, <3>1, <1>2, <1>3
  <2>2. CASE d # c
    <3>1. confirms'[d] = confirms[d] /\ confirms[d] \in Calls
      BY <2>2, <1>3 DEF IInv, TypeOK
    <3>2. /\ result[confirms[d]] = "requires_confirmation"
          /\ Asked(req[confirms[d]]) = Asked(req[d])
      BY <3>1 DEF IInv, ConfirmsOK
    <3>3. confirms[d] # c
      BY <3>2
    <3> QED
      BY <2>2, <3>1, <3>2, <3>3
  <2> QED
    BY <2>1, <2>2
<1>11. ConfirmedOnce'
  <2>1. \A d \in Calls : confirms[d] # t
    BY <1>2 DEF Unspent
  <2> QED
    BY <2>1, <1>3 DEF IInv, ConfirmedOnce
<1> QED
  BY <1>2, <1>3, <1>8, <1>9, <1>10, <1>11


-----------------------------------------------------------------------------
(* A handler acts only past its consume. *)

\* If only call c moves and has consumed a token where it must, all have.
LEMMA ConsumedByOne ==
  ASSUME IInv, NEW c \in Calls,
         \A d \in Calls \ {c} : /\ pc'[d] = pc[d] /\ req'[d] = req[d] /\ wire'[d] = wire[d]
                                /\ confirms'[d] = confirms[d],
         PastConsume(c)' => confirms'[c] # NoToken
  PROVE  ConsumedBeforeActing'
BY DEF IInv, ConsumedBeforeActing, PastConsume

\* The stores, confirms and their invariants, as a step leaves them.
StoreInv == PowerStoreOK /\ ActionStoreOK /\ ConfirmsOK /\ ConfirmedOnce

\* The start of a call keeps what ties stores and calls together.
LEMMA StoreInvStart ==
  ASSUME IInv, NEW c \in Calls, NEW r \in Requests,
         \/ RateLimited(c, r)
         \/ StartPower(c, r)
         \/ FailChecks(c, r)
         \/ StartRequest(c, r)
         \/ IssueAtOnce(c, r)
         \/ StartConfirmed(c, r)
         \/ RefuseToken(c, r)
  PROVE  StoreInv' /\ ConsumedBeforeActing'
<1>1. TypeOK
  BY DEF IInv
<1>2. pc[c] = "idle" /\ result[c] = "none" /\ wire[c] = "none" /\ confirms[c] = NoToken
  BY DEF IInv, LifeOfCall, RateLimited, StartPower, FailChecks, StartRequest, IssueAtOnce,
     StartConfirmed, RefuseToken, Admit
<1>3. req'[c] = r /\ \A d \in Calls \ {c} : req'[d] = req[d]
  BY <1>1 DEF TypeOK, RateLimited, StartPower, FailChecks, StartRequest, IssueAtOnce,
     StartConfirmed, RefuseToken, Admit
<1>4. CASE RateLimited(c, r) \/ FailChecks(c, r) \/ RefuseToken(c, r)
  <2>1. /\ powerPending' \subseteq powerPending /\ actionPending' \subseteq actionPending
        /\ confirms' = confirms /\ issuedAt' = issuedAt /\ wire' = wire
    BY <1>4 DEF RateLimited, FailChecks, RefuseToken, ActionConsumeFails, Unexpired, stores, history
  <2>2. \A d \in Calls \ {c} : pc'[d] = pc[d] /\ result'[d] = result[d]
    BY <1>4, <1>1 DEF RateLimited, FailChecks, RefuseToken, Return, TypeOK
  <2>3. pc'[c] = "done"
    BY <1>4, <1>1 DEF RateLimited, FailChecks, RefuseToken, Return, TypeOK
  <2>4. StoreInv'
    BY <1>2, <1>3, <2>1, <2>2, Unrelated DEF StoreInv
  <2> QED
    BY <1>2, <1>3, <2>1, <2>2, <2>3, <2>4, ConsumedByOne DEF PastConsume
<1>5. CASE StartPower(c, r) \/ StartRequest(c, r)
  <2>1. /\ powerPending' = powerPending /\ actionPending' = actionPending
        /\ confirms' = confirms /\ issuedAt' = issuedAt /\ wire' = wire /\ result' = result
    BY <1>5 DEF StartPower, StartRequest, Await, stores, history
  <2>2. pc'[c] = "permission" /\ \A d \in Calls \ {c} : pc'[d] = pc[d]
    BY <1>5, <1>1 DEF StartPower, StartRequest, Await, TypeOK
  <2>3. IsPower(r) \/ r.token = NoToken
    BY <1>5 DEF StartPower, StartRequest
  <2>4. StoreInv'
    BY <1>2, <1>3, <2>1, <2>2, Unrelated DEF StoreInv
  <2> QED
    BY <1>2, <1>3, <2>1, <2>2, <2>3, <2>4, ConsumedByOne DEF PastConsume
<1>6. CASE IssueAtOnce(c, r)
  <2>1. /\ pc'[c] = "done" /\ result'[c] = "requires_confirmation"
        /\ \A d \in Calls \ {c} : pc'[d] = pc[d] /\ result'[d] = result[d]
    BY <1>6, <1>1 DEF IssueAtOnce, Return, TypeOK
  <2>2. wire' = wire /\ confirms' = confirms /\ ~IsPower(r) /\ ActionCreate(c, r)
    BY <1>6 DEF IssueAtOnce, ActionCreate
  <2>3. StoreInv'
    BY <1>2, <1>3, <2>1, <2>2, IssueStep DEF StoreInv
  <2> QED
    BY <1>2, <1>3, <2>1, <2>2, <2>3, ConsumedByOne DEF PastConsume
<1>7. CASE StartConfirmed(c, r)
  <2>1. result' = result /\ \A d \in Calls \ {c} : pc'[d] = pc[d] /\ wire'[d] = wire[d]
    BY <1>7, <1>1 DEF StartConfirmed, Await, Send, TypeOK
  <2>2. ~IsPower(r) /\ ActionConsume(c, r)
    BY <1>7 DEF StartConfirmed
  <2>3. StoreInv' /\ confirms'[c] # NoToken
    BY <1>2, <1>3, <2>1, <2>2, ConsumeStep DEF StoreInv
  <2>4. \A d \in Calls \ {c} : confirms'[d] = confirms[d]
    BY <2>2 DEF ActionConsume
  <2> QED
    BY <1>3, <2>1, <2>3, <2>4, ConsumedByOne
<1> QED
  BY <1>4, <1>5, <1>6, <1>7

\* What follows a reply keeps what ties stores and calls together.
LEMMA StoreInvReply ==
  ASSUME IInv, NEW c \in Calls, Reply(c)
  PROVE  StoreInv' /\ ConsumedBeforeActing'
<1> USE DEF Resumes
<1>1. TypeOK /\ LifeOfCall
  BY DEF IInv
<1>2. pc[c] \in {"permission", "lookup", "act"} /\ result[c] = "none" /\ req[c] \in Requests
  BY <1>1, Awaiting
<1>3. PastConsume(c) => confirms[c] # NoToken
  BY DEF IInv, ConsumedBeforeActing
<1>4. CASE PermissionFails(c) \/ Installing(c) \/ PowerRefused(c) \/ LookupFindsNone(c)
           \/ LookupFails(c) \/ ActFails(c) \/ ActSucceeds(c)
  <2>1. /\ powerPending' \subseteq powerPending /\ actionPending' \subseteq actionPending
        /\ confirms' = confirms /\ issuedAt' = issuedAt /\ wire' = wire /\ req' = req
    BY <1>4 DEF PermissionFails, Installing, PowerRefused, LookupFindsNone, LookupFails, ActFails,
       ActSucceeds, PowerConsumeFails, Unexpired, stores, history
  <2>2. pc'[c] = "done" /\ \A d \in Calls \ {c} : pc'[d] = pc[d] /\ result'[d] = result[d]
    BY <1>4, <1>1 DEF PermissionFails, Installing, PowerRefused, LookupFindsNone, LookupFails,
       ActFails, ActSucceeds, Return, TypeOK
  <2>3. StoreInv'
    BY <1>2, <2>1, <2>2, Unrelated DEF StoreInv
  <2> QED
    BY <1>3, <2>1, <2>2, <2>3, ConsumedByOne DEF PastConsume
<1>5. CASE PowerDirect(c) \/ ActionSend(c) \/ LookupFinds(c)
  <2>1. /\ powerPending' = powerPending /\ actionPending' = actionPending /\ result' = result
        /\ confirms' = confirms /\ issuedAt' = issuedAt /\ req' = req
    BY <1>5 DEF PowerDirect, ActionSend, LookupFinds, Send, Await, stores, history
  <2>2. pc'[c] = "act" /\ \A d \in Calls \ {c} : pc'[d] = pc[d] /\ wire'[d] = wire[d]
    BY <1>5, <1>1 DEF PowerDirect, ActionSend, LookupFinds, Send, Await, TypeOK
  <2>3. StoreInv'
    BY <1>2, <2>1, <2>2, Unrelated DEF StoreInv
  <2>4. ~NeedsConfirmation(req[c]) \/ PastConsume(c)
    BY <1>5 DEF PowerDirect, ActionSend, LookupFinds, PastConsume
  <2> QED
    BY <1>3, <2>1, <2>2, <2>3, <2>4, ConsumedByOne DEF PastConsume
<1>6. CASE PowerIssue(c) \/ ActionIssue(c)
  <2>1. /\ pc'[c] = "done" /\ result'[c] = "requires_confirmation"
        /\ \A d \in Calls \ {c} : pc'[d] = pc[d] /\ result'[d] = result[d]
    BY <1>6, <1>1 DEF PowerIssue, ActionIssue, Return, TypeOK
  <2>2. /\ wire' = wire /\ confirms' = confirms /\ req' = req
        /\ \/ IsPower(req[c]) /\ PowerCreate(c, req[c])
           \/ ~IsPower(req[c]) /\ ActionCreate(c, req[c])
    BY <1>6 DEF PowerIssue, ActionIssue, PowerCreate, ActionCreate
  <2>3. StoreInv'
    BY <1>2, <2>1, <2>2, IssueStep DEF StoreInv
  <2> QED
    BY <1>3, <2>1, <2>2, <2>3, ConsumedByOne DEF PastConsume
<1>7. CASE PowerConfirmed(c)
  <2>1. /\ result' = result /\ req' = req
        /\ \A d \in Calls \ {c} : pc'[d] = pc[d] /\ wire'[d] = wire[d]
    BY <1>7, <1>1 DEF PowerConfirmed, Await, Send, TypeOK
  <2>2. IsPower(req[c]) /\ PowerConsume(c, req[c])
    BY <1>7 DEF PowerConfirmed
  <2>3. StoreInv' /\ confirms'[c] # NoToken
    BY <1>2, <2>1, <2>2, ConsumeStep DEF StoreInv
  <2>4. \A d \in Calls \ {c} : confirms'[d] = confirms[d]
    BY <2>2, <1>1 DEF PowerConsume, TypeOK
  <2> QED
    BY <2>1, <2>3, <2>4, ConsumedByOne
<1> QED
  BY <1>4, <1>5, <1>6, <1>7 DEF Reply, PermissionReply, LookupReply, ActReply

\* Every step keeps what ties stores and calls together.
LEMMA StoreInvStep == IInv /\ [Next]_vars => StoreInv' /\ ConsumedBeforeActing'
<1> SUFFICES ASSUME IInv, [Next]_vars PROVE StoreInv' /\ ConsumedBeforeActing'
  OBVIOUS
<1>1. ASSUME NEW c \in Calls, Start(c) PROVE StoreInv' /\ ConsumedBeforeActing'
  BY <1>1, StoreInvStart DEF Start
<1>2. ASSUME NEW c \in Calls, Reply(c) PROVE StoreInv' /\ ConsumedBeforeActing'
  BY <1>2, StoreInvReply
<1>3. ASSUME NEW c \in Calls, PanelExecutes(c) \/ PanelRefuses(c)
      PROVE  StoreInv' /\ ConsumedBeforeActing'
  <2>1. /\ powerPending' = powerPending /\ actionPending' = actionPending /\ result' = result
        /\ confirms' = confirms /\ issuedAt' = issuedAt /\ req' = req /\ pc' = pc
    BY <1>3 DEF PanelExecutes, PanelRefuses, stores, history
  <2>2. wire[c] # "none" /\ \A d \in Calls \ {c} : wire'[d] = wire[d]
    BY <1>3 DEF PanelExecutes, PanelRefuses, IInv, TypeOK
  <2>3. StoreInv'
    BY <2>1, Unrelated DEF StoreInv
  <2>4. PastConsume(c) => confirms[c] # NoToken
    BY DEF IInv, ConsumedBeforeActing
  <2> QED
    BY <2>1, <2>2, <2>3, <2>4, ConsumedByOne DEF PastConsume
<1>4. CASE Tick \/ UNCHANGED vars
  <2>1. /\ powerPending' = powerPending /\ actionPending' = actionPending /\ result' = result
        /\ confirms' = confirms /\ issuedAt' = issuedAt /\ req' = req /\ pc' = pc /\ wire' = wire
    BY <1>4 DEF Tick, vars, stores, calls, history
  <2>2. StoreInv'
    BY <2>1, Unrelated DEF StoreInv
  <2> QED
    BY <2>1, <2>2 DEF IInv, ConsumedBeforeActing, PastConsume
<1>5. CASE Restart
  <2>1. /\ powerPending' \subseteq powerPending /\ actionPending' \subseteq actionPending
        /\ confirms' = confirms /\ issuedAt' = issuedAt /\ req' = req /\ wire' = wire
    BY <1>5 DEF Restart
  <2>2. \A c \in Calls : /\ result[c] = "requires_confirmation" => result'[c] = result[c]
                         /\ pc'[c] \in {"idle", "done"}
    BY <1>5 DEF Restart, IInv, LifeOfCall, TypeOK
  <2>3. StoreInv'
    BY <2>1, <2>2, Unrelated DEF StoreInv
  <2> QED
    BY <2>1, <2>2, <2>3 DEF IInv, ConsumedBeforeActing, PastConsume
<1> QED
  BY <1>1, <1>2, <1>3, <1>4, <1>5 DEF Next

-----------------------------------------------------------------------------
(* What a call records, and what it has sent. *)

\* A step of one call leaves the others alone.
LEMMA OthersUntouched ==
  ASSUME TypeOK, NEW c \in Calls,
         Start(c) \/ Reply(c) \/ PanelExecutes(c) \/ PanelRefuses(c)
  PROVE  \A d \in Calls \ {c} :
           /\ pc'[d] = pc[d] /\ req'[d] = req[d] /\ result'[d] = result[d]
           /\ audit'[d] = audit[d] /\ wire'[d] = wire[d] /\ confirms'[d] = confirms[d]
           /\ recordedAt'[d] = recordedAt[d]
<1> USE DEF TypeOK, Admit, Await, Send, Return, Resumes, stores, history
<1>1. ASSUME NEW r \in Requests, RateLimited(c, r) \/ StartPower(c, r) \/ FailChecks(c, r)
                                   \/ StartRequest(c, r)
      PROVE  \A d \in Calls \ {c} :
               /\ pc'[d] = pc[d] /\ req'[d] = req[d] /\ result'[d] = result[d]
               /\ audit'[d] = audit[d] /\ wire'[d] = wire[d] /\ confirms'[d] = confirms[d]
               /\ recordedAt'[d] = recordedAt[d]
  BY <1>1 DEF RateLimited, StartPower, FailChecks, StartRequest
<1>2. ASSUME NEW r \in Requests, IssueAtOnce(c, r) \/ StartConfirmed(c, r) \/ RefuseToken(c, r)
      PROVE  \A d \in Calls \ {c} :
               /\ pc'[d] = pc[d] /\ req'[d] = req[d] /\ result'[d] = result[d]
               /\ audit'[d] = audit[d] /\ wire'[d] = wire[d] /\ confirms'[d] = confirms[d]
               /\ recordedAt'[d] = recordedAt[d]
  BY <1>2 DEF IssueAtOnce, StartConfirmed, RefuseToken, ActionCreate, ActionConsume,
     ActionConsumeFails
<1>3. CASE PermissionReply(c)
  BY <1>3 DEF PermissionReply, PermissionFails, Installing, PowerDirect, PowerIssue, PowerConfirmed,
     PowerRefused, ActionIssue, ActionSend, PowerCreate, ActionCreate, PowerConsume,
     PowerConsumeFails
<1>4. CASE LookupReply(c) \/ ActReply(c)
  BY <1>4 DEF LookupReply, LookupFinds, LookupFindsNone, LookupFails, ActReply, ActSucceeds,
     ActFails, RecordBackup
<1>5. CASE PanelExecutes(c) \/ PanelRefuses(c)
  BY <1>5 DEF PanelExecutes, PanelRefuses
<1> QED
  BY <1>1, <1>2, <1>3, <1>4, <1>5 DEF Start, Reply

\* A call in flight has no record and, before it acts, no request at the panel.
LEMMA RecordsStep == IInv /\ [Next]_vars => RecordsOfCall'
<1> SUFFICES ASSUME IInv, [Next]_vars PROVE RecordsOfCall'
  OBVIOUS
<1>1. TypeOK /\ LifeOfCall /\ RecordsOfCall
  BY DEF IInv
<1>2. ASSUME NEW c \in Calls, Start(c) \/ Reply(c) \/ PanelExecutes(c) \/ PanelRefuses(c),
             /\ pc'[c] # "done" => audit'[c] = <<>>
             /\ pc'[c] \in {"idle", "permission", "lookup"} => wire'[c] = "none"
      PROVE  RecordsOfCall'
  BY <1>1, <1>2, OthersUntouched DEF RecordsOfCall
<1>3. ASSUME NEW c \in Calls, Start(c) PROVE RecordsOfCall'
  <2>1. PICK r \in Requests :
          \/ RateLimited(c, r) \/ StartPower(c, r) \/ FailChecks(c, r) \/ StartRequest(c, r)
          \/ IssueAtOnce(c, r) \/ StartConfirmed(c, r) \/ RefuseToken(c, r)
    BY <1>3 DEF Start
  <2>2. audit[c] = <<>> /\ wire[c] = "none"
    BY <1>1, <2>1 DEF RecordsOfCall, RateLimited, StartPower, FailChecks, StartRequest, IssueAtOnce,
       StartConfirmed, RefuseToken, Admit
  <2>3. CASE RateLimited(c, r) \/ FailChecks(c, r) \/ IssueAtOnce(c, r) \/ RefuseToken(c, r)
    BY <1>1, <1>2, <1>3, <2>3 DEF TypeOK, RateLimited, FailChecks, IssueAtOnce, RefuseToken, Return
  <2>4. CASE StartPower(c, r) \/ StartRequest(c, r)
    BY <1>1, <1>2, <1>3, <2>2, <2>4 DEF TypeOK, StartPower, StartRequest, Await
  <2>5. CASE StartConfirmed(c, r)
    BY <1>1, <1>2, <1>3, <2>2, <2>5 DEF TypeOK, StartConfirmed, Await, Send
  <2> QED
    BY <2>1, <2>3, <2>4, <2>5
<1>4. ASSUME NEW c \in Calls, Reply(c) PROVE RecordsOfCall'
  <2>1. audit[c] = <<>>
    BY <1>1, <1>4, Awaiting DEF RecordsOfCall
  <2>2. CASE PowerDirect(c) \/ PowerConfirmed(c) \/ ActionSend(c) \/ LookupFinds(c)
    BY <1>1, <1>2, <1>4, <2>1, <2>2
    DEF TypeOK, PowerDirect, PowerConfirmed, ActionSend, LookupFinds, Send, Await
  <2>3. CASE ~(PowerDirect(c) \/ PowerConfirmed(c) \/ ActionSend(c) \/ LookupFinds(c))
    <3>1. pc'[c] = "done"
      BY <1>1, <1>4, <2>3 DEF TypeOK, Reply, PermissionReply, PermissionFails, Installing, PowerIssue,
         PowerRefused, ActionIssue, LookupReply, LookupFindsNone, LookupFails, ActReply,
         ActSucceeds, ActFails, Return
    <3> QED
      BY <1>2, <1>4, <3>1
  <2> QED
    BY <2>2, <2>3
<1>5. ASSUME NEW c \in Calls, PanelExecutes(c) \/ PanelRefuses(c) PROVE RecordsOfCall'
  <2>1. wire[c] = "sent" /\ pc' = pc /\ audit' = audit
    BY <1>5 DEF PanelExecutes, PanelRefuses
  <2> QED
    BY <1>1, <1>2, <1>5, <2>1 DEF RecordsOfCall
<1>6. CASE Tick \/ UNCHANGED vars
  BY <1>1, <1>6 DEF Tick, vars, calls, RecordsOfCall
<1>7. CASE Restart
  BY <1>1, <1>7 DEF Restart, RecordsOfCall, TypeOK
<1> QED
  BY <1>3, <1>4, <1>5, <1>6, <1>7 DEF Next

\* Only create_server_backup feeds the limiter, and it has a server.
LEMMA BackupHasServer ==
  ASSUME NEW r \in Requests, HandlerOf(r.tool).backupLimit
  PROVE  r.tool = "create_server_backup" /\ r.serverId \in Servers
<1>1. r.tool = "create_server_backup"
  BY DEF HandlerOf, Plain, WriteServerFile, CreateServerBackup, RestoreServerBackup,
     DeleteServerBackup, DeleteServerFiles, DeleteServerDatabase, DeleteServerSubuser,
     DeleteServerAllocation, CreateServer, DeleteServer
<1>2. r.serverId # AdminServer
  BY <1>1 DEF Requests
<1> QED
  BY <1>1, <1>2, RequestParts

\* The limiter remembers a server's last backup until a restart.
LEMMA BackupsStep == IInv /\ [Next]_vars => BackupsRemembered'
<1> SUFFICES ASSUME IInv, [Next]_vars PROVE BackupsRemembered'
  OBVIOUS
<1>1. TypeOK /\ LifeOfCall /\ BackupsRemembered
  BY DEF IInv
<1>2. ASSUME NEW c \in Calls, Start(c) \/ Reply(c) \/ PanelExecutes(c) \/ PanelRefuses(c),
             lastBackup' = lastBackup, now' = now, recordedAt' = recordedAt,
             recordedAt[c] = 0 \/ (pc' = pc /\ req' = req)
      PROVE  BackupsRemembered'
  BY <1>1, <1>2, OthersUntouched DEF BackupsRemembered
<1>3. ASSUME NEW c \in Calls, Start(c) PROVE BackupsRemembered'
  <2>1. PICK r \in Requests :
          \/ RateLimited(c, r) \/ StartPower(c, r) \/ FailChecks(c, r) \/ StartRequest(c, r)
          \/ IssueAtOnce(c, r) \/ StartConfirmed(c, r) \/ RefuseToken(c, r)
    BY <1>3 DEF Start
  <2>2. pc[c] = "idle" /\ lastBackup' = lastBackup /\ now' = now
    BY <2>1 DEF RateLimited, StartPower, FailChecks, StartRequest, IssueAtOnce, StartConfirmed,
       RefuseToken, Admit, clock
  <2>3. recordedAt' = recordedAt
    BY <2>1 DEF RateLimited, StartPower, FailChecks, StartRequest, IssueAtOnce, StartConfirmed,
       RefuseToken, ActionCreate, ActionConsume, ActionConsumeFails, history
  <2>4. recordedAt[c] = 0
    BY <1>1, <2>2 DEF BackupsRemembered
  <2> QED
    BY <1>2, <1>3, <2>2, <2>3, <2>4
<1>4. ASSUME NEW c \in Calls, Reply(c) PROVE BackupsRemembered'
  <2>1. recordedAt[c] = 0 /\ req[c] \in Requests
    BY <1>1, <1>4, Awaiting DEF BackupsRemembered
  <2>2. CASE ActSucceeds(c) /\ HandlerOf(req[c].tool).backupLimit
    <3> DEFINE s == req[c].serverId
    <3>1. s \in Servers
      BY <2>1, <2>2, BackupHasServer
    <3>2. lastBackup' = [lastBackup EXCEPT ![s] = now] /\ recordedAt' = [recordedAt EXCEPT ![c] = now]
      BY <2>2 DEF ActSucceeds, RecordBackup
    <3>3. now' = now /\ req' = req /\ pc' = [pc EXCEPT ![c] = "done"]
      BY <2>2 DEF ActSucceeds, Return, clock
    <3>4. now \in Nat /\ lastBackup'[s] = now
      BY <1>1, <3>1, <3>2 DEF TypeOK
    <3>5. ASSUME NEW d \in Calls, recordedAt'[d] # 0
          PROVE  /\ pc'[d] = "done" /\ req[d].serverId \in Servers
                 /\ recordedAt'[d] <= lastBackup'[req[d].serverId]
                 /\ lastBackup'[req[d].serverId] <= now
      <4>1. CASE d = c
        BY <1>1, <3>1, <3>2, <3>3, <3>4, <4>1 DEF TypeOK
      <4>2. CASE d # c
        <5>1. recordedAt'[d] = recordedAt[d] /\ pc'[d] = pc[d]
          BY <1>1, <3>2, <3>3, <4>2 DEF TypeOK
        <5>2. /\ pc[d] = "done" /\ req[d].serverId \in Servers
              /\ recordedAt[d] <= lastBackup[req[d].serverId]
              /\ lastBackup[req[d].serverId] <= now
          BY <1>1, <3>5, <5>1 DEF BackupsRemembered
        <5>3. /\ recordedAt[d] \in Nat /\ lastBackup[req[d].serverId] \in Nat
          BY <1>1, <5>2 DEF TypeOK
        <5>4. CASE req[d].serverId = s
          BY <3>4, <5>1, <5>2, <5>3, <5>4
        <5>5. CASE req[d].serverId # s
          BY <1>1, <3>2, <5>1, <5>2, <5>5 DEF TypeOK
        <5> QED
          BY <5>4, <5>5
      <4> QED
        BY <4>1, <4>2
    <3> QED
      BY <3>3, <3>5 DEF BackupsRemembered
  <2>3. CASE ~(ActSucceeds(c) /\ HandlerOf(req[c].tool).backupLimit)
    <3>1. lastBackup' = lastBackup /\ now' = now /\ recordedAt' = recordedAt
      BY <1>4, <2>3 DEF Reply, PermissionReply, PermissionFails, Installing, PowerDirect, PowerIssue,
         PowerConfirmed, PowerRefused, ActionIssue, ActionSend, LookupReply, LookupFinds,
         LookupFindsNone, LookupFails, ActReply, ActSucceeds, ActFails, RecordBackup, Resumes,
         PowerCreate, ActionCreate, PowerConsume, PowerConsumeFails, clock, limiters, history
    <3> QED
      BY <1>2, <1>4, <2>1, <3>1
  <2> QED
    BY <2>2, <2>3
<1>5. ASSUME NEW c \in Calls, PanelExecutes(c) \/ PanelRefuses(c) PROVE BackupsRemembered'
  BY <1>2, <1>5 DEF PanelExecutes, PanelRefuses, clock, limiters, history
<1>6. CASE Tick
  <2>1. /\ pc' = pc /\ req' = req /\ recordedAt' = recordedAt /\ lastBackup' = lastBackup
        /\ now' = now + 1
    BY <1>6 DEF Tick, calls, history, limiters
  <2>2. ASSUME NEW c \in Calls, recordedAt[c] # 0
        PROVE  lastBackup[req[c].serverId] <= now + 1
    BY <1>1, <2>2 DEF BackupsRemembered, TypeOK
  <2> QED
    BY <1>1, <2>1, <2>2 DEF BackupsRemembered
<1>7. CASE Restart
  BY <1>7 DEF Restart, BackupsRemembered
<1>8. CASE UNCHANGED vars
  BY <1>1, <1>8 DEF vars, calls, history, limiters, clock, BackupsRemembered
<1> QED
  BY <1>3, <1>4, <1>5, <1>6, <1>7, <1>8 DEF Next

-----------------------------------------------------------------------------
(* The theorems. *)

\* The invariant holds initially.
LEMMA InitIInv == Init => IInv
<1> SUFFICES ASSUME Init PROVE IInv
  OBVIOUS
<1>1. TypeOK
  BY InitType
<1> QED
  BY <1>1 DEF Init, IInv, LifeOfCall, PowerStoreOK, ActionStoreOK, ConfirmsOK, ConfirmedOnce,
     ConsumedBeforeActing, PastConsume, RecordsOfCall, BackupsRemembered

\* Every step keeps the invariant.
LEMMA StepIInv == IInv /\ [Next]_vars => IInv'
BY TypeStep, LifeStep, StoreInvStep, RecordsStep, BackupsStep DEF IInv, StoreInv

\* Stores, limiters, calls and history keep their types, and what ties them
\* together holds in every reachable state.
THEOREM ConfirmationInvariant == Spec => []IInv
<1> QED
  BY InitIInv, StepIInv, PTL DEF Spec

\* Every variable of the confirmed tools keeps its type.
THEOREM TypeCorrect == Spec => []TypeOK
<1>1. IInv => TypeOK
  BY DEF IInv
<1> QED
  BY <1>1, ConfirmationInvariant, PTL

\* No power action or confirmed tool reaches the panel unless an earlier call
\* of the same account asked for the same and was told to confirm it.
THEOREM ActionsConfirmed == Spec => []NoActionWithoutConfirmation
<1>1. IInv => NoActionWithoutConfirmation
  BY DEF IInv, TypeOK, ConsumedBeforeActing, PastConsume, ConfirmsOK, NoActionWithoutConfirmation
<1> QED
  BY <1>1, ConfirmationInvariant, PTL

\* A confirmation token is consumed by one call at most.
THEOREM OneActionPerToken == Spec => []ConfirmedOnce
<1>1. IInv => ConfirmedOnce
  BY DEF IInv
<1> QED
  BY <1>1, ConfirmationInvariant, PTL


\* A token that is consumed was issued no longer than its lifetime ago, by
\* the clock of the consuming step: eviction is lazy and yet never late.
LEMMA ConsumesInTime ==
  ASSUME IInv, NEW c \in Calls, NEW r \in Requests,
         \/ IsPower(r) /\ PowerConsume(c, r)
         \/ ~IsPower(r) /\ ActionConsume(c, r)
  PROVE  \A d \in Calls : confirms'[d] # confirms[d] =>
                            d = c /\ now <= issuedAt[confirms'[d]] + Ttl
<1>1. PICK e : /\ \/ IsPower(r) /\ e \in powerPending /\ PowerMatches(e, r)
                  \/ ~IsPower(r) /\ e \in actionPending /\ ActionMatches(e, r)
               /\ now <= e.expiresAt
  BY DEF PowerConsume, ActionConsume, Unexpired
<1>2. e.token = r.token
  BY <1>1, MatchIsAgreement
<1>3. e.expiresAt = issuedAt[e.token] + Ttl
  BY <1>1 DEF IInv, PowerStoreOK, ActionStoreOK
<1>4. confirms' = [confirms EXCEPT ![c] = r.token]
  BY DEF PowerConsume, ActionConsume
<1> QED
  BY <1>1, <1>2, <1>3, <1>4 DEF IInv, TypeOK

\* A consumed token was issued at most its lifetime ago (ConfirmedInTime).
THEOREM ConsumedInTime == Spec => ConfirmedInTime
<1>1. IInv /\ [Next]_vars =>
        [\A c \in Calls :
           confirms'[c] # confirms[c] => now <= issuedAt[confirms'[c]] + Ttl]_vars
  <2> SUFFICES ASSUME IInv, [Next]_vars, NEW d \in Calls, confirms'[d] # confirms[d]
               PROVE  now <= issuedAt[confirms'[d]] + Ttl
    OBVIOUS
  <2>1. ASSUME NEW c \in Calls, NEW r \in Requests,
               \/ RateLimited(c, r) \/ StartPower(c, r) \/ FailChecks(c, r)
               \/ StartRequest(c, r) \/ IssueAtOnce(c, r) \/ RefuseToken(c, r)
        PROVE  FALSE
    BY <2>1 DEF RateLimited, StartPower, FailChecks, StartRequest, IssueAtOnce, RefuseToken,
       ActionCreate, ActionConsumeFails, history
  <2>2. ASSUME NEW c \in Calls, NEW r \in Requests, StartConfirmed(c, r)
        PROVE  now <= issuedAt[confirms'[d]] + Ttl
    BY <2>2, ConsumesInTime DEF StartConfirmed
  <2>3. ASSUME NEW c \in Calls, Reply(c)
        PROVE  now <= issuedAt[confirms'[d]] + Ttl
    <3>1. req[c] \in Requests
      BY <2>3, Awaiting DEF IInv
    <3>2. CASE PowerConfirmed(c)
      BY <3>1, <3>2, ConsumesInTime DEF PowerConfirmed
    <3>3. CASE ~PowerConfirmed(c)
      BY <2>3, <3>3 DEF Reply, PermissionReply, LookupReply, ActReply, PermissionFails, Installing,
         PowerDirect, PowerIssue, PowerRefused, ActionIssue, ActionSend, LookupFinds,
         LookupFindsNone, LookupFails, ActSucceeds, ActFails, PowerCreate, ActionCreate,
         PowerConsumeFails, history
    <3> QED
      BY <3>2, <3>3
  <2> QED
    BY <2>1, <2>2, <2>3 DEF Next, Start, PanelExecutes, PanelRefuses, Tick, Restart, vars, history
<1> QED
  BY <1>1, ConfirmationInvariant, PTL DEF Spec, ConfirmedInTime

\* server_power looks at the token last: once it is consumed, the action is
\* on its way.
LEMMA SpentToActStep ==
  IInv /\ PowerTokenSpentOnlyToAct /\ [Next]_vars => PowerTokenSpentOnlyToAct'
<1> SUFFICES ASSUME IInv, PowerTokenSpentOnlyToAct, [Next]_vars PROVE PowerTokenSpentOnlyToAct'
  OBVIOUS
<1> USE DEF PowerTokenSpentOnlyToAct
<1>1. TypeOK /\ LifeOfCall
  BY DEF IInv
<1>2. ASSUME NEW c \in Calls,
             \A d \in Calls \ {c} :
               req'[d] = req[d] /\ wire'[d] = wire[d] /\ confirms'[d] = confirms[d],
             confirms'[c] # NoToken /\ IsPower(req'[c]) => wire'[c] # "none"
      PROVE  PowerTokenSpentOnlyToAct'
  BY <1>2
<1>3. ASSUME NEW c \in Calls, NEW r \in Requests,
             \/ RateLimited(c, r) \/ StartPower(c, r) \/ FailChecks(c, r) \/ StartRequest(c, r)
             \/ IssueAtOnce(c, r) \/ RefuseToken(c, r)
      PROVE  PowerTokenSpentOnlyToAct'
  <2>1. confirms[c] = NoToken /\ confirms' = confirms /\ wire' = wire
    BY <1>1, <1>3 DEF LifeOfCall, RateLimited, StartPower, FailChecks, StartRequest, IssueAtOnce,
       RefuseToken, Admit, ActionCreate, ActionConsumeFails, history
  <2>2. \A d \in Calls \ {c} : req'[d] = req[d]
    BY <1>1, <1>3 DEF TypeOK, RateLimited, StartPower, FailChecks, StartRequest, IssueAtOnce,
       RefuseToken, Admit
  <2> QED
    BY <1>2, <2>1, <2>2
<1>4. ASSUME NEW c \in Calls, NEW r \in Requests, StartConfirmed(c, r)
      PROVE  PowerTokenSpentOnlyToAct'
  <2>1. ~IsPower(req'[c]) /\ \A d \in Calls \ {c} :
          req'[d] = req[d] /\ wire'[d] = wire[d] /\ confirms'[d] = confirms[d]
    BY <1>1, <1>4 DEF TypeOK, StartConfirmed, Admit, ActionConsume, Send
  <2> QED
    BY <1>2, <2>1
<1>5. ASSUME NEW c \in Calls, Reply(c) PROVE PowerTokenSpentOnlyToAct'
  <2>1. CASE PowerConfirmed(c) \/ PowerDirect(c) \/ ActionSend(c) \/ LookupFinds(c)
    <3>1. /\ wire' = [wire EXCEPT ![c] = "sent"] /\ req' = req
          /\ \A d \in Calls \ {c} : confirms'[d] = confirms[d]
      BY <2>1, <1>1 DEF PowerConfirmed, PowerDirect, ActionSend, LookupFinds, Send, PowerConsume,
         Resumes, TypeOK, history
    <3> QED
      BY <3>1, <1>1, <1>2 DEF TypeOK
  <2>2. CASE ~(PowerConfirmed(c) \/ PowerDirect(c) \/ ActionSend(c) \/ LookupFinds(c))
    <3>1. wire' = wire /\ req' = req /\ confirms' = confirms
      BY <1>5, <2>2 DEF Reply, PermissionReply, LookupReply, ActReply, PermissionFails, Installing,
         PowerIssue, PowerRefused, ActionIssue, LookupFindsNone, LookupFails, ActSucceeds,
         ActFails, PowerCreate, ActionCreate, PowerConsumeFails, Resumes, history
    <3> QED
      BY <3>1
  <2> QED
    BY <2>1, <2>2
<1>6. ASSUME NEW c \in Calls, PanelExecutes(c) \/ PanelRefuses(c) PROVE PowerTokenSpentOnlyToAct'
  BY <1>6, <1>1 DEF PanelExecutes, PanelRefuses, TypeOK, history
<1>7. CASE Tick \/ Restart \/ UNCHANGED vars
  BY <1>7 DEF Tick, Restart, vars, calls, history
<1> QED
  BY <1>3, <1>4, <1>5, <1>6, <1>7 DEF Next, Start

\* A consumed power token has sent its power action to the panel.
THEOREM PowerTokensBuyActions == Spec => []PowerTokenSpentOnlyToAct
<1>1. Init => PowerTokenSpentOnlyToAct
  BY DEF Init, PowerTokenSpentOnlyToAct
<1> QED
  BY <1>1, SpentToActStep, ConfirmationInvariant, PTL DEF Spec

\* The records and the panel agree about a call when it returns, and what the
\* panel does later does not undo that.
LEMMA AuditStep == IInv /\ IInv' /\ AuditAgreesWithPanel /\ [Next]_vars => AuditAgreesWithPanel'
<1> SUFFICES ASSUME IInv, AuditAgreesWithPanel, [Next]_vars PROVE AuditAgreesWithPanel'
  OBVIOUS
<1> DEFINE Agrees(how, sent, records) ==
             /\ how = "ok" => sent = "executed" /\ records = <<"success">>
             /\ sent # "none" => \/ how = "lost"
                                 \/ how \in {"ok", "error"} /\ Len(records) = 1
             /\ how \in {"denied", "rate_limited"} => records # <<>>
<1>1. TypeOK /\ LifeOfCall /\ RecordsOfCall
  BY DEF IInv
<1>2. ASSUME NEW c \in Calls, Start(c) \/ Reply(c) \/ PanelExecutes(c) \/ PanelRefuses(c),
             pc'[c] = "done" => Agrees(result'[c], wire'[c], audit'[c])
      PROVE  AuditAgreesWithPanel'
  BY <1>1, <1>2, OthersUntouched DEF AuditAgreesWithPanel
<1>3. ASSUME NEW c \in Calls, NEW how, NEW records, audit[c] = <<>>, records \in Seq(Status),
             Return(c, how, records)
      PROVE  result'[c] = how /\ audit'[c] = records
  BY <1>1, <1>3 DEF TypeOK, Return
<1>4. ASSUME NEW c \in Calls, Start(c) PROVE AuditAgreesWithPanel'
  <2>1. PICK r \in Requests :
          \/ RateLimited(c, r) \/ StartPower(c, r) \/ FailChecks(c, r) \/ StartRequest(c, r)
          \/ IssueAtOnce(c, r) \/ StartConfirmed(c, r) \/ RefuseToken(c, r)
    BY <1>4 DEF Start
  <2>2. audit[c] = <<>> /\ wire[c] = "none"
    BY <1>1, <2>1 DEF RecordsOfCall, RateLimited, StartPower, FailChecks, StartRequest, IssueAtOnce,
       StartConfirmed, RefuseToken, Admit
  <2>3. CASE StartPower(c, r) \/ StartRequest(c, r) \/ StartConfirmed(c, r)
    <3>1. pc'[c] # "done"
      BY <1>1, <2>3 DEF TypeOK, StartPower, StartRequest, StartConfirmed, Send, Await
    <3> QED
      BY <1>2, <1>4, <3>1
  <2>4. CASE RateLimited(c, r) \/ FailChecks(c, r) \/ IssueAtOnce(c, r) \/ RefuseToken(c, r)
    <3>1. \/ result'[c] \in {"rate_limited", "denied"} /\ audit'[c] = <<"denied">>
          \/ result'[c] = "requires_confirmation" /\ audit'[c] = <<"success">>
      BY <1>3, <2>2, <2>4, Constants DEF RateLimited, FailChecks, IssueAtOnce, RefuseToken
    <3>2. wire' = wire
      BY <2>4 DEF RateLimited, FailChecks, IssueAtOnce, RefuseToken
    <3> QED
      BY <1>2, <1>4, <2>2, <3>1, <3>2
  <2> QED
    BY <2>1, <2>3, <2>4
<1>5. ASSUME NEW c \in Calls, Reply(c) PROVE AuditAgreesWithPanel'
  <2>1. audit[c] = <<>> /\ (pc[c] \in {"permission", "lookup"} => wire[c] = "none")
    BY <1>1, <1>5, Awaiting DEF RecordsOfCall
  <2>2. CASE PowerDirect(c) \/ PowerConfirmed(c) \/ ActionSend(c) \/ LookupFinds(c)
    <3>1. pc'[c] # "done"
      BY <1>1, <2>2 DEF TypeOK, PowerDirect, PowerConfirmed, ActionSend, LookupFinds, Send, Await
    <3> QED
      BY <1>2, <1>5, <3>1
  <2>3. CASE PermissionFails(c)
    <3>1. \/ result'[c] = "denied" /\ audit'[c] \in {<<"denied">>, <<"denied", "denied">>}
          \/ result'[c] = "error" /\ audit'[c] \in {<<"error">>, <<"denied", "error">>}
      BY <1>3, <2>1, <2>3, Constants DEF PermissionFails
    <3>2. wire'[c] = "none"
      BY <2>1, <2>3 DEF PermissionFails, Resumes
    <3> QED
      BY <1>2, <1>5, <3>1, <3>2
  <2>4. CASE Installing(c) \/ PowerRefused(c) \/ PowerIssue(c) \/ ActionIssue(c)
    <3>1. \/ result'[c] = "denied" /\ audit'[c] = <<"denied">>
          \/ result'[c] = "requires_confirmation" /\ audit'[c] = <<"success">>
      BY <1>3, <2>1, <2>4, Constants DEF Installing, PowerRefused, PowerIssue, ActionIssue
    <3>2. wire'[c] = "none"
      BY <2>1, <2>4 DEF Installing, PowerRefused, PowerIssue, ActionIssue, Resumes
    <3> QED
      BY <1>2, <1>5, <3>1, <3>2
  <2>5. CASE LookupFindsNone(c) \/ LookupFails(c)
    <3>1. result'[c] = "error"
      BY <1>3, <2>1, <2>5, Constants DEF LookupFindsNone, LookupFails
    <3>2. wire'[c] = "none"
      BY <2>1, <2>5 DEF LookupFindsNone, LookupFails, Resumes
    <3> QED
      BY <1>2, <1>5, <3>1, <3>2
  <2>6. CASE ActSucceeds(c)
    <3>1. result'[c] = "ok" /\ audit'[c] = <<"success">> /\ wire'[c] = "executed"
      BY <1>3, <2>1, <2>6, Constants DEF ActSucceeds
    <3> QED
      BY <1>2, <1>5, <3>1
  <2>7. CASE ActFails(c)
    <3>1. result'[c] = "error" /\ audit'[c] = <<"error">>
      BY <1>3, <2>1, <2>7, Constants DEF ActFails
    <3> QED
      BY <1>2, <1>5, <3>1
  <2> QED
    BY <1>5, <2>2, <2>3, <2>4, <2>5, <2>6, <2>7 DEF Reply, PermissionReply, LookupReply, ActReply
<1>6. ASSUME NEW c \in Calls, PanelExecutes(c) \/ PanelRefuses(c) PROVE AuditAgreesWithPanel'
  <2>1. /\ pc' = pc /\ result' = result /\ audit' = audit
        /\ wire[c] = "sent"
    BY <1>6 DEF PanelExecutes, PanelRefuses
  <2> QED
    BY <1>2, <1>6, <2>1 DEF AuditAgreesWithPanel
<1>7. CASE Tick \/ UNCHANGED vars
  BY <1>7 DEF Tick, vars, calls, AuditAgreesWithPanel
<1>8. CASE Restart
  <2> SUFFICES ASSUME NEW c \in Calls, pc'[c] = "done"
               PROVE  Agrees(result'[c], wire'[c], audit'[c])
    BY DEF AuditAgreesWithPanel
  <2>1. wire' = wire /\ audit' = audit
    BY <1>8 DEF Restart
  <2>2. CASE pc[c] = "done"
    BY <1>8, <2>1, <2>2 DEF Restart, AuditAgreesWithPanel
  <2>3. CASE pc[c] # "done"
    BY <1>8, <2>3 DEF Restart
  <2> QED
    BY <2>2, <2>3
<1> QED
  BY <1>4, <1>5, <1>6, <1>7, <1>8 DEF Next

\* The audit log and the panel agree about every call that has returned: what
\* is reported as done was done, and what was sent has its record unless a
\* restart cut the call off.
THEOREM AuditTruthful == Spec => []AuditAgreesWithPanel
<1>1. Init => AuditAgreesWithPanel
  BY DEF Init, AuditAgreesWithPanel
<1> QED
  BY <1>1, InitIInv, StepIInv, AuditStep, PTL DEF Spec

\* A call that starts in the quiet period of a backup is rate limited or
\* fails its checks: the limiter still knows the backup.
THEOREM QuietAfterBackup == Spec => BackupQuietPeriod
<1> DEFINE Quiet ==
      \A c, d \in Calls :
        (/\ pc[c] = "idle" /\ pc'[c] # "idle"
         /\ req'[c].tool = "create_server_backup"
         /\ recordedAt[d] # 0 /\ req[d].serverId = req'[c].serverId
         /\ now < recordedAt[d] + BackupInterval)
        => result'[c] \in {"denied", "rate_limited"}
<1>1. IInv /\ [Next]_vars => [Quiet]_vars
  <2> SUFFICES ASSUME IInv, [Next]_vars, NEW c \in Calls, NEW d \in Calls,
                      pc[c] = "idle", pc'[c] # "idle", req'[c].tool = "create_server_backup",
                      recordedAt[d] # 0, req[d].serverId = req'[c].serverId,
                      now < recordedAt[d] + BackupInterval
               PROVE  result'[c] \in {"denied", "rate_limited"}
    OBVIOUS
  <2> DEFINE s == req[d].serverId
  <2>1. TypeOK /\ LifeOfCall /\ BackupsRemembered
    BY DEF IInv
  <2>2. Start(c)
    <3>1. ASSUME NEW b \in Calls, Reply(b) PROVE FALSE
      BY <2>1, <3>1, Awaiting, OthersUntouched
    <3>2. ASSUME NEW b \in Calls, Start(b), b # c PROVE FALSE
      BY <2>1, <3>2, OthersUntouched
    <3>3. ASSUME NEW b \in Calls, PanelExecutes(b) \/ PanelRefuses(b) PROVE FALSE
      BY <3>3 DEF PanelExecutes, PanelRefuses
    <3>4. ~Tick /\ ~UNCHANGED vars /\ ~Restart
      BY DEF Tick, Restart, vars, calls
    <3> QED
      BY <3>1, <3>2, <3>3, <3>4 DEF Next
  <2>3. PICK r \in Requests :
          \/ RateLimited(c, r) \/ StartPower(c, r) \/ FailChecks(c, r) \/ StartRequest(c, r)
          \/ IssueAtOnce(c, r) \/ StartConfirmed(c, r) \/ RefuseToken(c, r)
    BY <2>2 DEF Start
  <2>4. req'[c] = r
    BY <2>1, <2>3 DEF TypeOK, RateLimited, StartPower, FailChecks, StartRequest, IssueAtOnce,
       StartConfirmed, RefuseToken, Admit
  <2>5. ~BackupAllowed(lastBackup[s], now)
    <3>1. s \in Servers /\ recordedAt[d] <= lastBackup[s] /\ lastBackup[s] <= now
      BY <2>1 DEF BackupsRemembered
    <3>2. recordedAt[d] \in Nat /\ lastBackup[s] \in Nat /\ now \in Nat
      BY <2>1, <3>1 DEF TypeOK
    <3> QED
      BY <3>1, <3>2 DEF BackupAllowed, NeverBackedUp
  <2>6. HandlerOf(r.tool).backupLimit /\ ~IsPower(r)
    BY <2>4 DEF HandlerOf, CreateServerBackup, Plain, IsPower
  <2>7. ~PassesChecks(r)
    BY <2>4, <2>5, <2>6 DEF PassesChecks
  <2>8. RateLimited(c, r) \/ FailChecks(c, r)
    BY <2>3, <2>6, <2>7 DEF StartPower, StartRequest, IssueAtOnce, StartConfirmed, RefuseToken
  <2> QED
    BY <2>1, <2>8 DEF TypeOK, RateLimited, FailChecks, Return
<1> QED
  BY <1>1, ConfirmationInvariant, PTL DEF Spec, BackupQuietPeriod

\* Operations on a store drop what has expired, and consume the entry that
\* matches; all other steps of a call leave the stores alone.
LEMMA StoreChanges ==
  ASSUME IInv, PowerTokenSpentOnlyToAct, [Next]_vars, restarts' = restarts
  PROVE  \/ UNCHANGED <<stores, confirms>>
         \/ /\ confirms' = confirms
            /\ Unexpired(powerPending) \subseteq powerPending'
            /\ Unexpired(actionPending) \subseteq actionPending'
         \/ \E c \in Calls, r \in Requests :
              /\ (IsPower(r) /\ PowerConsume(c, r)) \/ (~IsPower(r) /\ ActionConsume(c, r))
              /\ req'[c] = r /\ confirms[c] = NoToken
<1> USE DEF stores
<1>1. TypeOK /\ LifeOfCall
  BY DEF IInv
<1>2. ASSUME NEW c \in Calls, NEW r \in Requests,
             \/ RateLimited(c, r) \/ StartPower(c, r) \/ FailChecks(c, r) \/ StartRequest(c, r)
             \/ IssueAtOnce(c, r) \/ RefuseToken(c, r)
      PROVE  \/ UNCHANGED <<stores, confirms>>
             \/ /\ confirms' = confirms
                /\ Unexpired(powerPending) \subseteq powerPending'
                /\ Unexpired(actionPending) \subseteq actionPending'
  BY <1>2 DEF RateLimited, StartPower, FailChecks, StartRequest, IssueAtOnce, RefuseToken,
     ActionCreate, ActionConsumeFails, Unexpired, history
<1>3. ASSUME NEW c \in Calls, NEW r \in Requests, StartConfirmed(c, r)
      PROVE  /\ ~IsPower(r) /\ ActionConsume(c, r)
             /\ req'[c] = r /\ confirms[c] = NoToken
  BY <1>1, <1>3 DEF StartConfirmed, Admit, TypeOK, LifeOfCall
<1>4. ASSUME NEW c \in Calls, Reply(c), ~PowerConfirmed(c)
      PROVE  \/ UNCHANGED <<stores, confirms>>
             \/ /\ confirms' = confirms
                /\ Unexpired(powerPending) \subseteq powerPending'
                /\ Unexpired(actionPending) \subseteq actionPending'
  BY <1>4 DEF Reply, PermissionReply, PermissionFails, Installing, PowerDirect, PowerIssue,
     PowerRefused, ActionIssue, ActionSend, LookupReply, LookupFinds, LookupFindsNone,
     LookupFails, ActReply, ActSucceeds, ActFails, PowerCreate, ActionCreate, PowerConsumeFails,
     Unexpired, history
<1>5. ASSUME NEW c \in Calls, PowerConfirmed(c)
      PROVE  /\ IsPower(req[c]) /\ PowerConsume(c, req[c]) /\ req[c] \in Requests
             /\ req'[c] = req[c] /\ confirms[c] = NoToken
  BY <1>1, <1>5 DEF PowerConfirmed, Resumes, LifeOfCall, IInv, RecordsOfCall,
     PowerTokenSpentOnlyToAct
<1>6. ASSUME \/ \E c \in Calls : PanelExecutes(c) \/ PanelRefuses(c)
             \/ Tick \/ UNCHANGED vars
      PROVE  UNCHANGED <<stores, confirms>>
  BY <1>6 DEF PanelExecutes, PanelRefuses, Tick, vars, history
<1>7. ~Restart
  BY <1>1 DEF Restart, TypeOK
<1> QED
  BY <1>2, <1>3, <1>4, <1>5, <1>6, <1>7 DEF Next, Start

\* A pending confirmation that leaves its store has expired, or a call that
\* asks for the same has consumed it.
THEOREM PendingKept == Spec => ConfirmationKept
<1> DEFINE Gone(e) == \/ now > e.expiresAt
                      \/ \E c \in Calls : confirms[c] # e.token /\ confirms'[c] = e.token
                                        /\ Asked(req'[c]) = Asked(req[e.token])
           Kept == restarts' = restarts =>
                     /\ \A e \in powerPending \ powerPending' : Gone(e)
                     /\ \A e \in actionPending \ actionPending' : Gone(e)
<1>1. IInv /\ PowerTokenSpentOnlyToAct /\ [Next]_vars => [Kept]_vars
  <2> SUFFICES ASSUME IInv, PowerTokenSpentOnlyToAct, [Next]_vars, restarts' = restarts
               PROVE  /\ \A e \in powerPending \ powerPending' : Gone(e)
                      /\ \A e \in actionPending \ actionPending' : Gone(e)
    OBVIOUS
  <2>1. TypeOK
    BY DEF IInv
  <2>2. /\ \A e \in powerPending \ Unexpired(powerPending) : now > e.expiresAt
        /\ \A e \in actionPending \ Unexpired(actionPending) : now > e.expiresAt
    BY <2>1 DEF Unexpired, TypeOK, PowerEntry, ActionEntry
  <2>3. ASSUME NEW c \in Calls, NEW r \in Requests, req'[c] = r, confirms[c] = NoToken,
               (IsPower(r) /\ PowerConsume(c, r)) \/ (~IsPower(r) /\ ActionConsume(c, r))
        PROVE  /\ \A e \in powerPending \ powerPending' : Gone(e)
               /\ \A e \in actionPending \ actionPending' : Gone(e)
    <3>1. confirms'[c] = r.token
      BY <2>1, <2>3 DEF PowerConsume, ActionConsume, TypeOK
    <3>2. ASSUME NEW e,
                 \/ IsPower(r) /\ e \in powerPending /\ PowerMatches(e, r)
                 \/ ~IsPower(r) /\ e \in actionPending /\ ActionMatches(e, r)
          PROVE  Gone(e)
      <4>1. e.token = r.token /\ e.token \in Calls /\ Asked(req[e.token]) = Asked(r)
        BY <3>2, MatchIsAgreement
      <4> QED
        BY <2>3, <3>1, <4>1
    <3>3. CASE IsPower(r)
      <4>1. PICK f \in Unexpired(powerPending) :
              PowerMatches(f, r) /\ powerPending' = Unexpired(powerPending) \ {f}
        BY <2>3, <3>3 DEF PowerConsume
      <4>2. f \in powerPending /\ Gone(f)
        BY <3>2, <3>3, <4>1 DEF Unexpired
      <4>3. actionPending' = actionPending
        BY <2>3, <3>3 DEF PowerConsume
      <4> QED
        BY <2>2, <4>1, <4>2, <4>3
    <3>4. CASE ~IsPower(r)
      <4>1. PICK f \in Unexpired(actionPending) :
              ActionMatches(f, r) /\ actionPending' = Unexpired(actionPending) \ {f}
        BY <2>3, <3>4 DEF ActionConsume
      <4>2. f \in actionPending /\ Gone(f)
        BY <3>2, <3>4, <4>1 DEF Unexpired
      <4>3. powerPending' = powerPending
        BY <2>3, <3>4 DEF ActionConsume
      <4> QED
        BY <2>2, <4>1, <4>2, <4>3
    <3> QED
      BY <3>3, <3>4
  <2> QED
    BY <2>2, <2>3, StoreChanges DEF stores
<1> QED
  BY <1>1, ConfirmationInvariant, PowerTokensBuyActions, PTL DEF Spec, ConfirmationKept

=============================================================================
