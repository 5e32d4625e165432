--------------------- MODULE ConfirmedRefinement_proofs ---------------------
(***************************************************************************)
(* ConfirmedTools implements OneTimeConfirmation, for every value of the   *)
(* constants.  Every step of the tools is of one of six kinds, and each    *)
(* kind maps to a step of the abstract specification:                      *)
(*                                                                         *)
(*   quiet            stutters: evictExpired drops only what is withdrawn  *)
(*   a token issued   Issue                                                *)
(*   a token consumed Spend                                                *)
(*   the panel acts   CarryOut, if the call consumed a token               *)
(*   time passes      Withdraw of the tokens that expire                   *)
(*   a restart        Withdraw of all that are live                        *)
(***************************************************************************)
EXTENDS ConfirmedRefinement, ConfirmedTools_proofs

-----------------------------------------------------------------------------
(* The mapping. *)

\* What is carried out under a token is what it was granted for.
CarriedAsGranted ==
  \A t \in Calls : CarriedOf(t) = IF CarriedOut(t) THEN GrantOf(t) ELSE Nothing

\* The consumer of a token asks what the token was issued for, so the deed
\* read off the consumer is the deed granted.
LEMMA CarriedIsGranted == IInv => CarriedAsGranted
<1> SUFFICES ASSUME IInv, NEW t \in Calls, CarriedOut(t)
             PROVE  CarriedOf(t) = GrantOf(t)
  BY DEF CarriedAsGranted, CarriedOf
<1> DEFINE c == CHOOSE c \in SpentBy(t) : wire[c] = "executed"
<1>1. c \in SpentBy(t)
  BY DEF CarriedOut
<1>2. c \in Calls /\ confirms[c] = t
  BY <1>1 DEF SpentBy
<1>3. t # NoToken
  BY ConfirmedToolsAssumption
<1>4. result[t] = "requires_confirmation" /\ Asked(req[t]) = Asked(req[c])
  BY <1>2, <1>3 DEF IInv, ConfirmsOK
<1> HIDE DEF c
<1> QED
  BY <1>4 DEF CarriedOf, GrantOf, Issued, c

\* Two states that agree on these are mapped to the same abstract state.
LEMMA SameToken ==
  ASSUME CarriedAsGranted, CarriedAsGranted', NEW t \in Calls,
         Issued(t)' <=> Issued(t),
         Issued(t) => req'[t] = req[t],
         SpentBy(t)' = SpentBy(t)
  PROVE  /\ GrantOf(t)' = GrantOf(t)
         /\ (Issued(t) /\ SpentBy(t) = {} => (Live(t)' <=> Live(t))) => StateOf(t)' = StateOf(t)
         /\ (CarriedOut(t)' <=> CarriedOut(t)) => CarriedOf(t)' = CarriedOf(t)
<1>1. GrantOf(t)' = GrantOf(t)
  BY DEF GrantOf
<1>2. (Issued(t) /\ SpentBy(t) = {} => (Live(t)' <=> Live(t))) => StateOf(t)' = StateOf(t)
  BY DEF StateOf
<1>3. (CarriedOut(t)' <=> CarriedOut(t)) => CarriedOf(t)' = CarriedOf(t)
  BY <1>1 DEF CarriedAsGranted
<1> QED
  BY <1>1, <1>2, <1>3

\* No token is issued at first, so none is mapped to anything else.
LEMMA InitImplements == Init => OneTime!Init
<1> SUFFICES ASSUME Init PROVE OneTime!Init
  OBVIOUS
<1>1. ASSUME NEW t \in Calls
      PROVE  StateOf(t) = "unissued" /\ GrantOf(t) = Nothing /\ CarriedOf(t) = Nothing
  BY ConfirmedToolsAssumption
     DEF Init, StateOf, GrantOf, CarriedOf, CarriedOut, SpentBy, Issued
<1> QED
  BY <1>1 DEF OneTime!Init, AbstractState, AbstractGrant, AbstractCarried

-----------------------------------------------------------------------------
(* The kinds of steps. *)

SameDeeds == \A c \in Calls : (wire'[c] = "executed") <=> (wire[c] = "executed")

SameRequests == \A c \in Calls : pc[c] # "idle" => req'[c] = req[c]

\* What has expired may go, and nothing else changes that the mapping reads.
Quiet ==
  /\ UNCHANGED <<now, confirms>>
  /\ SameDeeds
  /\ SameRequests
  /\ \A t \in Calls : Issued(t)' <=> Issued(t)
  /\ Unexpired(powerPending)' = Unexpired(powerPending)
  /\ Unexpired(actionPending)' = Unexpired(actionPending)

\* Call c gets a token for the request r.
Issues(c, r) ==
  /\ UNCHANGED <<now, confirms>>
  /\ SameDeeds
  /\ SameRequests
  /\ req'[c] = r
  /\ ~Issued(c)
  /\ \A t \in Calls : Issued(t)' <=> (t = c \/ Issued(t))
  /\ (IsPower(r) /\ PowerCreate(c, r)) \/ (~IsPower(r) /\ ActionCreate(c, r))

\* Call c consumes the token of the request r.
Consumes(c, r) ==
  /\ UNCHANGED now
  /\ SameDeeds
  /\ SameRequests
  /\ wire[c] # "executed"
  /\ confirms[c] = NoToken
  /\ \A t \in Calls : Issued(t)' <=> Issued(t)
  /\ (IsPower(r) /\ PowerConsume(c, r)) \/ (~IsPower(r) /\ ActionConsume(c, r))

\* The first step of a call
LEMMA StartKinds ==
  ASSUME IInv, NEW c \in Calls, Start(c)
  PROVE  Quiet \/ \E r \in Requests : Issues(c, r) \/ Consumes(c, r)
<1>1. TypeOK /\ LifeOfCall /\ RecordsOfCall
  BY DEF IInv
<1>2. pc[c] = "idle" /\ result[c] = "none" /\ wire[c] = "none" /\ confirms[c] = NoToken
  BY <1>1 DEF Start, RateLimited, Admit, StartPower, FailChecks, StartRequest, IssueAtOnce,
     StartConfirmed, RefuseToken, LifeOfCall
<1>3. PICK r \in Requests :
        \/ RateLimited(c, r) \/ StartPower(c, r) \/ FailChecks(c, r) \/ StartRequest(c, r)
        \/ IssueAtOnce(c, r) \/ StartConfirmed(c, r) \/ RefuseToken(c, r)
  BY DEF Start
<1>4. now' = now /\ req' = [req EXCEPT ![c] = r]
  BY <1>3 DEF RateLimited, Admit, StartPower, FailChecks, StartRequest, IssueAtOnce,
     StartConfirmed, RefuseToken, clock
<1>5. SameRequests
  BY <1>1, <1>2, <1>4 DEF SameRequests, TypeOK
<1>6. CASE RateLimited(c, r) \/ StartPower(c, r) \/ FailChecks(c, r) \/ StartRequest(c, r)
           \/ RefuseToken(c, r)
  <2>1. confirms' = confirms /\ wire' = wire /\ powerPending' = powerPending
    BY <1>6 DEF RateLimited, StartPower, FailChecks, StartRequest, RefuseToken,
       ActionConsumeFails, stores, history
  <2>2. actionPending' = actionPending \/ actionPending' = Unexpired(actionPending)
    BY <1>6 DEF RateLimited, StartPower, FailChecks, StartRequest, RefuseToken,
       ActionConsumeFails, stores
  <2>3. \A t \in Calls : Issued(t)' <=> Issued(t)
    BY <1>1, <1>2, <1>6 DEF RateLimited, StartPower, FailChecks, StartRequest, RefuseToken,
       Return, Await, Issued, TypeOK
  <2> QED
    BY <1>4, <1>5, <2>1, <2>2, <2>3 DEF Quiet, SameDeeds, Unexpired
<1>7. CASE IssueAtOnce(c, r)
  <2>1. \A t \in Calls : Issued(t)' <=> (t = c \/ Issued(t))
    BY <1>1, <1>7 DEF IssueAtOnce, Return, Issued, TypeOK
  <2>2. confirms' = confirms /\ wire' = wire /\ ~IsPower(r) /\ ActionCreate(c, r)
    BY <1>7 DEF IssueAtOnce, ActionCreate
  <2> QED
    BY <1>1, <1>2, <1>4, <1>5, <2>1, <2>2 DEF Issues, SameDeeds, Issued, TypeOK
<1>8. CASE StartConfirmed(c, r)
  <2>1. result' = result /\ ~IsPower(r) /\ ActionConsume(c, r)
    BY <1>8 DEF StartConfirmed, Await, Send
  <2>2. wire' = wire \/ wire' = [wire EXCEPT ![c] = "sent"]
    BY <1>8 DEF StartConfirmed, Send
  <2>3. SameDeeds
    BY <1>1, <1>2, <2>2 DEF SameDeeds, TypeOK
  <2> QED
    BY <1>2, <1>4, <1>5, <2>1, <2>3 DEF Consumes, Issued
<1> QED
  BY <1>3, <1>6, <1>7, <1>8

\* The steps after a reply of the panel
LEMMA ReplyKinds ==
  ASSUME IInv, PowerTokenSpentOnlyToAct, NEW c \in Calls, Reply(c)
  PROVE  Quiet \/ \E r \in Requests : Issues(c, r) \/ Consumes(c, r)
<1> DEFINE r == req[c]
<1>1. TypeOK /\ LifeOfCall /\ RecordsOfCall
  BY DEF IInv
<1>2. now' = now /\ req' = req /\ result[c] = "none" /\ r \in Requests
  BY <1>1 DEF Reply, PermissionReply, PermissionFails, Installing, PowerDirect, PowerIssue,
     PowerConfirmed, PowerRefused, ActionIssue, ActionSend, LookupReply, LookupFinds,
     LookupFindsNone, LookupFails, ActReply, ActSucceeds, ActFails, Resumes, LifeOfCall, clock
<1>3. SameRequests
  BY <1>2 DEF SameRequests
<1>4. CASE \/ PermissionFails(c) \/ Installing(c) \/ PowerRefused(c)
           \/ LookupFindsNone(c) \/ LookupFails(c) \/ ActReply(c)
  <2>1. confirms' = confirms /\ wire' = wire /\ actionPending' = actionPending
    BY <1>4 DEF PermissionFails, Installing, PowerRefused, LookupFindsNone, LookupFails,
       ActReply, ActSucceeds, ActFails, PowerConsumeFails, stores, history
  <2>2. powerPending' = powerPending \/ powerPending' = Unexpired(powerPending)
    BY <1>4 DEF PermissionFails, Installing, PowerRefused, LookupFindsNone, LookupFails,
       ActReply, ActSucceeds, ActFails, PowerConsumeFails, stores
  <2>3. \A t \in Calls : Issued(t)' <=> Issued(t)
    BY <1>1, <1>2, <1>4 DEF PermissionFails, Installing, PowerRefused, LookupFindsNone,
       LookupFails, ActReply, ActSucceeds, ActFails, Return, Issued, TypeOK
  <2> QED
    BY <1>2, <1>3, <2>1, <2>2, <2>3 DEF Quiet, SameDeeds, Unexpired
<1>5. CASE PowerDirect(c) \/ ActionSend(c) \/ LookupFinds(c)
  <2>1. wire[c] = "none" /\ wire' = [wire EXCEPT ![c] = "sent"] /\ result' = result
    BY <1>1, <1>5 DEF PowerDirect, ActionSend, LookupFinds, Resumes, Send, Await, RecordsOfCall
  <2>2. UNCHANGED <<stores, history>>
    BY <1>5 DEF PowerDirect, ActionSend, LookupFinds
  <2>3. SameDeeds
    BY <1>1, <2>1 DEF SameDeeds, TypeOK
  <2> QED
    BY <1>2, <1>3, <2>1, <2>2, <2>3 DEF Quiet, Issued, Unexpired, stores, history
<1>6. CASE PowerIssue(c) \/ ActionIssue(c)
  <2>1. \A t \in Calls : Issued(t)' <=> (t = c \/ Issued(t))
    BY <1>1, <1>6 DEF PowerIssue, ActionIssue, Return, Issued, TypeOK
  <2>2. confirms' = confirms /\ wire' = wire
    BY <1>6 DEF PowerIssue, ActionIssue, PowerCreate, ActionCreate
  <2>3. (IsPower(r) /\ PowerCreate(c, r)) \/ (~IsPower(r) /\ ActionCreate(c, r))
    BY <1>6 DEF PowerIssue, ActionIssue
  <2> QED
    BY <1>2, <1>3, <2>1, <2>2, <2>3 DEF Issues, SameDeeds, Issued
<1>7. CASE PowerConfirmed(c)
  <2>1. /\ IsPower(r) /\ PowerConsume(c, r)
        /\ wire[c] = "none" /\ wire' = [wire EXCEPT ![c] = "sent"] /\ result' = result
    BY <1>1, <1>7 DEF PowerConfirmed, Resumes, Send, Await, RecordsOfCall
  <2>2. confirms[c] = NoToken
    BY <2>1 DEF PowerTokenSpentOnlyToAct
  <2>3. SameDeeds
    BY <1>1, <2>1 DEF SameDeeds, TypeOK
  <2> QED
    BY <1>2, <1>3, <2>1, <2>2, <2>3 DEF Consumes, Issued
<1> QED
  BY <1>4, <1>5, <1>6, <1>7 DEF Reply, PermissionReply, LookupReply

-----------------------------------------------------------------------------
(* What each kind of step is mapped to. *)

\* An issued token's request stays as it is.
LEMMA GrantedRequests ==
  ASSUME IInv, SameRequests, NEW t \in Calls, Issued(t)
  PROVE  req'[t] = req[t]
BY DEF IInv, LifeOfCall, SameRequests, Issued

\* Nobody has consumed a token that is not issued.
LEMMA UnissuedUnspent ==
  ASSUME IInv, NEW t \in Calls, ~Issued(t)
  PROVE  SpentBy(t) = {}
BY ConfirmedToolsAssumption DEF IInv, ConfirmsOK, SpentBy, Issued

\* Steps the mapping does not see are stutters of the abstract specification.
LEMMA QuietMaps ==
  ASSUME IInv, CarriedAsGranted, CarriedAsGranted', Quiet
  PROVE  UNCHANGED OneTime!vars
<1>1. ASSUME NEW t \in Calls
      PROVE  StateOf(t)' = StateOf(t) /\ GrantOf(t)' = GrantOf(t) /\ CarriedOf(t)' = CarriedOf(t)
  <2>1. SpentBy(t)' = SpentBy(t) /\ (Live(t)' <=> Live(t))
    BY DEF Quiet, SpentBy, Live
  <2>2. CarriedOut(t)' <=> CarriedOut(t)
    BY <2>1 DEF Quiet, CarriedOut, SpentBy, SameDeeds
  <2>3. Issued(t) => req'[t] = req[t]
    BY GrantedRequests DEF Quiet
  <2> QED
    BY <2>1, <2>2, <2>3, SameToken DEF Quiet
<1> QED
  BY <1>1 DEF OneTime!vars, AbstractState, AbstractGrant, AbstractCarried

\* A call that is told to confirm issues a token for its deed.
LEMMA IssueMaps ==
  ASSUME IInv, CarriedAsGranted, CarriedAsGranted', NEW c \in Calls, NEW r \in Requests,
         Issues(c, r)
  PROVE  OneTime!Issue(c, Asked(r))
<1>1. \A t \in Calls : SpentBy(t)' = SpentBy(t) /\ (CarriedOut(t)' <=> CarriedOut(t))
  BY DEF Issues, SpentBy, CarriedOut, SameDeeds
<1>2. PICK e : /\ e.token = c
               /\ Unexpired(powerPending)' \cup Unexpired(actionPending)'
                    = Unexpired(powerPending) \cup Unexpired(actionPending) \cup {e}
  <2>1. now \in Nat /\ now <= now + Ttl
    BY ConfirmedToolsAssumption DEF IInv, TypeOK
  <2>2. CASE IsPower(r) /\ PowerCreate(c, r)
    <3>1. NewPowerEntry(c, r).token = c /\ NewPowerEntry(c, r).expiresAt = now + Ttl
      BY DEF NewPowerEntry
    <3>2. /\ powerPending' = Unexpired(powerPending) \cup {NewPowerEntry(c, r)}
          /\ actionPending' = actionPending /\ now' = now
      BY <2>2 DEF PowerCreate, Issues
    <3> QED
      BY <2>1, <3>1, <3>2 DEF Unexpired
  <2>3. CASE ~IsPower(r) /\ ActionCreate(c, r)
    <3>1. NewActionEntry(c, r).token = c /\ NewActionEntry(c, r).expiresAt = now + Ttl
      BY DEF NewActionEntry
    <3>2. /\ actionPending' = Unexpired(actionPending) \cup {NewActionEntry(c, r)}
          /\ powerPending' = powerPending /\ now' = now
      BY <2>3 DEF ActionCreate, Issues
    <3> QED
      BY <2>1, <3>1, <3>2 DEF Unexpired
  <2> QED
    BY <2>2, <2>3 DEF Issues
<1>3. Live(c)' /\ \A t \in Calls \ {c} : Live(t)' <=> Live(t)
  BY <1>2 DEF Live
<1>4. /\ StateOf(c) = "unissued" /\ StateOf(c)' = "live"
      /\ GrantOf(c)' = Asked(r) /\ CarriedOf(c)' = CarriedOf(c)
  <2>1. Issued(c)' /\ ~Issued(c) /\ SpentBy(c) = {} /\ req'[c] = r
    BY UnissuedUnspent DEF Issues
  <2>2. ~CarriedOut(c) /\ ~CarriedOut(c)'
    BY <1>1, <2>1 DEF CarriedOut
  <2> QED
    BY <1>1, <1>3, <2>1, <2>2 DEF StateOf, GrantOf, CarriedOf
<1>5. ASSUME NEW t \in Calls, t # c
      PROVE  StateOf(t)' = StateOf(t) /\ GrantOf(t)' = GrantOf(t) /\ CarriedOf(t)' = CarriedOf(t)
  <2>1. (Issued(t)' <=> Issued(t)) /\ SameRequests
    BY <1>5 DEF Issues
  <2> QED
    BY <1>1, <1>3, <1>5, <2>1, GrantedRequests, SameToken
<1> QED
  BY <1>4, <1>5 DEF OneTime!Issue, AbstractState, AbstractGrant, AbstractCarried

\* A call that consumes a token spends it while it is live.
LEMMA ConsumeMaps ==
  ASSUME IInv, CarriedAsGranted, CarriedAsGranted', NEW c \in Calls, NEW r \in Requests,
         Consumes(c, r)
  PROVE  \E t \in Calls : OneTime!Spend(t)
<1> DEFINE t == r.token
<1>1. PICK e : /\ \/ IsPower(r) /\ e \in powerPending /\ PowerMatches(e, r)
                  \/ ~IsPower(r) /\ e \in actionPending /\ ActionMatches(e, r)
               /\ e \in Unexpired(powerPending) \cup Unexpired(actionPending)
               /\ Unexpired(powerPending)' \cup Unexpired(actionPending)'
                    = (Unexpired(powerPending) \cup Unexpired(actionPending)) \ {e}
  <2>1. CASE IsPower(r) /\ PowerConsume(c, r)
    <3>1. PICK e \in Unexpired(powerPending) :
            PowerMatches(e, r) /\ powerPending' = Unexpired(powerPending) \ {e}
      BY <2>1 DEF PowerConsume
    <3>2. e \notin actionPending
      BY <3>1 DEF Unexpired, IInv, PowerStoreOK, ActionStoreOK
    <3>3. now' = now /\ actionPending' = actionPending
      BY <2>1 DEF Consumes, PowerConsume
    <3> QED
      BY <2>1, <3>1, <3>2, <3>3 DEF Unexpired
  <2>2. CASE ~IsPower(r) /\ ActionConsume(c, r)
    <3>1. PICK e \in Unexpired(actionPending) :
            ActionMatches(e, r) /\ actionPending' = Unexpired(actionPending) \ {e}
      BY <2>2 DEF ActionConsume
    <3>2. e \notin powerPending
      BY <3>1 DEF Unexpired, IInv, PowerStoreOK, ActionStoreOK
    <3>3. now' = now /\ powerPending' = powerPending
      BY <2>2 DEF Consumes, ActionConsume
    <3> QED
      BY <2>2, <3>1, <3>2, <3>3 DEF Unexpired
  <2> QED
    BY <2>1, <2>2 DEF Consumes
<1>2. e.token = t /\ t \in Calls /\ Unspent(t)
  BY <1>1, MatchIsAgreement
<1>3. confirms' = [confirms EXCEPT ![c] = t]
  BY DEF Consumes, PowerConsume, ActionConsume
<1>4. SpentBy(t) = {} /\ SpentBy(t)' = {c}
  BY <1>2, <1>3 DEF SpentBy, Unspent, IInv, TypeOK
<1>5. \A u \in Calls \ {t} : SpentBy(u)' = SpentBy(u)
  BY <1>3, ConfirmedToolsAssumption DEF SpentBy, Consumes, IInv, TypeOK
<1>6. Live(t) /\ \A u \in Calls \ {t} : Live(u)' <=> Live(u)
  BY <1>1, <1>2 DEF Live
<1>7. /\ StateOf(t) = "live" /\ StateOf(t)' = "spent"
      /\ GrantOf(t)' = GrantOf(t) /\ CarriedOf(t)' = CarriedOf(t)
  <2>1. Issued(t) /\ Issued(t)' /\ req'[t] = req[t]
    BY <1>2, GrantedRequests DEF Consumes, Unspent, Issued
  <2>2. ~CarriedOut(t) /\ ~CarriedOut(t)'
    BY <1>4 DEF CarriedOut, Consumes, SameDeeds
  <2> QED
    BY <1>4, <1>6, <2>1, <2>2 DEF StateOf, GrantOf, CarriedOf
<1>8. ASSUME NEW u \in Calls, u # t
      PROVE  StateOf(u)' = StateOf(u) /\ GrantOf(u)' = GrantOf(u) /\ CarriedOf(u)' = CarriedOf(u)
  <2>1. (Issued(u)' <=> Issued(u)) /\ SameRequests /\ SameDeeds
    BY DEF Consumes
  <2>2. CarriedOut(u)' <=> CarriedOut(u)
    BY <1>5, <1>8, <2>1 DEF CarriedOut, SpentBy, SameDeeds
  <2> QED
    BY <1>5, <1>6, <1>8, <2>1, <2>2, GrantedRequests, SameToken
<1>9. OneTime!Spend(t)
  BY <1>2, <1>7, <1>8 DEF OneTime!Spend, AbstractState, AbstractGrant, AbstractCarried
<1> QED
  BY <1>2, <1>9

\* The panel carries out the deed of a spent token, or one that needs none.
LEMMA ExecuteMaps ==
  ASSUME IInv, CarriedAsGranted, CarriedAsGranted', NEW c \in Calls, PanelExecutes(c)
  PROVE  UNCHANGED OneTime!vars \/ \E t \in Calls : OneTime!CarryOut(t)
<1> PICK t : t = confirms[c]
  OBVIOUS
<1>1. /\ UNCHANGED <<now, powerPending, actionPending, req, result, confirms>>
      /\ wire[c] = "sent" /\ wire'[c] = "executed"
      /\ \A d \in Calls \ {c} : wire'[d] = wire[d]
  BY DEF PanelExecutes, clock, stores, history, IInv, TypeOK
<1>2. ASSUME NEW u \in Calls
      PROVE  /\ StateOf(u)' = StateOf(u) /\ GrantOf(u)' = GrantOf(u)
             /\ u # t => CarriedOf(u)' = CarriedOf(u)
  <2>1. /\ Issued(u)' <=> Issued(u)
        /\ SpentBy(u)' = SpentBy(u)
        /\ Live(u)' <=> Live(u)
    BY <1>1 DEF Issued, SpentBy, Live, Unexpired
  <2>2. u # t => (CarriedOut(u)' <=> CarriedOut(u))
    BY <1>1 DEF CarriedOut, SpentBy
  <2> QED
    BY <1>1, <2>1, <2>2, SameToken
<1>3. CASE t \notin Calls
  BY <1>2, <1>3 DEF OneTime!vars, AbstractState, AbstractGrant, AbstractCarried
<1>4. CASE t \in Calls
  <2>1. Issued(t) /\ SpentBy(t) = {c}
    BY <1>4, ConfirmedToolsAssumption DEF IInv, ConfirmsOK, ConfirmedOnce, SpentBy, Issued
  <2>2. ~CarriedOut(t) /\ CarriedOut(t)'
    BY <1>1, <2>1 DEF CarriedOut, SpentBy
  <2>3. StateOf(t) = "spent"
    BY <2>1 DEF StateOf
  <2>4. CarriedOf(t) = Nothing /\ CarriedOf(t)' = GrantOf(t)'
    BY <1>4, <2>2 DEF CarriedAsGranted
  <2>5. OneTime!CarryOut(t)
    BY <1>2, <1>4, <2>3, <2>4 DEF OneTime!CarryOut, AbstractState, AbstractGrant, AbstractCarried
  <2> QED
    BY <1>4, <2>5
<1> QED
  BY <1>3, <1>4

\* The tokens that stop being live are withdrawn, and no other is touched.
LEMMA WithdrawMaps ==
  ASSUME CarriedAsGranted, CarriedAsGranted', UNCHANGED <<req, wire, confirms>>,
         \A t \in Calls : Issued(t)' <=> Issued(t),
         \A t \in Calls : Live(t)' => Live(t)
  PROVE  \E T \in SUBSET Calls : OneTime!Withdraw(T)
<1> DEFINE T == {t \in Calls : StateOf(t) = "live" /\ ~Live(t)'}
<1>1. \A t \in Calls : SpentBy(t)' = SpentBy(t) /\ (CarriedOut(t)' <=> CarriedOut(t))
  BY DEF SpentBy, CarriedOut
<1>2. ASSUME NEW t \in Calls
      PROVE  GrantOf(t)' = GrantOf(t) /\ CarriedOf(t)' = CarriedOf(t)
  BY <1>1, SameToken
<1>3. ASSUME NEW t \in Calls
      PROVE  StateOf(t)' = IF t \in T THEN "withdrawn" ELSE StateOf(t)
  BY <1>1 DEF StateOf
<1>4. \A t \in T : AbstractState[t] = "live"
  BY DEF AbstractState
<1>5. AbstractState' = [t \in Calls |-> IF t \in T THEN "withdrawn" ELSE AbstractState[t]]
  BY <1>3 DEF AbstractState
<1>6. OneTime!Withdraw(T)
  BY <1>2, <1>4, <1>5 DEF OneTime!Withdraw, AbstractGrant, AbstractCarried
<1> QED
  BY <1>6

\* Every step is a step of the abstract specification, or a stutter of it.
LEMMA StepImplements ==
  IInv /\ PowerTokenSpentOnlyToAct /\ CarriedAsGranted /\ CarriedAsGranted' /\ [Next]_vars
    => [OneTime!Next]_(OneTime!vars)
<1> SUFFICES ASSUME IInv, PowerTokenSpentOnlyToAct, CarriedAsGranted, CarriedAsGranted',
                    [Next]_vars
             PROVE  OneTime!Next \/ UNCHANGED OneTime!vars
  OBVIOUS
<1>1. CASE Quiet
  BY <1>1, QuietMaps
<1>2. ASSUME NEW c \in Calls, NEW r \in Requests, Issues(c, r)
      PROVE  OneTime!Next
  BY <1>2, IssueMaps DEF OneTime!Next
<1>3. ASSUME NEW c \in Calls, NEW r \in Requests, Consumes(c, r)
      PROVE  OneTime!Next
  BY <1>3, ConsumeMaps DEF OneTime!Next
<1>4. ASSUME NEW c \in Calls, Start(c) \/ Reply(c)
      PROVE  OneTime!Next \/ UNCHANGED OneTime!vars
  BY <1>1, <1>2, <1>3, <1>4, StartKinds, ReplyKinds
<1>5. ASSUME NEW c \in Calls, PanelExecutes(c)
      PROVE  OneTime!Next \/ UNCHANGED OneTime!vars
  BY <1>5, ExecuteMaps DEF OneTime!Next
<1>6. ASSUME NEW c \in Calls, PanelRefuses(c)
      PROVE  Quiet
  BY <1>6 DEF PanelRefuses, Quiet, SameDeeds, SameRequests, Issued, Unexpired, IInv, TypeOK,
     clock, stores, history
<1>7. CASE Tick
  <2>1. /\ now' = now + 1 /\ now \in Nat
        /\ UNCHANGED <<powerPending, actionPending, req, result, wire, confirms>>
    BY <1>7 DEF Tick, stores, calls, history, IInv, TypeOK
  <2>2. /\ \A e \in powerPending : e.expiresAt \in Nat
        /\ \A e \in actionPending : e.expiresAt \in Nat
    BY DEF IInv, TypeOK, PowerEntry, ActionEntry
  <2>3. \A t \in Calls : Live(t)' => Live(t)
    BY <2>1, <2>2 DEF Live, Unexpired
  <2>4. \A t \in Calls : Issued(t)' <=> Issued(t)
    BY <2>1 DEF Issued
  <2> QED
    BY <2>1, <2>3, <2>4, WithdrawMaps DEF OneTime!Next
<1>8. CASE Restart
  <2>1. \A t \in Calls : ~Live(t)'
    BY <1>8 DEF Restart, Live, Unexpired
  <2>2. \A t \in Calls : Issued(t)' <=> Issued(t)
    BY <1>8 DEF Restart, Issued, IInv, LifeOfCall, TypeOK
  <2>3. UNCHANGED <<req, wire, confirms>>
    BY <1>8 DEF Restart
  <2> QED
    BY <2>1, <2>2, <2>3, WithdrawMaps DEF OneTime!Next
<1>9. CASE UNCHANGED vars
  BY <1>1, <1>9 DEF vars, clock, stores, calls, history, Quiet, SameDeeds, SameRequests, Issued,
     Unexpired
<1> QED
  BY <1>1, <1>4, <1>5, <1>6, <1>7, <1>8, <1>9 DEF Next

\* The stores, the handlers, their interleavings and the restarts implement
\* one-time confirmations: a token is issued for one deed, spent at most once
\* and only while it is live, and under a spent token the panel carries out
\* that deed, and no other, at most once.
THEOREM RefinesOneTime == Spec => ImplementsOneTime
<1>1. Init => OneTime!Init
  BY InitImplements
<1>2. IInv => CarriedAsGranted
  BY CarriedIsGranted
<1>3. IInv /\ PowerTokenSpentOnlyToAct /\ CarriedAsGranted /\ CarriedAsGranted' /\ [Next]_vars
        => [OneTime!Next]_(OneTime!vars)
  BY StepImplements
<1> QED
  BY <1>1, <1>2, <1>3, ConfirmationInvariant, PowerTokensBuyActions, PTL
     DEF Spec, ImplementsOneTime, OneTime!Spec

=============================================================================
