------------------------ MODULE PanelRequest_proofs -------------------------
(***************************************************************************)
(* Proofs about PanelRequest for every Timeout and any requests: the timer *)
(* and the time waited always add up to the timeout, so that no timed wait *)
(* exceeds it and no timeout is reported early.                            *)
(***************************************************************************)
EXTENDS PanelRequest, TLAPS

\* The invariant holds of every initial state.
LEMMA InitInv == Init => Inv
BY PanelRequestAssumption
DEF Init, Inv, TypeOK, TimerWhileTimed, TimerMeasures, Timed, InFlight,
    Operation, Phase, Outcome

\* A request that ends has no timer and nothing left to time.
LEMMA EndsInv ==
  ASSUME Inv, NEW r \in Requests, NEW result \in Outcome, Ends(r, result)
  PROVE  Inv'
BY PanelRequestAssumption
DEF Inv, TypeOK, TimerWhileTimed, TimerMeasures, Timed, InFlight, Ends,
    Operation, Phase, Outcome

\* Reading a body keeps the application client's timer, and no other.
LEMMA ReadsInv ==
  ASSUME Inv, NEW r \in Requests, NEW p \in {"body", "errorBody"},
         phase[r] = "headers", Reads(r, p)
  PROVE  Inv'
BY PanelRequestAssumption
DEF Inv, TypeOK, TimerWhileTimed, TimerMeasures, Timed, InFlight, Reads,
    Operation, Phase, Outcome

\* The fetch a call starts is timed, unless it is writeFile's.
LEMMA CallInv ==
  ASSUME Inv, NEW r \in Requests, Call(r)
  PROVE  Inv'
BY PanelRequestAssumption
DEF Inv, TypeOK, TimerWhileTimed, TimerMeasures, Timed, InFlight, Call,
    TimerFor, Fetching, TwoFetches, Operation, Phase, Outcome

\* The second fetch of an upload or a download has a timer of its own.
LEMMA FetchAgainInv ==
  ASSUME Inv, NEW r \in Requests, Fetching(r) # op[r], FetchAgain(r)
  PROVE  Inv'
BY PanelRequestAssumption
DEF Inv, TypeOK, TimerWhileTimed, TimerMeasures, Timed, InFlight, FetchAgain,
    TimerFor, Fetching, TwoFetches, Operation, Phase, Outcome

\* What the timer loses the wait gains.
LEMMA TickInv ==
  ASSUME Inv, Tick
  PROVE  Inv'
BY PanelRequestAssumption
DEF Inv, TypeOK, TimerWhileTimed, TimerMeasures, Timed, InFlight, Tick, Older,
    Operation, Phase, Outcome

\* Every step keeps the invariant.
LEMMA NextInv == Inv /\ [Next]_vars => Inv'
<1> SUFFICES ASSUME Inv, [Next]_vars PROVE Inv'
  OBVIOUS
<1>1. CASE Tick
  BY <1>1, TickInv
<1>2. ASSUME NEW r \in Requests, Call(r) \/ Answered(r) \/ Abort(r)
      PROVE  Inv'
  <2>1. CASE Call(r)
    BY <2>1, CallInv
  <2>2. CASE HeadersOk(r)
    BY <2>2, ReadsInv, EndsInv DEF HeadersOk, Outcome
  <2>3. CASE HeadersNoContent(r)
    BY <2>3, EndsInv DEF HeadersNoContent, Outcome
  <2>4. CASE HeadersBad(r)
    BY <2>4, ReadsInv, EndsInv DEF HeadersBad, Outcome
  <2>5. CASE FetchFails(r) \/ BodyFails(r) \/ ErrorBodyEnds(r)
    BY <2>5, EndsInv DEF FetchFails, BodyFails, ErrorBodyEnds, Outcome
  <2>6. CASE BodyRead(r)
    BY <2>6, EndsInv, FetchAgainInv DEF BodyRead, Outcome
  <2>7. CASE Abort(r)
    BY <2>7, EndsInv DEF Abort, Outcome
  <2> QED
    BY <1>2, <2>1, <2>2, <2>3, <2>4, <2>5, <2>6, <2>7 DEF Answered
<1>3. CASE UNCHANGED vars
  BY <1>3
  DEF vars, Inv, TypeOK, TimerWhileTimed, TimerMeasures, Timed, InFlight
<1> QED
  BY <1>1, <1>2, <1>3 DEF Next

\* Timers are set exactly while the part of a request they time is in
\* flight, and measure its wait.
THEOREM TimerInvariant == Spec => []Inv
<1>1. Inv /\ UNCHANGED vars => Inv'
  BY NextInv
<1> QED
  BY InitInv, NextInv, PTL DEF Spec

\* No timer outlives its request or is cleared too early.
THEOREM TimersMatchWaits == Spec => []TimerWhileTimed
<1>1. Inv => TimerWhileTimed
  BY DEF Inv
<1> QED
  BY <1>1, TimerInvariant, PTL

\* No timed wait for the panel takes longer than the configured timeout.
THEOREM TimedWaitsEnd == Spec => []WaitsInTime
<1>1. Inv => WaitsInTime
  BY PanelRequestAssumption
  DEF Inv, TypeOK, TimerWhileTimed, TimerMeasures, WaitsInTime
<1> QED
  BY <1>1, TimerInvariant, PTL

\* Only Abort reports a timeout, and the fetch has then waited the timeout.
LEMMA TimeoutStep ==
  ASSUME Inv, [Next]_vars, NEW r \in Requests,
         outcome[r] # outcome'[r], outcome'[r] = "timeout"
  PROVE  waited[r] = Timeout
<1>1. PICK q \in Requests : Abort(q) /\ phase[q] # "errorBody"
  BY DEF Next, vars, Inv, TypeOK, Tick, Call, Answered, Abort, HeadersOk,
    HeadersNoContent, HeadersBad, FetchFails, BodyRead, BodyFails,
    ErrorBodyEnds, FetchAgain, Reads, Ends
<1>2. q = r
  BY <1>1 DEF Abort, Ends, Inv, TypeOK
<1> QED
  BY <1>1, <1>2, PanelRequestAssumption
  DEF Abort, Inv, TypeOK, TimerWhileTimed, TimerMeasures

\* A timeout is only reported of a fetch that had the whole of it.
THEOREM NoEarlyTimeout == Spec => TimeoutsAreTrue
<1>1. Inv /\ [Next]_vars =>
        [\A r \in Requests :
           outcome[r] # outcome'[r] /\ outcome'[r] = "timeout"
             => waited[r] = Timeout]_vars
  BY TimeoutStep
<1> QED
  BY <1>1, TimerInvariant, PTL DEF Spec, TimeoutsAreTrue
=============================================================================
