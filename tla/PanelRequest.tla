---------------------------- MODULE PanelRequest ----------------------------
(***************************************************************************)
(* One request to the panel, from the call of a client's method to its     *)
(* result: PterodactylClient (fetchWithTimeout, request, requestText,      *)
(* uploadFile, downloadFileContent, writeFile) and                         *)
(* PterodactylApplicationClient.request.  What matters is which part of a  *)
(* request its timer covers: for the client the wait for the headers of    *)
(* each fetch, for the application client the body too, for writeFile      *)
(* nothing.                                                                *)
(*                                                                         *)
(* Abstracted: urls, headers and contents; an answer is a status and       *)
(* whether its body is read and well formed.  Timers fire on time, and are *)
(* what is left of them; no clock is needed.                               *)
(***************************************************************************)
EXTENDS Naturals

CONSTANTS
  Requests,  \* requests
  Timeout,   \* PANEL_REQUEST_TIMEOUT_MS
  NoTimer    \* no timer is set

ASSUME PanelRequestAssumption == Timeout \in Nat \ {0} /\ NoTimer \notin Nat

VARIABLES
  op,       \* the method called
  phase,    \* what it awaits
  second,   \* whether the first of two fetches is over
  timer,    \* what is left of the AbortController's timer
  outcome,  \* what the caller gets
  age,      \* history: the time since the call, up to Timeout + 1
  waited    \* history: the time since its last fetch, up to Timeout + 1

vars == <<op, phase, second, timer, outcome, age, waited>>

Operation == {"request", "requestText", "uploadFile", "downloadFileContent",
              "writeFile", "applicationRequest"}

Phase == {"idle", "headers", "errorBody", "body", "done"}

\* A value; an error made of the panel's status; panel_timeout; an error of
\* fetch or of the parser.
Outcome == {"none", "value", "status", "timeout", "failed"}

TypeOK ==
  /\ op \in [Requests -> Operation]
  /\ phase \in [Requests -> Phase]
  /\ second \in [Requests -> BOOLEAN]
  /\ timer \in [Requests -> 0 .. Timeout \cup {NoTimer}]
  /\ outcome \in [Requests -> Outcome]
  /\ age \in [Requests -> 0 .. Timeout + 1]
  /\ waited \in [Requests -> 0 .. Timeout + 1]

\* uploadFile and downloadFileContent first get a url by a request.
TwoFetches == {"uploadFile", "downloadFileContent"}

Fetching(r) ==
  IF op[r] \in TwoFetches /\ ~second[r] THEN "request" ELSE op[r]

\* The body of a good answer is read, and so is that of a bad one.
ReadsBody == {"request", "requestText", "downloadFileContent",
              "applicationRequest"}
ReadsErrorBody == {"request", "requestText", "writeFile", "applicationRequest"}

\* The answers that may be 204, and whose body is parsed.
Json == {"request", "applicationRequest"}

Init ==
  /\ op \in [Requests -> Operation]
  /\ phase = [r \in Requests |-> "idle"]
  /\ second = [r \in Requests |-> FALSE]
  /\ timer = [r \in Requests |-> NoTimer]
  /\ outcome = [r \in Requests |-> "none"]
  /\ age = [r \in Requests |-> 0]
  /\ waited = [r \in Requests |-> 0]

-----------------------------------------------------------------------------
(* The parts of a step.                                                    *)

\* Slips: an upload's fetch runs without a timer; a timer is set too long.
TimerForNoUpload(f) ==
  IF f \in {"writeFile", "uploadFile"} THEN NoTimer ELSE Timeout
TimerForTooLong(f) == IF f = "writeFile" THEN NoTimer ELSE Timeout + 1

\* setTimeout(() => controller.abort(), requestTimeoutMs), and fetch.
TimerFor(f) == IF f = "writeFile" THEN NoTimer ELSE Timeout

\* Slip: an error leaves fetchWithTimeout without its finally.
EndsKeepingTimer(r, result) ==
  /\ phase' = [phase EXCEPT ![r] = "done"]
  /\ outcome' = [outcome EXCEPT ![r] = result]
  /\ timer' = [timer EXCEPT ![r] = IF result = "failed" THEN @ ELSE NoTimer]
  /\ UNCHANGED <<op, second, age, waited>>

\* The method returns or throws; the finally has cleared the timer.
Ends(r, result) ==
  /\ phase' = [phase EXCEPT ![r] = "done"]
  /\ outcome' = [outcome EXCEPT ![r] = result]
  /\ timer' = [timer EXCEPT ![r] = NoTimer]
  /\ UNCHANGED <<op, second, age, waited>>

\* Slip: the application client clears the timer before it reads the body.
ReadsUntimed(r, p) ==
  /\ phase' = [phase EXCEPT ![r] = p]
  /\ timer' = [timer EXCEPT ![r] = NoTimer]
  /\ UNCHANGED <<op, second, outcome, age, waited>>

\* The response is there and its body is read next: fetchWithTimeout clears
\* the timer, the application client lets it run.
Reads(r, p) ==
  /\ phase' = [phase EXCEPT ![r] = p]
  /\ timer' = [timer EXCEPT ![r] =
                 IF op[r] = "applicationRequest" THEN @ ELSE NoTimer]
  /\ UNCHANGED <<op, second, outcome, age, waited>>

-----------------------------------------------------------------------------

Call(r) ==
  /\ phase[r] = "idle"
  /\ phase' = [phase EXCEPT ![r] = "headers"]
  /\ timer' = [timer EXCEPT ![r] = TimerFor(Fetching(r))]
  /\ UNCHANGED <<op, second, outcome, age, waited>>

\* Slip: one timer for both fetches.
FetchAgainOnOneTimer(r) ==
  /\ second' = [second EXCEPT ![r] = TRUE]
  /\ phase' = [phase EXCEPT ![r] = "headers"]
  /\ waited' = [waited EXCEPT ![r] = 0]
  /\ timer' = [timer EXCEPT ![r] = IF age[r] > Timeout THEN 0
                                     ELSE Timeout - age[r]]
  /\ UNCHANGED <<op, outcome, age>>

\* The first fetch gave the url: the second one goes to it, with a timer of
\* its own.
FetchAgain(r) ==
  /\ second' = [second EXCEPT ![r] = TRUE]
  /\ phase' = [phase EXCEPT ![r] = "headers"]
  /\ waited' = [waited EXCEPT ![r] = 0]
  /\ timer' = [timer EXCEPT ![r] = TimerFor(op[r])]
  /\ UNCHANGED <<op, outcome, age>>

\* A good status: the body is read next, or nothing is left to read.
HeadersOk(r) ==
  /\ phase[r] = "headers"
  /\ IF Fetching(r) \in ReadsBody THEN Reads(r, "body") ELSE Ends(r, "value")

\* 204: no value, which a caller that needs the url in it fails on.
HeadersNoContent(r) ==
  /\ phase[r] = "headers"
  /\ Fetching(r) \in Json
  /\ Ends(r, IF Fetching(r) = op[r] THEN "value" ELSE "failed")

\* A bad status: its body may hold the detail of the error.
HeadersBad(r) ==
  /\ phase[r] = "headers"
  /\ IF Fetching(r) \in ReadsErrorBody THEN Reads(r, "errorBody")
                                       ELSE Ends(r, "status")

\* The connection breaks, or the runtime gives up waiting.
FetchFails(r) ==
  /\ phase[r] = "headers"
  /\ Ends(r, "failed")

BodyRead(r) ==
  /\ phase[r] = "body"
  /\ IF Fetching(r) = op[r] THEN Ends(r, "value") ELSE FetchAgain(r)

\* The connection breaks, or the body is not what it should be.
BodyFails(r) ==
  /\ phase[r] = "body"
  /\ Ends(r, "failed")

\* Read, malformed or broken off: the catch around it ignores errors.
ErrorBodyEnds(r) ==
  /\ phase[r] = "errorBody"
  /\ Ends(r, "status")

\* The timer fires: the fetch, or the reading of the body, is rejected with
\* an AbortError; the one of an error's body is ignored like any other.
Abort(r) ==
  /\ timer[r] = 0
  /\ Ends(r, IF phase[r] = "errorBody" THEN "status" ELSE "timeout")

InFlight(r) == phase[r] \notin {"idle", "done"}

Older(n) == IF n > Timeout THEN n ELSE n + 1

\* Time passes; no timer that is due is left behind.
Tick ==
  /\ \A r \in Requests : timer[r] # 0
  /\ timer' = [r \in Requests |->
                IF timer[r] = NoTimer THEN NoTimer ELSE timer[r] - 1]
  /\ age' = [r \in Requests |-> IF InFlight(r) THEN Older(age[r]) ELSE age[r]]
  /\ waited' = [r \in Requests |->
                IF InFlight(r) THEN Older(waited[r]) ELSE waited[r]]
  /\ UNCHANGED <<op, phase, second, outcome>>

Answered(r) ==
  \/ HeadersOk(r)
  \/ HeadersNoContent(r)
  \/ HeadersBad(r)
  \/ FetchFails(r)
  \/ BodyRead(r)
  \/ BodyFails(r)
  \/ ErrorBodyEnds(r)

Next ==
  \/ Tick
  \/ \E r \in Requests : Call(r) \/ Answered(r) \/ Abort(r)

Spec == Init /\ [][Next]_vars

\* The parts of a request the code times.
Timed(r) ==
  \/ phase[r] = "headers" /\ op[r] # "writeFile"
  \/ InFlight(r) /\ op[r] = "applicationRequest"

\* The runtime ends a fetch nothing else ends: its limits on the wait for
\* headers and between two parts of a body are longer than any Timeout the
\* configuration allows, so they are counted on only where the code has no
\* timer of its own.
GivesUp(r) ==
  /\ ~Timed(r)
  /\ FetchFails(r) \/ BodyFails(r) \/ ErrorBodyEnds(r)

Fairness ==
  /\ WF_vars(Tick)
  /\ \A r \in Requests : WF_vars(Abort(r)) /\ WF_vars(GivesUp(r))

FairSpec == Spec /\ Fairness

-----------------------------------------------------------------------------
(* Properties.                                                             *)

\* A timer is set exactly while something it should end is in flight: none
\* outlives its request or is cleared too early, on any path through the
\* try, the catch and the finally.
TimerWhileTimed ==
  \A r \in Requests : timer[r] # NoTimer <=> Timed(r)

\* No timed wait takes longer than the configured timeout, counted from the
\* fetch it waits for: the second fetch of an upload or a download too.
WaitsInTime ==
  \A r \in Requests : Timed(r) => waited[r] <= Timeout

\* panel_timeout is only said of a fetch that had the whole timeout: an
\* upload's second fetch is not blamed for what the first one took.
TimeoutsAreTrue ==
  [][\A r \in Requests :
       outcome[r] # outcome'[r] /\ outcome'[r] = "timeout"
         => waited[r] = Timeout]_vars

\* Every request comes to an end: the tool that made it can answer.
EveryRequestEnds ==
  \A r \in Requests : InFlight(r) ~> ~InFlight(r)

\* The timer is what is left of the timeout.
TimerMeasures ==
  \A r \in Requests : /\ Timed(r) => timer[r] + waited[r] = Timeout
                      /\ phase[r] = "idle" => waited[r] = 0

\* What implies the safety properties above, and is inductive.
Inv == TypeOK /\ TimerWhileTimed /\ TimerMeasures

\* What .env.example says of PANEL_REQUEST_TIMEOUT_MS: it is the timeout of a
\* request to the panel.  Uploads and downloads make two.
RequestsInTime ==
  \A r \in Requests :
    InFlight(r) /\ op[r] \notin TwoFetches => age[r] <= Timeout
=============================================================================
