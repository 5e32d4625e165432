------------------------ MODULE OneTimeConfirmation -------------------------
(***************************************************************************)
(* What the confirmation stores promise, without calls, clocks or stores:  *)
(* a token is issued for one deed (an account, a tool, a server and the    *)
(* covered arguments); it is spent at most once, unless it is withdrawn    *)
(* first; and under a spent token that deed, and no other, is carried out  *)
(* at most once.                                                           *)
(***************************************************************************)
CONSTANTS Tokens, Deeds, Nothing

VARIABLES
  state,   \* of each token: "unissued", "live", "spent" or "withdrawn"
  grant,   \* the deed each token was issued for
  carried  \* the deed carried out under each token

vars == <<state, grant, carried>>

TypeOK ==
  /\ state \in [Tokens -> {"unissued", "live", "spent", "withdrawn"}]
  /\ grant \in [Tokens -> Deeds \cup {Nothing}]
  /\ carried \in [Tokens -> Deeds \cup {Nothing}]

Init ==
  /\ state = [t \in Tokens |-> "unissued"]
  /\ grant = [t \in Tokens |-> Nothing]
  /\ carried = [t \in Tokens |-> Nothing]

Issue(t, deed) ==
  /\ state[t] = "unissued"
  /\ state' = [state EXCEPT ![t] = "live"]
  /\ grant' = [grant EXCEPT ![t] = deed]
  /\ UNCHANGED carried

Spend(t) ==
  /\ state[t] = "live"
  /\ state' = [state EXCEPT ![t] = "spent"]
  /\ UNCHANGED <<grant, carried>>

\* Time or a restart withdraws some live tokens together.
Withdraw(T) ==
  /\ \A t \in T : state[t] = "live"
  /\ state' = [t \in Tokens |-> IF t \in T THEN "withdrawn" ELSE state[t]]
  /\ UNCHANGED <<grant, carried>>

CarryOut(t) ==
  /\ state[t] = "spent"
  /\ carried[t] = Nothing
  /\ carried' = [carried EXCEPT ![t] = grant[t]]
  /\ UNCHANGED <<state, grant>>

Next ==
  \/ \E t \in Tokens : (\E deed \in Deeds : Issue(t, deed)) \/ Spend(t) \/ CarryOut(t)
  \/ \E T \in SUBSET Tokens : Withdraw(T)

Spec == Init /\ [][Next]_vars

=============================================================================
