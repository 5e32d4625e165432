------------------------- MODULE ConfirmedRefinement ------------------------
(***************************************************************************)
(* ConfirmedTools implements OneTimeConfirmation: the mapping reads the    *)
(* state of a token off the result of the call that issued it, the stores  *)
(* and the calls that consumed it, and the deed carried out off the        *)
(* request of the consuming call, not off what was granted.                *)
(***************************************************************************)
EXTENDS ConfirmedTools

Nothing == <<>>

Issued(t) == result[t] = "requires_confirmation"

SpentBy(t) == {c \in Calls : confirms[c] = t}

\* evictExpired is lazy, so an entry past its time may still be stored.
Live(t) == \E e \in Unexpired(powerPending) \cup Unexpired(actionPending) : e.token = t

StateOf(t) ==
  IF ~Issued(t) THEN "unissued"
  ELSE IF SpentBy(t) # {} THEN "spent"
  ELSE IF Live(t) THEN "live" ELSE "withdrawn"

GrantOf(t) == IF Issued(t) THEN Asked(req[t]) ELSE Nothing

CarriedOut(t) == \E c \in SpentBy(t) : wire[c] = "executed"

CarriedOf(t) ==
  IF CarriedOut(t)
    THEN Asked(req[CHOOSE c \in SpentBy(t) : wire[c] = "executed"])
    ELSE Nothing

AbstractState == [t \in Calls |-> StateOf(t)]
AbstractGrant == [t \in Calls |-> GrantOf(t)]
AbstractCarried == [t \in Calls |-> CarriedOf(t)]

OneTime == INSTANCE OneTimeConfirmation WITH
  Tokens <- Calls, Deeds <- {Asked(r) : r \in Requests}, Nothing <- Nothing,
  state <- AbstractState, grant <- AbstractGrant, carried <- AbstractCarried

\* The stores, the handlers, the interleavings and the restarts together keep
\* the promise of one-time confirmations.
ImplementsOneTime == OneTime!Spec

=============================================================================
