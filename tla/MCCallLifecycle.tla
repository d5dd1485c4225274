-------------------------- MODULE MCCallLifecycle --------------------------
(* Small instances of CallLifecycle for TLC.                               *)
EXTENDS CallLifecycle, TLC

CONSTANTS rep1, n1, n2

(* The rep of the model holds every number; and only the first of two.     *)
HoldsAll == [p \in OwnNumbers |-> rep1]
HoldsFirst == n1 :> rep1 @@ n2 :> Nil

(* One call at a time, whichever way it goes; a bound.                     *)
OneCall == \E c \in Calls : \A d \in Calls \ {c} : status[d] = "none"

Symmetry == Permutations(OutboundCalls) \cup Permutations(Handlers)
=============================================================================
