---------------------------- MODULE StreamSlots ----------------------------
(***************************************************************************)
(* What the stream limit of the bridge promises, without handlers, awaits  *)
(* or metrics: a request asks for a slot at most once, holds it at most    *)
(* once, never more than MaxStreams requests hold one, and a request that  *)
(* gave its slot back, or was turned away, never comes back for another.   *)
(***************************************************************************)
EXTENDS Naturals, FiniteSets

CONSTANTS Requests, MaxStreams

VARIABLE stage

Holding == {r \in Requests : stage[r] = "holding"}

Init == stage = [r \in Requests |-> "new"]

Ask(r)   == stage[r] = "new" /\ stage' = [stage EXCEPT ![r] = "asking"]
Grant(r) == /\ stage[r] = "asking"
            /\ Cardinality(Holding) < MaxStreams
            /\ stage' = [stage EXCEPT ![r] = "holding"]
Over(r)  == /\ stage[r] # "over"
            /\ stage' = [stage EXCEPT ![r] = "over"]

Next == \E r \in Requests : Ask(r) \/ Grant(r) \/ Over(r)

Spec == Init /\ [][Next]_stage

=============================================================================
