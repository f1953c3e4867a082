-------------------------- MODULE MCTargetCircuit --------------------------
(* Instances of TargetCircuit for TLC. *)
EXTENDS TargetCircuit, TLC

\* The default policy, scaled down, and one with a longer cooldown.
Default == [threshold |-> 2, window |-> 1, cooldown |-> 1]
Strict == [threshold |-> 2, window |-> 1, cooldown |-> 2]

DefaultOnly == {Default}
TwoPolicies == {Default, Strict}

\* Requests are interchangeable, and so are probes.
AttemptSymmetry == Permutations(Live) \union Permutations(Probe)

=============================================================================
