--------------------------- MODULE MCDecisionCycle ---------------------------
(* Instances of DecisionCycle for TLC. *)
EXTENDS DecisionCycle, TLC

Symmetry == Permutations(Symbols) \cup Permutations(Orders)

=============================================================================
