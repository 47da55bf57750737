---------------------------- MODULE MCExchangeSync ----------------------------
(* Instances of ExchangeSync for TLC: a position of three lots, one per tier  *)
(* and one for the runner.                                                    *)
EXTENDS ExchangeSync, TLC

TwoTierSizes == <<34, 34>>
SoldOutSizes == <<50, 50>>
TwoTierTargets == <<3, 4>>

OneTierSize == <<67>>
OneTierTarget == <<3>>

Symmetry == Permutations(Procs)

=============================================================================
