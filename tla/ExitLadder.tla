------------------------------ MODULE ExitLadder ------------------------------
(***************************************************************************)
(* The deterministic exit ladder (core/exit_ladder.py): the take-profit    *)
(* tiers of one position, its ratcheting stop and its runner.  As in the   *)
(* code the operators are pure; ExchangeSync keeps the plan in the order   *)
(* row and applies them when the venue has confirmed a sale.               *)
(*                                                                         *)
(* Prices are integer ticks and quantities integer lots (one step size).   *)
(* The trail distance, a percentage or a multiple of the ATR in the code,  *)
(* is a constant number of ticks.                                          *)
(***************************************************************************)
EXTENDS Integers, FiniteSetsExt

CONSTANTS
    NTiers,          \* number of take-profit tiers
    SizePct,         \* SizePct[t]: percent of the filled quantity tier t sells
    Target,          \* Target[t]: limit price of tier t
    EntryPrice,
    InitialStop,
    BreakevenTier,   \* the tier whose fill moves the stop to entry, 0 for none
    LockTier,        \* from this tier on the stop locks to the tier below, 0 for none
    TrailDistance    \* ticks the runner's stop trails the high water, 0 for no trail

Tiers == 1..NTiers

ASSUME LadderAssumption ==
    /\ NTiers \in Nat \ {0}
    /\ SizePct \in [Tiers -> 1..100]
    /\ Target \in [Tiers -> Nat]
    /\ {EntryPrice, InitialStop, BreakevenTier, LockTier, TrailDistance} \subseteq Nat

\* A plan: its legs are the functions over Tiers.  xid and cid are a leg's two
\* pointers, the venue's order id (0 for None) and whether a client id is set.
Plans == [stop: Nat, high: Nat,
          filled: [Tiers -> BOOLEAN], sold: [Tiers -> Nat],
          xid: [Tiers -> Nat], cid: [Tiers -> BOOLEAN]]

FreshPlan == [stop |-> InitialStop, high |-> EntryPrice,
              filled |-> [t \in Tiers |-> FALSE], sold |-> [t \in Tiers |-> 0],
              xid |-> [t \in Tiers |-> 0], cid |-> [t \in Tiers |-> FALSE]]

HasRunner == MapThenSumSet(LAMBDA t : SizePct[t], Tiers) < 100

RunnerActive(plan) == HasRunner /\ \A t \in Tiers : plan.filled[t]

\* The share of a position of `held` lots that tier t sells, rounded down to lots.
TierQuantity(t, held) == (held * SizePct[t]) \div 100

RemainingQuantity(plan, held) ==
    held - MapThenSumSet(LAMBDA t : IF plan.filled[t] THEN plan.sold[t] ELSE 0, Tiers)

Higher(a, b) == IF a > b THEN a ELSE b

Trailed(plan, mark) ==
    LET high == Higher(plan.high, mark)
        trails == RunnerActive(plan) /\ TrailDistance > 0 /\ high >= TrailDistance
    IN  [plan EXCEPT !.high = high,
                     !.stop = IF trails THEN Higher(@, high - TrailDistance) ELSE @]

\* Where the fill of tier t puts the floor of the stop (0: it moves nothing).
RatchetTo(t) ==
    LET even == IF t = BreakevenTier THEN EntryPrice ELSE 0
        lock == IF LockTier = 0 \/ t < LockTier THEN 0
                ELSE IF t = 1 THEN EntryPrice ELSE Target[t - 1]
    IN  Higher(even, lock)

\* Mutant: the stop is set to the tier's floor, not raised to it.
TierFilledResets(plan, t, qty) ==
    IF plan.filled[t] THEN plan
    ELSE [plan EXCEPT !.filled[t] = TRUE, !.sold[t] = qty, !.stop = RatchetTo(t)]

TierFilled(plan, t, qty) ==
    IF plan.filled[t] THEN plan
    ELSE [plan EXCEPT !.filled[t] = TRUE, !.sold[t] = qty,
                      !.stop = Higher(@, RatchetTo(t))]

\* A leg that may be placed: neither filled nor bound by either pointer.
Unplaced(plan) == {t \in Tiers : ~plan.filled[t] /\ plan.xid[t] = 0 /\ ~plan.cid[t]}

\* A leg whose resting order the venue can be asked about.
Resting(plan) == {t \in Tiers : ~plan.filled[t] /\ plan.xid[t] # 0}

Bound(plan, t, id) == [plan EXCEPT !.xid[t] = id, !.cid[t] = TRUE]

Unbound(plan, S) ==
    [plan EXCEPT !.xid = [t \in Tiers |-> IF t \in S THEN 0 ELSE @[t]],
                 !.cid = [t \in Tiers |-> IF t \in S THEN FALSE ELSE @[t]]]

=============================================================================
