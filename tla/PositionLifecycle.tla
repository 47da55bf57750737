-------------------------- MODULE PositionLifecycle --------------------------
(***************************************************************************)
(* What one order of the agent promises, whatever crashes, answers are     *)
(* lost or orders die at the venue: the lifecycle of an order and its exit *)
(* ladder as docs/architecture.md (section 7) draws it.                    *)
(*                                                                         *)
(*   - the status follows the diagram and a final status is final;         *)
(*   - every take-profit tier is sold at most once: it rests only when it  *)
(*     does not rest already and has sold nothing, and only for a position *)
(*     that is open;                                                       *)
(*   - the stop only ever moves up.                                        *)
(***************************************************************************)
EXTENDS Naturals

CONSTANTS Tiers, InitialStop

VARIABLES status, tier, stop

vars == <<status, tier, stop>>

Diagram == [NONE |-> {"PENDING_SUBMIT"},
            PENDING_SUBMIT |-> {"ENTRY_OPEN", "CANCELED"},
            ENTRY_OPEN |-> {"POSITION_OPEN", "CANCELED"},
            POSITION_OPEN |-> {"CLOSED"},
            CLOSED |-> {},
            CANCELED |-> {}]

Init ==
    /\ status = "NONE"
    /\ tier = [t \in Tiers |-> "unsold"]
    /\ stop = InitialStop

\* The row is saved: at most one edge of the diagram, and the stop no lower.
Save ==
    /\ status' \in {status} \cup Diagram[status]
    /\ stop' \in Nat /\ stop' >= stop
    /\ UNCHANGED tier

Rest(t) ==
    /\ status = "POSITION_OPEN"
    /\ tier[t] = "unsold"
    /\ tier' = [tier EXCEPT ![t] = "resting"]
    /\ UNCHANGED <<status, stop>>

\* Orders stop resting, having sold or not; the venue and the program do so
\* in every status, several orders at once when a position is sold out.
Settle ==
    /\ tier' \in [Tiers -> {"unsold", "resting", "sold"}]
    /\ \A t \in Tiers : tier[t] # "resting" => tier'[t] = tier[t]
    /\ UNCHANGED <<status, stop>>

Next == Save \/ Settle \/ \E t \in Tiers : Rest(t)

Spec == Init /\ [][Next]_vars

=============================================================================
