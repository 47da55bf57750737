---------------------------- MODULE DecisionCycle ----------------------------
(***************************************************************************)
(* The risk gate of the trading agent and what it lets through: a cycle    *)
(* gates its decisions one by one against the stored rows, the account and *)
(* what it has already approved, and then executes the approved ones       *)
(* (graph/nodes.py, core/risk.py).  An operator's decision runs the same   *)
(* code as a cycle of one (graph/runtime.py).                              *)
(*                                                                         *)
(*   - rows: the open orders; a row that is CLOSED or CANCELED is not read *)
(*     again, so it leaves the model and its identity may be used anew;    *)
(*   - cycle: the holder of _invoke_lock and the gate's local variables;   *)
(*   - halted: the kill switch or the daily-loss limit, as the gate sees   *)
(*     them;                                                               *)
(*   - bids, free: the venue's entry orders and the account's free quote   *)
(*     balance (external).                                                 *)
(*                                                                         *)
(* The decisions are the supervisor's and so arbitrary.  What a decision   *)
(* says of itself (evidence, edge, price, confidence floor, size) is       *)
(* checked on its own; only decisions that pass are enumerated here, and a *)
(* rejected one is a WAIT.  A row is reconciled as one step: ExchangeSync  *)
(* has the steps.  ADJUST changes nothing kept here.                       *)
(***************************************************************************)
EXTENDS Naturals, Sequences, FiniteSets, FiniteSetsExt

CONSTANTS
    Symbols,
    Orders,                   \* identities of rows
    MaxOpenPositions,         \* RiskConfig.max_open_positions
    MaxCorrelatedNotional,    \* RiskConfig.max_correlated_notional_usd, 0 when disabled
    CapitalBudget,            \* LiveConfig.capital_budget_usd
    LossPct, RiskPct,         \* worst-case loss and per_trade_risk_fraction, in percent
    Notionals,                \* sizes that conviction_size may give
    Balance,                  \* the account's quote balance at the start
    Faults,                   \* a subset of FaultKinds
    MaxDecisions              \* bound: decisions of one cycle

(***************************************************************************)
(* balance  the account's balances cannot be fetched                       *)
(* doubt    an entry is accepted but its answer is lost or malformed       *)
(* refuse   the venue refuses an entry, or the post never reaches it       *)
(* raise    submitting raises before the row is saved                      *)
(* partial  a bid fills in part                                            *)
(***************************************************************************)
FaultKinds == {"balance", "doubt", "refuse", "raise", "partial"}

ASSUME CycleAssumption ==
    /\ {MaxOpenPositions, MaxCorrelatedNotional, CapitalBudget, LossPct, RiskPct,
        Balance, MaxDecisions} \subseteq Nat
    /\ Notionals \subseteq Nat \ {0}
    /\ Faults \subseteq FaultKinds

VARIABLES rows, bids, free, halted, cycle

vars == <<rows, bids, free, halted, cycle>>

-----------------------------------------------------------------------------
(* spent    executed quote, as last synced    young  under min_hold_hours   *)
(* exiting  an exit order is recorded                                       *)

OpenStatuses == {"PENDING_SUBMIT", "ENTRY_OPEN", "POSITION_OPEN"}
NoRow == [status |-> "NONE"]
OrderRecords == [symbol: Symbols, notional: Notionals, status: OpenStatuses, spent: Nat,
                 young: BOOLEAN, exiting: BOOLEAN]
Rows == OrderRecords \cup {NoRow}

\* live: the order can still buy    sold: what it bought has been sold again
NoBid == [live |-> FALSE, spent |-> 0, sold |-> FALSE]
Bids == [live: BOOLEAN, spent: Nat, sold: BOOLEAN]

Approvals == [action: {"BUY"}, symbol: Symbols, notional: Notionals, strong: BOOLEAN]
             \cup [action: {"CLOSE"}, target: Orders]

(***************************************************************************)
(* left      decisions still to gate      seen      rows open at the start *)
(* held      those seen as positions      symbols   open_position_symbols  *)
(* reserved  reserved_quote_notional      approved  decisions to execute   *)
(***************************************************************************)
Cycles == [pc: {"idle", "gate", "execute"}, source: {"none", "agent", "operator"},
           left: Nat, seen: SUBSET Orders, held: SUBSET Orders, symbols: SUBSET Symbols,
           reserved: Nat, approved: Seq(Approvals)]

NoCycle == [pc |-> "idle", source |-> "none", left |-> 0, seen |-> {}, held |-> {},
            symbols |-> {}, reserved |-> 0, approved |-> <<>>]

\* Every variable has its type: the rows, the venue's bids (one for each row)
\* and the gate's local variables are well formed.
TypeOK ==
    /\ rows \in [Orders -> Rows]
    /\ bids \in [Orders -> Bids]
    /\ free \in Nat
    /\ halted \in BOOLEAN
    /\ cycle \in Cycles

Init ==
    /\ rows = [i \in Orders |-> NoRow]
    /\ bids = [i \in Orders |-> NoBid]
    /\ free = Balance
    /\ halted = FALSE
    /\ cycle = NoCycle

IsOpen(i) == rows[i] # NoRow
OpenRows == {i \in Orders : IsOpen(i)}
SymbolsOf(S) == {rows[i].symbol : i \in S}
Positions == {i \in OpenRows : rows[i].status = "POSITION_OPEN"}

\* Executed quote spend when known, intended notional otherwise.
OpenNotional ==
    MapThenSumSet(LAMBDA i : IF rows[i].spent > 0 THEN rows[i].spent ELSE rows[i].notional,
                  OpenRows)

\* The approved buys that have not been executed yet.
Buys == {k \in DOMAIN cycle.approved : cycle.approved[k].action = "BUY"}

-----------------------------------------------------------------------------
(* The gate.                                                               *)

\* Mutant: the symbols of the resting bids are left out of the gate's set.
BeginGatePositions(source, n) ==
    /\ cycle.pc = "idle"
    /\ cycle' = [NoCycle EXCEPT !.pc = "gate", !.source = source, !.left = n,
                     !.seen = OpenRows, !.held = Positions, !.symbols = SymbolsOf(Positions)]
    /\ UNCHANGED <<rows, bids, free, halted>>

\* Take the lock and load the open orders: a cycle of the supervisor's n
\* decisions, or one decision that the operator has confirmed.
BeginGate(source, n) ==
    /\ cycle.pc = "idle"
    /\ cycle' = [NoCycle EXCEPT !.pc = "gate", !.source = source, !.left = n,
                     !.seen = OpenRows, !.held = Positions, !.symbols = SymbolsOf(OpenRows)]
    /\ UNCHANGED <<rows, bids, free, halted>>

Gating == cycle.pc = "gate" /\ cycle.left > 0

\* A WAIT, or a decision rejected for whatever reason.
Pass ==
    /\ Gating
    /\ cycle' = [cycle EXCEPT !.left = @ - 1]
    /\ UNCHANGED <<rows, bids, free, halted>>

\* Mutant: the cap is compared before the entry is counted.
WithinCountOffByOne(strong) ==
    /\ Cardinality(OpenRows) <= MaxOpenPositions
    /\ MaxOpenPositions <= 3 /\ Cardinality(OpenRows) = MaxOpenPositions - 1 => strong

WithinCount(strong) ==
    /\ Cardinality(OpenRows) < MaxOpenPositions
    /\ MaxOpenPositions <= 3 /\ Cardinality(OpenRows) = MaxOpenPositions - 1 => strong

\* Mutant: what the cycle has reserved is not taken off the balance.
AvailableUnreserved == free

Available == IF free > cycle.reserved THEN free - cycle.reserved ELSE 0

\* The checks against the account.  The correlated notional does not count what
\* the cycle has reserved.
WithinMoney(notional, known) ==
    LET open == OpenNotional + cycle.reserved
        budget == IF known THEN open + Available ELSE CapitalBudget
    IN  /\ notional * LossPct <= budget * RiskPct
        /\ known => notional <= Available
        /\ open + notional <= budget
        /\ MaxCorrelatedNotional > 0 => OpenNotional + notional <= MaxCorrelatedNotional

ApproveBuy(symbol, notional, strong) ==
    /\ Gating
    /\ symbol \notin cycle.symbols
    /\ ~halted
    /\ WithinCount(strong)
    /\ \E known \in BOOLEAN :
         /\ known \/ "balance" \in Faults
         /\ WithinMoney(notional, known)
    /\ cycle' = [cycle EXCEPT !.left = @ - 1,
                     !.symbols = @ \cup {symbol},
                     !.reserved = @ + notional,
                     !.approved = Append(@, [action |-> "BUY", symbol |-> symbol,
                                             notional |-> notional, strong |-> strong])]
    /\ UNCHANGED <<rows, bids, free, halted>>

\* Mutant: the minimum hold is not asked for.
MayCloseAnytime(i) == i \in cycle.seen

\* The agents may not close a young position, the operator may; an operator's
\* CLOSE is not gated at all.
MayClose(i) ==
    cycle.source = "agent" => i \in cycle.seen /\ ~(i \in cycle.held /\ rows[i].young)

ApproveClose(i) ==
    /\ Gating
    /\ IsOpen(i)    \* else executing it does nothing, as a WAIT
    /\ MayClose(i)
    /\ cycle' = [cycle EXCEPT !.left = @ - 1,
                     !.approved = Append(@, [action |-> "CLOSE", target |-> i])]
    /\ UNCHANGED <<rows, bids, free, halted>>

EndGate ==
    /\ cycle.pc = "gate" /\ cycle.left = 0
    /\ cycle' = [cycle EXCEPT !.pc = "execute", !.symbols = {}, !.reserved = 0]
    /\ UNCHANGED <<rows, bids, free, halted>>

-----------------------------------------------------------------------------
(* Executing what was approved.  An exception in one decision does not     *)
(* keep the next from its turn.                                            *)

Executing(action) ==
    /\ cycle.pc = "execute" /\ cycle.approved # <<>>
    /\ Head(cycle.approved).action = action

Executed == cycle' = [cycle EXCEPT !.approved = Tail(@)]

Targets == {cycle.approved[k].target : k \in DOMAIN cycle.approved \ Buys}

\* The row is saved before the order is posted, and is ENTRY_OPEN only when the
\* answer has come back.
Submit(status, posted) ==
    /\ Executing("BUY")
    /\ LET a == Head(cycle.approved) IN
       /\ posted => a.notional <= free
       /\ \E i \in Orders \ (OpenRows \cup cycle.seen \cup Targets) :    \* a new identity
            /\ rows' = [rows EXCEPT ![i] =
                 [symbol |-> a.symbol, notional |-> a.notional, status |-> status,
                  spent |-> 0, young |-> TRUE, exiting |-> FALSE]]
            /\ bids' = [bids EXCEPT ![i].live = posted]
       /\ free' = IF posted THEN free - a.notional ELSE free
    /\ Executed
    /\ UNCHANGED halted

SubmitAccepted == Submit("ENTRY_OPEN", TRUE)
SubmitDoubtful == "doubt" \in Faults /\ Submit("PENDING_SUBMIT", TRUE)
SubmitRefused ==
    /\ Submit("PENDING_SUBMIT", FALSE)
    /\ "refuse" \in Faults \/ Head(cycle.approved).notional > free

\* Mutant: the venue's status taken for the row's.
SyncedRaw(r, b) ==
    IF r.status = "ENTRY_OPEN" /\ b.spent = r.notional
    THEN [r EXCEPT !.status = "FILLED", !.spent = b.spent] ELSE r

\* What sync_order makes of a row.
Synced(r, b) ==
    LET now == [r EXCEPT !.spent = b.spent]
    IN  CASE r.status = "ENTRY_OPEN" /\ b.spent = r.notional ->
               [now EXCEPT !.status = "POSITION_OPEN"]
          [] r.status = "ENTRY_OPEN" /\ ~b.live /\ b.spent = 0 -> NoRow    \* CANCELED
          [] r.status = "POSITION_OPEN" /\ b.sold -> NoRow                  \* CLOSED
          [] OTHER -> now

\* close_position: a bid that has bought nothing is cancelled, what is held is
\* offered for sale, anything else is left alone.
Closed(r) ==
    CASE r.status = "ENTRY_OPEN" /\ r.spent = 0 -> NoRow
      [] r.status = "ENTRY_OPEN" /\ r.spent > 0 ->
           [r EXCEPT !.status = "POSITION_OPEN", !.exiting = TRUE]
      [] r.status = "POSITION_OPEN" -> [r EXCEPT !.exiting = TRUE]
      [] OTHER -> r

Store(i, r) == rows' = [rows EXCEPT ![i] = r]

\* Cancelling a bid gives back the quote it has locked.  The venue's side of a row
\* that has ended is dropped with it.
SettleBid(i, r) ==
    /\ bids' = [bids EXCEPT ![i] = IF r = NoRow THEN NoBid ELSE [@ EXCEPT !.live = FALSE]]
    /\ free' = IF bids[i].live THEN free + rows[i].notional - bids[i].spent ELSE free

ExecuteClose ==
    /\ Executing("CLOSE")
    /\ LET i == Head(cycle.approved).target
           r == Synced(rows[i], bids[i])
       IN  \/ /\ IsOpen(i) /\ r.status # "PENDING_SUBMIT"
              /\ Store(i, Closed(r))
              /\ SettleBid(i, Closed(r))
           \/ /\ IsOpen(i) /\ r.status = "PENDING_SUBMIT"
              /\ Store(i, r)
              /\ UNCHANGED <<bids, free>>
           \/ /\ ~IsOpen(i)
              /\ UNCHANGED <<rows, bids, free>>
    /\ Executed
    /\ UNCHANGED halted

\* Nothing came of a decision: no order was saved, or closing one failed.
DecisionRaises ==
    /\ "raise" \in Faults
    /\ cycle.pc = "execute" /\ cycle.approved # <<>>
    /\ Executed
    /\ UNCHANGED <<rows, bids, free, halted>>

EndCycle ==
    /\ cycle.pc = "execute" /\ cycle.approved = <<>>
    /\ cycle' = NoCycle
    /\ UNCHANGED <<rows, bids, free, halted>>

\* The process stops, or the cycle raises, and the lock is free again.
Crash ==
    /\ cycle.pc # "idle"
    /\ cycle' = NoCycle
    /\ UNCHANGED <<rows, bids, free, halted>>

-----------------------------------------------------------------------------
(* Reconciling.  The REPL, the command line and a tool reconcile without   *)
(* the lock; only those who hold it have the snapshot a stop-out needs.    *)

Posted(i) == bids[i].live \/ bids[i].spent > 0

\* A doubtful submit that the venue knows is adopted first.
Adopted(i) == IF rows[i].status = "PENDING_SUBMIT" /\ Posted(i)
              THEN [rows[i] EXCEPT !.status = "ENTRY_OPEN"] ELSE rows[i]

Reconcile(i) ==
    /\ IsOpen(i)
    /\ LET r == Synced(Adopted(i), bids[i]) IN
       /\ Store(i, r)
       /\ bids' = IF r = NoRow THEN [bids EXCEPT ![i] = NoBid] ELSE bids
    /\ UNCHANGED <<free, halted, cycle>>

\* A submit the venue does not know is discarded once its grace is over, a bid that
\* has bought nothing is cancelled once past bid_ttl_minutes.
Discard(i) ==
    /\ IsOpen(i)
    /\ \/ rows[i].status = "PENDING_SUBMIT" /\ ~Posted(i)
       \/ rows[i].status = "ENTRY_OPEN" /\ bids[i].live /\ bids[i].spent = 0
    /\ Store(i, NoRow)
    /\ SettleBid(i, NoRow)
    /\ UNCHANGED <<halted, cycle>>

StopOut(i) ==
    /\ cycle.pc = "idle"
    /\ i \in Positions /\ ~rows[i].exiting
    /\ Store(i, [rows[i] EXCEPT !.exiting = TRUE])
    /\ UNCHANGED <<bids, free, halted, cycle>>

\* An exit order that died unfilled is forgotten.
DropExit(i) ==
    /\ i \in Positions /\ rows[i].exiting
    /\ Store(i, [rows[i] EXCEPT !.exiting = FALSE])
    /\ UNCHANGED <<bids, free, halted, cycle>>

-----------------------------------------------------------------------------
(* The venue, the clock and the switch.                                    *)

FillBid(i) ==
    /\ bids[i].live
    /\ \E quote \in bids[i].spent + 1 .. rows[i].notional :
         /\ quote = rows[i].notional \/ "partial" \in Faults
         /\ bids' = [bids EXCEPT ![i].spent = quote, ![i].live = quote < rows[i].notional]
    /\ UNCHANGED <<rows, free, halted, cycle>>

BidDies(i) ==
    /\ bids[i].live
    /\ SettleBid(i, rows[i])
    /\ UNCHANGED <<rows, halted, cycle>>

\* The ladder or an exit order has sold the position.
SellPosition(i) ==
    /\ i \in Positions /\ ~bids[i].live /\ ~bids[i].sold
    /\ bids' = [bids EXCEPT ![i].sold = TRUE]
    /\ free' = free + bids[i].spent
    /\ UNCHANGED <<rows, halted, cycle>>

GetOlder(i) ==
    /\ IsOpen(i) /\ rows[i].young
    /\ Store(i, [rows[i] EXCEPT !.young = FALSE])
    /\ UNCHANGED <<bids, free, halted, cycle>>

\* The operator turns the kill switch, a loss passes the daily limit, a day ends.
Halt ==
    /\ halted' = ~halted
    /\ UNCHANGED <<rows, bids, free, cycle>>

-----------------------------------------------------------------------------
Gate ==
    \/ Pass \/ EndGate
    \/ \E symbol \in Symbols, notional \in Notionals, strong \in BOOLEAN :
           ApproveBuy(symbol, notional, strong)
    \/ \E i \in Orders : ApproveClose(i)

Execute ==
    \/ SubmitAccepted \/ SubmitDoubtful \/ SubmitRefused
    \/ ExecuteClose \/ DecisionRaises \/ EndCycle

Background(i) ==
    \/ Reconcile(i) \/ Discard(i) \/ StopOut(i) \/ DropExit(i)
    \/ FillBid(i) \/ BidDies(i) \/ SellPosition(i) \/ GetOlder(i)

Next ==
    \/ \E n \in 0..MaxDecisions : BeginGate("agent", n)
    \/ BeginGate("operator", 1)
    \/ Gate \/ Execute \/ Crash
    \/ \E i \in Orders : Background(i)
    \/ Halt

Spec == Init /\ [][Next]_vars

-----------------------------------------------------------------------------
(* Properties.                                                             *)

\* The agent never holds two orders of one symbol, however doubtful the submits,
\* whatever the gate approves in one cycle and whenever the rows are reconciled
\* (_pretrade_blockers, "no doubling up").
OnePerSymbol ==
    \A i, j \in OpenRows : rows[i].symbol = rows[j].symbol => i = j

\* The buys that wait to be executed can all be paid: no approval spends what an
\* earlier one of the cycle has reserved (reserved_quote_notional).
ApprovedFunded ==
    "balance" \notin Faults =>
        MapThenSumSet(LAMBDA k : cycle.approved[k].notional, Buys) <= free

Submits(i) == ~IsOpen(i) /\ IsOpen(i)'

\* An entry joins fewer than max_open_positions orders of earlier cycles, and
\* takes the last slot only with the confidence the third order needs.
JoinsBelowCap ==
    [][(\E i \in Orders : Submits(i)) =>
         LET earlier == Cardinality(cycle.seen \cap OpenRows) IN
         /\ earlier < MaxOpenPositions
         /\ MaxOpenPositions <= 3 /\ earlier = MaxOpenPositions - 1
            => Head(cycle.approved).strong]_vars

\* A cycle of the agents never sells a position that it has seen as one and that
\* is younger than min_hold_hours.
MinHoldKept ==
    [][\A i \in Positions \cap cycle.held :
         cycle.source = "agent" /\ rows[i].young /\ ~rows[i].exiting /\ i \in Positions'
         => ~rows'[i].exiting]_vars

\* The open orders never exceed the cap on their number (README.md, "open-position
\* caps"; docs/research_dossier.md, "Open-position cap blocks ... beyond 3").
WithinPositionCap == Cardinality(OpenRows) <= MaxOpenPositions

\* Nor the cap on their total notional (core/config.py, "Cap on total open notional
\* across the correlated majors").
WithinCorrelatedCap ==
    MaxCorrelatedNotional > 0 =>
        MapThenSumSet(LAMBDA i : rows[i].notional, OpenRows) <= MaxCorrelatedNotional

=============================================================================
