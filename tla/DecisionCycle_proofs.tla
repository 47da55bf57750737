------------------------- MODULE DecisionCycle_proofs -------------------------
(***************************************************************************)
(* Theorems about DecisionCycle for every set of symbols, every cap and    *)
(* amount, every set of faults and any number of decisions in a cycle.     *)
(* Part 1 proves the types, part 2 that no symbol has two open orders,     *)
(* part 3 the cap on what one cycle may join, part 4 that what is approved *)
(* can be paid, part 5 that a young position is not sold.                  *)
(***************************************************************************)
EXTENDS DecisionCycle, SumLemmas, SequenceTheorems, TLAPS

LEMMA CycleConstants ==
    /\ Balance \in Nat /\ MaxDecisions \in Nat
    /\ \A n \in Notionals : n \in Nat /\ n > 0
  BY CycleAssumption DEF CycleAssumption

-----------------------------------------------------------------------------
(* Part 1.  The free balance is a natural number because a cancelled bid   *)
(* gives back what it has not spent, so the venue's bid has to be tied to  *)
(* its row: it spends less than the notional while it is live, and nothing *)
(* is left of it when the row is gone.                                     *)

BidMatches(r, b) ==
    /\ r = NoRow => b = NoBid
    /\ b.live => b.spent < r.notional

TypeInv == TypeOK /\ \A i \in Orders : BidMatches(rows[i], bids[i])

LEMMA NoRowIsNone == \A r \in OrderRecords : r # NoRow
  BY DEF OrderRecords, NoRow, OpenStatuses

LEMMA SyncedOK ==
    ASSUME NEW r \in OrderRecords, NEW b \in Bids
    PROVE  /\ Synced(r, b) \in Rows
           /\ Synced(r, b) # NoRow =>
                Synced(r, b).symbol = r.symbol /\ Synced(r, b).notional = r.notional
  <1> DEFINE now == [r EXCEPT !.spent = b.spent]
  <1>1. /\ now \in OrderRecords /\ [now EXCEPT !.status = "POSITION_OPEN"] \in OrderRecords
        /\ now.symbol = r.symbol /\ now.notional = r.notional
    BY DEF OrderRecords, OpenStatuses, Bids
  <1>2. \/ Synced(r, b) = [now EXCEPT !.status = "POSITION_OPEN"]
        \/ Synced(r, b) = NoRow \/ Synced(r, b) = now
    BY DEF Synced
  <1> HIDE DEF now
  <1> QED
    BY <1>1, <1>2 DEF Rows, OrderRecords

LEMMA ClosedOK ==
    ASSUME NEW r \in Rows
    PROVE  /\ Closed(r) \in Rows
           /\ Closed(r) # NoRow =>
                r # NoRow /\ Closed(r).symbol = r.symbol /\ Closed(r).notional = r.notional
  <1>1. CASE r \in OrderRecords
    <2> DEFINE held == [r EXCEPT !.status = "POSITION_OPEN", !.exiting = TRUE]
              offered == [r EXCEPT !.exiting = TRUE]
    <2>1. /\ held \in OrderRecords /\ held.symbol = r.symbol /\ held.notional = r.notional
          /\ offered \in OrderRecords
          /\ offered.symbol = r.symbol /\ offered.notional = r.notional
      BY <1>1 DEF OrderRecords, OpenStatuses
    <2>2. \/ Closed(r) = NoRow \/ Closed(r) = held
          \/ Closed(r) = offered \/ Closed(r) = r
      BY DEF Closed
    <2>3. r # NoRow
      BY <1>1, NoRowIsNone
    <2> HIDE DEF held, offered
    <2> QED
      BY <1>1, <2>1, <2>2, <2>3 DEF Rows
  <1>2. CASE r = NoRow
    BY <1>2 DEF Closed, Rows, NoRow
  <1> QED
    BY <1>1, <1>2 DEF Rows

LEMMA AdoptedOK ==
    ASSUME NEW i \in Orders, rows[i] \in OrderRecords
    PROVE  /\ Adopted(i) \in OrderRecords
           /\ Adopted(i).symbol = rows[i].symbol /\ Adopted(i).notional = rows[i].notional
  BY DEF Adopted, OrderRecords, OpenStatuses

LEMMA OpenOK ==
    ASSUME TypeOK, NEW i \in Orders, IsOpen(i)
    PROVE  rows[i] \in OrderRecords /\ bids[i] \in Bids
  BY DEF TypeOK, IsOpen, Rows

LEMMA PositionsOpen ==
    ASSUME TypeOK, NEW i \in Orders, rows[i].status = "POSITION_OPEN"
    PROVE  IsOpen(i)
  BY DEF TypeOK, IsOpen, NoRow

\* Saving one row and settling its bid keep every row and bid of the right type.
LEMMA StoreOK ==
    ASSUME TypeInv, NEW i \in Orders, NEW r \in Rows, NEW b \in Bids, BidMatches(r, b),
           rows' = [rows EXCEPT ![i] = r], bids' = [bids EXCEPT ![i] = b]
    PROVE  /\ rows' \in [Orders -> Rows] /\ bids' \in [Orders -> Bids]
           /\ \A j \in Orders : BidMatches(rows'[j], bids'[j])
  BY DEF TypeInv, TypeOK

LEMMA SettleOK ==
    ASSUME TypeInv, NEW i \in Orders, IsOpen(i), NEW r \in Rows,
           r # NoRow => r.notional = rows[i].notional,
           Store(i, r), SettleBid(i, r)
    PROVE  /\ rows' \in [Orders -> Rows] /\ bids' \in [Orders -> Bids]
           /\ \A j \in Orders : BidMatches(rows'[j], bids'[j])
           /\ free' \in Nat
  <1> DEFINE b == IF r = NoRow THEN NoBid ELSE [bids[i] EXCEPT !.live = FALSE]
  <1>1. rows[i] \in OrderRecords /\ bids[i] \in Bids
    BY OpenOK DEF TypeInv
  <1>2. b \in Bids /\ BidMatches(r, b)
    BY <1>1 DEF Bids, NoBid, BidMatches
  <1>3. rows' = [rows EXCEPT ![i] = r] /\ bids' = [bids EXCEPT ![i] = b]
    BY DEF Store, SettleBid, TypeInv, TypeOK
  <1>4. free' \in Nat
    <2>1. rows[i].notional \in Nat /\ bids[i].spent \in Nat
      BY <1>1, CycleConstants DEF OrderRecords, Bids
    <2>2. bids[i].live => bids[i].spent < rows[i].notional
      BY DEF TypeInv, BidMatches
    <2>3. free \in Nat
      BY DEF TypeInv, TypeOK
    <2> QED
      BY <2>1, <2>2, <2>3 DEF SettleBid
  <1> HIDE DEF b
  <1> QED
    BY <1>2, <1>3, <1>4, StoreOK

\* What a step leaves alone keeps its type.
Money == <<rows, bids, free>>

LEMMA MoneyUnchanged ==
    ASSUME TypeInv, UNCHANGED Money, halted' \in BOOLEAN, cycle' \in Cycles
    PROVE  TypeInv'
  BY DEF TypeInv, TypeOK, Money

LEMMA CycleUnchanged ==
    ASSUME TypeInv, UNCHANGED <<halted, cycle>>,
           rows' \in [Orders -> Rows], bids' \in [Orders -> Bids], free' \in Nat,
           \A i \in Orders : BidMatches(rows'[i], bids'[i])
    PROVE  TypeInv'
  BY DEF TypeInv, TypeOK

-----------------------------------------------------------------------------
(* The gate and the cycle.                                                 *)

LEMMA BeginGateType ==
    ASSUME TypeInv, NEW source \in {"agent", "operator"}, NEW n \in Nat, BeginGate(source, n)
    PROVE  TypeInv'
  <1>1. OpenRows \subseteq Orders /\ Positions \subseteq Orders
    BY DEF OpenRows, Positions
  <1>2. SymbolsOf(OpenRows) \subseteq Symbols
    BY OpenOK DEF SymbolsOf, OpenRows, TypeInv, OrderRecords
  <1>3. <<>> \in Seq(Approvals)
    OBVIOUS
  <1>4. cycle' = [pc |-> "gate", source |-> source, left |-> n, seen |-> OpenRows,
                  held |-> Positions, symbols |-> SymbolsOf(OpenRows), reserved |-> 0,
                  approved |-> <<>>]
    BY DEF BeginGate, NoCycle
  <1>5. cycle' \in Cycles
    BY <1>1, <1>2, <1>3, <1>4 DEF Cycles
  <1> QED
    BY <1>5, MoneyUnchanged DEF BeginGate, Money, TypeInv, TypeOK

\* A gated decision is one fewer to gate.
LEMMA LeftOK == ASSUME TypeInv, Gating PROVE cycle \in Cycles /\ cycle.left - 1 \in Nat
  <1>1. cycle \in Cycles /\ cycle.left > 0
    BY DEF Gating, TypeInv, TypeOK
  <1>2. cycle.left \in Nat
    BY <1>1 DEF Cycles
  <1> QED
    BY <1>1, <1>2

LEMMA CycleRecord ==
    ASSUME NEW c \in Cycles, NEW left \in Nat, NEW symbols \in SUBSET Symbols,
           NEW reserved \in Nat, NEW approved \in Seq(Approvals)
    PROVE  [c EXCEPT !.left = left, !.symbols = symbols, !.reserved = reserved,
                     !.approved = approved] \in Cycles
  BY DEF Cycles

LEMMA PassType == ASSUME TypeInv, Pass PROVE TypeInv'
  <1>1. cycle' \in Cycles
    BY LeftOK DEF Pass, Cycles
  <1> QED
    BY <1>1, MoneyUnchanged DEF Pass, Money, TypeInv, TypeOK

LEMMA ApproveBuyType ==
    ASSUME TypeInv, NEW s \in Symbols, NEW n \in Notionals, NEW strong \in BOOLEAN,
           ApproveBuy(s, n, strong)
    PROVE  TypeInv'
  <1> DEFINE a == [action |-> "BUY", symbol |-> s, notional |-> n, strong |-> strong]
             left == cycle.left - 1
             symbols == cycle.symbols \cup {s}
             reserved == cycle.reserved + n
             approved == Append(cycle.approved, a)
  <1>1. cycle \in Cycles /\ left \in Nat
    BY LeftOK DEF ApproveBuy
  <1>2. a \in Approvals /\ cycle.approved \in Seq(Approvals)
    BY <1>1 DEF Approvals, Cycles
  <1>3. approved \in Seq(Approvals)
    BY <1>2
  <1>4. symbols \in SUBSET Symbols /\ reserved \in Nat
    BY <1>1, CycleConstants DEF Cycles
  <1>5. cycle' = [cycle EXCEPT !.left = left, !.symbols = symbols, !.reserved = reserved,
                               !.approved = approved]
    BY DEF ApproveBuy
  <1> HIDE DEF left, symbols, reserved, approved
  <1>6. cycle' \in Cycles
    BY <1>1, <1>3, <1>4, <1>5, CycleRecord
  <1> QED
    BY <1>6, MoneyUnchanged DEF ApproveBuy, Money, TypeInv, TypeOK

LEMMA ApproveCloseType ==
    ASSUME TypeInv, NEW i \in Orders, ApproveClose(i) PROVE TypeInv'
  <1> DEFINE a == [action |-> "CLOSE", target |-> i]
             left == cycle.left - 1
             approved == Append(cycle.approved, a)
  <1>1. cycle \in Cycles /\ left \in Nat
    BY LeftOK DEF ApproveClose
  <1>2. a \in Approvals /\ cycle.approved \in Seq(Approvals)
    BY <1>1 DEF Approvals, Cycles
  <1>3. approved \in Seq(Approvals)
    BY <1>2
  <1>4. cycle' = [cycle EXCEPT !.left = left, !.approved = approved]
    BY DEF ApproveClose
  <1> HIDE DEF left, approved
  <1>5. cycle' \in Cycles
    BY <1>1, <1>3, <1>4 DEF Cycles
  <1> QED
    BY <1>5, MoneyUnchanged DEF ApproveClose, Money, TypeInv, TypeOK

LEMMA EndGateType == ASSUME TypeInv, EndGate PROVE TypeInv'
  <1>1. cycle \in Cycles
    BY DEF TypeInv, TypeOK
  <1>2. cycle' \in Cycles
    BY <1>1 DEF EndGate, Cycles
  <1> QED
    BY <1>2, MoneyUnchanged DEF EndGate, Money, TypeInv, TypeOK

LEMMA NoCycleOK == NoCycle \in Cycles
  BY DEF NoCycle, Cycles

LEMMA ExecutedType ==
    ASSUME TypeInv, cycle.approved # <<>>, Executed PROVE cycle' \in Cycles
  <1>1. cycle \in Cycles /\ cycle.approved \in Seq(Approvals)
    BY DEF TypeInv, TypeOK, Cycles
  <1>2. Tail(cycle.approved) \in Seq(Approvals)
    BY <1>1
  <1> QED
    BY <1>1, <1>2 DEF Executed, Cycles

LEMMA EndCycleType == ASSUME TypeInv, EndCycle \/ Crash PROVE TypeInv'
  BY NoCycleOK, MoneyUnchanged DEF EndCycle, Crash, Money, TypeInv, TypeOK

LEMMA DecisionRaisesType == ASSUME TypeInv, DecisionRaises PROVE TypeInv'
  BY ExecutedType, MoneyUnchanged DEF DecisionRaises, Money, TypeInv, TypeOK

LEMMA HaltType == ASSUME TypeInv, Halt PROVE TypeInv'
  BY MoneyUnchanged DEF Halt, Money, TypeInv, TypeOK

LEMMA SubmitType ==
    ASSUME TypeInv, NEW status \in {"PENDING_SUBMIT", "ENTRY_OPEN"}, NEW posted \in BOOLEAN,
           Submit(status, posted)
    PROVE  TypeInv'
  <1> DEFINE a == Head(cycle.approved)
             r == [symbol |-> a.symbol, notional |-> a.notional, status |-> status,
                   spent |-> 0, young |-> TRUE, exiting |-> FALSE]
  <1>1. cycle.approved \in Seq(Approvals) /\ cycle.approved # <<>> /\ a.action = "BUY"
    BY DEF Submit, Executing, TypeInv, TypeOK, Cycles
  <1>2. a \in Approvals
    BY <1>1
  <1>3. a.symbol \in Symbols /\ a.notional \in Notionals
    BY <1>1, <1>2 DEF Approvals
  <1>4. r \in OrderRecords
    BY <1>3 DEF OrderRecords, OpenStatuses
  <1>5. a.notional \in Nat /\ a.notional > 0 /\ free \in Nat
    BY <1>3, CycleConstants DEF TypeInv, TypeOK
  <1>6. PICK i \in Orders : /\ ~IsOpen(i)
                            /\ rows' = [rows EXCEPT ![i] = r]
                            /\ bids' = [bids EXCEPT ![i].live = posted]
    BY DEF Submit, OpenRows
  <1> DEFINE b == [NoBid EXCEPT !.live = posted]
  <1>7. bids[i] = NoBid /\ bids' = [bids EXCEPT ![i] = b]
    BY <1>6 DEF TypeInv, TypeOK, BidMatches, IsOpen
  <1>8. b \in Bids /\ BidMatches(r, b)
    BY <1>4, <1>5, NoRowIsNone DEF Bids, NoBid, BidMatches
  <1>9. free' \in Nat
    BY <1>5 DEF Submit
  <1>10. cycle' \in Cycles /\ halted' \in BOOLEAN
    BY <1>1, ExecutedType DEF Submit, TypeInv, TypeOK
  <1>11. /\ rows' \in [Orders -> Rows] /\ bids' \in [Orders -> Bids]
         /\ \A j \in Orders : BidMatches(rows'[j], bids'[j])
    <2>1. r \in Rows
      BY <1>4 DEF Rows
    <2> HIDE DEF r, b
    <2> QED
      BY <2>1, <1>6, <1>7, <1>8, StoreOK
  <1> QED
    BY <1>9, <1>10, <1>11 DEF TypeInv, TypeOK

-----------------------------------------------------------------------------
(* Closing, reconciling, the venue and the clock.                          *)

StoredOK ==
    /\ rows' \in [Orders -> Rows] /\ bids' \in [Orders -> Bids] /\ free' \in Nat
    /\ \A i \in Orders : BidMatches(rows'[i], bids'[i])

LEMMA RowStoredOK ==
    ASSUME TypeInv, NEW i \in Orders, IsOpen(i), NEW r \in OrderRecords,
           r.notional = rows[i].notional, Store(i, r), UNCHANGED <<bids, free>>
    PROVE  StoredOK
  <1>1. bids[i] \in Bids /\ r \in Rows /\ BidMatches(r, bids[i]) /\ free' \in Nat
    BY NoRowIsNone DEF TypeInv, TypeOK, BidMatches, Rows
  <1>2. rows' = [rows EXCEPT ![i] = r] /\ bids' = [bids EXCEPT ![i] = bids[i]]
    BY DEF Store, TypeInv, TypeOK
  <1> QED
    BY <1>1, <1>2, StoreOK DEF StoredOK

LEMMA TargetOK == ASSUME TypeInv, Executing("CLOSE") PROVE Head(cycle.approved).target \in Orders
  <1>1. cycle.approved \in Seq(Approvals) /\ cycle.approved # <<>>
    BY DEF TypeInv, TypeOK, Cycles, Executing
  <1>2. Head(cycle.approved) \in Approvals
    BY <1>1
  <1> QED
    BY <1>2 DEF Approvals, Executing

LEMMA ExecuteCloseType == ASSUME TypeInv, ExecuteClose PROVE TypeInv'
  <1> DEFINE i == Head(cycle.approved).target
             r == Synced(rows[i], bids[i])
  <1>1. i \in Orders
    BY TargetOK DEF ExecuteClose
  <1>2. cycle' \in Cycles /\ halted' \in BOOLEAN
    BY ExecutedType DEF ExecuteClose, Executing, TypeInv, TypeOK
  <1>3. StoredOK
    <2>1. CASE ~IsOpen(i)
      BY <2>1 DEF ExecuteClose, TypeInv, TypeOK, StoredOK
    <2>2. CASE IsOpen(i)
      <3>1. rows[i] \in OrderRecords /\ bids[i] \in Bids
        BY <1>1, <2>2, OpenOK DEF TypeInv
      <3>2. r \in Rows /\ (r # NoRow => r.notional = rows[i].notional)
        BY <3>1, SyncedOK
      <3>3. CASE r.status = "PENDING_SUBMIT"
        <4>1. r \in OrderRecords /\ r.notional = rows[i].notional
          BY <3>2, <3>3 DEF Rows, NoRow
        <4>2. Store(i, r) /\ UNCHANGED <<bids, free>>
          BY <2>2, <3>3 DEF ExecuteClose
        <4> HIDE DEF i, r
        <4> QED
          BY <1>1, <2>2, <4>1, <4>2, RowStoredOK
      <3>4. CASE r.status # "PENDING_SUBMIT"
        <4>1. Closed(r) \in Rows /\ (Closed(r) # NoRow => Closed(r).notional = rows[i].notional)
          BY <3>2, ClosedOK
        <4>2. Store(i, Closed(r)) /\ SettleBid(i, Closed(r))
          BY <2>2, <3>4 DEF ExecuteClose
        <4> HIDE DEF i, r
        <4> QED
          BY <1>1, <2>2, <4>1, <4>2, SettleOK DEF StoredOK
      <3> QED
        BY <3>3, <3>4
    <2> QED
      BY <2>1, <2>2
  <1> QED
    BY <1>2, <1>3 DEF TypeInv, TypeOK, StoredOK

LEMMA ReconcileType == ASSUME TypeInv, NEW i \in Orders, Reconcile(i) PROVE TypeInv'
  <1> DEFINE r == Synced(Adopted(i), bids[i])
             b == IF r = NoRow THEN NoBid ELSE bids[i]
  <1>1. rows[i] \in OrderRecords /\ bids[i] \in Bids
    BY OpenOK DEF Reconcile, TypeInv
  <1>2. Adopted(i) \in OrderRecords /\ Adopted(i).notional = rows[i].notional
    BY <1>1, AdoptedOK
  <1>3. r \in Rows /\ (r # NoRow => r.notional = rows[i].notional)
    BY <1>1, <1>2, SyncedOK
  <1>4. b \in Bids /\ BidMatches(r, b)
    BY <1>1, <1>3 DEF TypeInv, BidMatches, Bids, NoBid
  <1>5. rows' = [rows EXCEPT ![i] = r] /\ bids' = [bids EXCEPT ![i] = b]
    BY DEF Reconcile, Store, TypeInv, TypeOK
  <1> HIDE DEF r, b
  <1> QED
    BY <1>3, <1>4, <1>5, StoreOK, CycleUnchanged DEF Reconcile, TypeInv, TypeOK

LEMMA DiscardType == ASSUME TypeInv, NEW i \in Orders, Discard(i) PROVE TypeInv'
  <1>1. NoRow \in Rows
    BY DEF Rows
  <1> QED
    BY <1>1, SettleOK, CycleUnchanged DEF Discard

LEMMA AgedType ==
    ASSUME TypeInv, NEW i \in Orders, StopOut(i) \/ DropExit(i) \/ GetOlder(i)
    PROVE  TypeInv'
  <1>1. IsOpen(i) /\ rows[i] \in OrderRecords
    BY OpenOK DEF StopOut, DropExit, GetOlder, Positions, OpenRows, TypeInv
  <1>2. \A x \in BOOLEAN :
          /\ [rows[i] EXCEPT !.exiting = x] \in OrderRecords
          /\ [rows[i] EXCEPT !.exiting = x].notional = rows[i].notional
          /\ [rows[i] EXCEPT !.young = x] \in OrderRecords
          /\ [rows[i] EXCEPT !.young = x].notional = rows[i].notional
    BY <1>1 DEF OrderRecords
  <1>3. PICK r \in OrderRecords : r.notional = rows[i].notional /\ Store(i, r)
    BY <1>2 DEF StopOut, DropExit, GetOlder
  <1>4. UNCHANGED <<bids, free, halted, cycle>>
    BY DEF StopOut, DropExit, GetOlder
  <1>5. StoredOK
    BY <1>1, <1>3, <1>4, RowStoredOK
  <1> QED
    BY <1>4, <1>5, CycleUnchanged DEF StoredOK

\* A bid of the venue that is not empty has its row.
LEMMA BidHasRow ==
    ASSUME TypeInv, NEW i \in Orders, bids[i].live
    PROVE  /\ IsOpen(i) /\ rows[i] \in OrderRecords /\ bids[i] \in Bids
           /\ rows[i].notional \in Nat /\ bids[i].spent < rows[i].notional
  <1>1. IsOpen(i)
    BY DEF TypeInv, BidMatches, NoBid, IsOpen
  <1>2. rows[i] \in OrderRecords /\ bids[i] \in Bids
    BY <1>1, OpenOK DEF TypeInv
  <1> QED
    BY <1>1, <1>2, CycleConstants DEF TypeInv, BidMatches, OrderRecords

LEMMA FillBidType == ASSUME TypeInv, NEW i \in Orders, FillBid(i) PROVE TypeInv'
  <1>1. rows[i] \in OrderRecords /\ rows[i].notional \in Nat /\ bids[i] \in Bids
    BY BidHasRow DEF FillBid
  <1>2. PICK quote \in bids[i].spent + 1 .. rows[i].notional :
          bids' = [bids EXCEPT ![i].spent = quote, ![i].live = quote < rows[i].notional]
    BY DEF FillBid
  <1> DEFINE b == [bids[i] EXCEPT !.spent = quote, !.live = quote < rows[i].notional]
  <1>3. quote \in Nat
    BY <1>1, <1>2 DEF Bids
  <1>4. b \in Bids /\ BidMatches(rows[i], b)
    <2>1. b \in Bids
      <3>1. \A x \in BOOLEAN : [bids[i] EXCEPT !.spent = quote, !.live = x] \in Bids
        BY <1>1, <1>3 DEF Bids
      <3>2. (quote < rows[i].notional) \in BOOLEAN
        OBVIOUS
      <3> QED
        BY <3>1, <3>2 DEF Bids
    <2>2. b.spent = quote /\ (b.live => quote < rows[i].notional)
      BY <1>1 DEF Bids
    <2>3. rows[i] # NoRow
      BY <1>1, NoRowIsNone
    <2> HIDE DEF b
    <2> QED
      BY <2>1, <2>2, <2>3 DEF BidMatches
  <1>5. rows' = [rows EXCEPT ![i] = rows[i]] /\ bids' = [bids EXCEPT ![i] = b]
    BY <1>2 DEF FillBid, TypeInv, TypeOK
  <1>6. rows[i] \in Rows
    BY <1>1 DEF Rows
  <1> HIDE DEF b
  <1> QED
    BY <1>4, <1>5, <1>6, StoreOK, CycleUnchanged DEF FillBid, TypeInv, TypeOK

LEMMA BidDiesType == ASSUME TypeInv, NEW i \in Orders, BidDies(i) PROVE TypeInv'
  <1>1. IsOpen(i) /\ rows[i] \in Rows
    BY BidHasRow DEF BidDies, Rows
  <1>2. Store(i, rows[i])
    BY DEF BidDies, Store, TypeInv, TypeOK
  <1> QED
    BY <1>1, <1>2, SettleOK, CycleUnchanged DEF BidDies

LEMMA SellPositionType == ASSUME TypeInv, NEW i \in Orders, SellPosition(i) PROVE TypeInv'
  <1>1. rows[i] \in OrderRecords /\ bids[i] \in Bids
    BY OpenOK DEF SellPosition, Positions, OpenRows, TypeInv
  <1> DEFINE b == [bids[i] EXCEPT !.sold = TRUE]
  <1>2. b \in Bids /\ BidMatches(rows[i], b)
    <2>1. b \in Bids /\ b.live = bids[i].live /\ b.spent = bids[i].spent
      BY <1>1 DEF Bids
    <2>2. rows[i] # NoRow /\ BidMatches(rows[i], bids[i])
      BY <1>1, NoRowIsNone DEF TypeInv
    <2> HIDE DEF b
    <2> QED
      BY <2>1, <2>2 DEF BidMatches
  <1>3. rows' = [rows EXCEPT ![i] = rows[i]] /\ bids' = [bids EXCEPT ![i] = b]
    BY DEF SellPosition, TypeInv, TypeOK
  <1>4. free' \in Nat /\ rows[i] \in Rows
    BY <1>1 DEF SellPosition, TypeInv, TypeOK, Bids, Rows
  <1> HIDE DEF b
  <1> QED
    BY <1>2, <1>3, <1>4, StoreOK, CycleUnchanged DEF SellPosition

LEMMA NextType == ASSUME TypeInv, Next PROVE TypeInv'
  <1>1. ASSUME NEW n \in 0..MaxDecisions, BeginGate("agent", n) PROVE TypeInv'
    BY <1>1, BeginGateType, CycleConstants
  <1>2. CASE BeginGate("operator", 1)
    BY <1>2, BeginGateType
  <1>3. CASE Gate
    BY <1>3, PassType, EndGateType, ApproveBuyType, ApproveCloseType DEF Gate
  <1>4. CASE Execute
    BY <1>4, SubmitType, ExecuteCloseType, DecisionRaisesType, EndCycleType
    DEF Execute, SubmitAccepted, SubmitDoubtful, SubmitRefused
  <1>5. CASE Crash
    BY <1>5, EndCycleType
  <1>6. ASSUME NEW i \in Orders, Background(i) PROVE TypeInv'
    BY <1>6, ReconcileType, DiscardType, AgedType, FillBidType, BidDiesType, SellPositionType
    DEF Background
  <1>7. CASE Halt
    BY <1>7, HaltType
  <1> QED
    BY <1>1, <1>2, <1>3, <1>4, <1>5, <1>6, <1>7 DEF Next

LEMMA InitType == Init => TypeInv
  <1>1. NoRow \in Rows /\ NoBid \in Bids /\ BidMatches(NoRow, NoBid)
    BY DEF Rows, Bids, NoBid, BidMatches
  <1> QED
    BY <1>1, CycleConstants, NoCycleOK DEF Init, TypeInv, TypeOK

\* Every row, bid and local variable of the gate keeps its type, and every bid
\* its row, for every set of symbols and orders, every cap and every fault.
THEOREM TypeInvariant == Spec => []TypeInv
  <1>1. TypeInv /\ UNCHANGED vars => TypeInv'
    BY DEF vars, TypeInv, TypeOK
  <1> QED
    BY InitType, NextType, <1>1, PTL DEF Spec

\* The free balance never goes negative: no entry is posted that cannot be paid,
\* and a bid that ends gives back what it has not spent.
THEOREM CycleTypeCorrect == Spec => []TypeOK
  <1>1. TypeInv => TypeOK
    BY DEF TypeInv
  <1> QED
    BY <1>1, TypeInvariant, PTL

-----------------------------------------------------------------------------
(* Part 2.  OnePerSymbol is not inductive: the gate decides and the row    *)
(* appears later, so the buys that wait have to be told apart too, from    *)
(* the rows and from one another, and while the gate works its set of      *)
(* symbols has to name them all.  That rests on the lock: rows come only   *)
(* from a cycle, so between two gates of a cycle rows can only go.         *)

WaitingSymbol(k) == cycle.approved[k].symbol

GateInv ==
    /\ OnePerSymbol
    /\ \A k \in Buys, i \in OpenRows : WaitingSymbol(k) # rows[i].symbol
    /\ \A k, l \in Buys : WaitingSymbol(k) = WaitingSymbol(l) => k = l
    /\ cycle.pc = "gate" =>
         /\ \A i \in OpenRows : rows[i].symbol \in cycle.symbols
         /\ \A k \in Buys : WaitingSymbol(k) \in cycle.symbols
    /\ cycle.pc = "idle" => cycle.approved = <<>>

\* Rows only go, and those that stay keep their symbol.
RowsShrink ==
    \A i \in Orders : IsOpen(i)' => IsOpen(i) /\ rows'[i].symbol = rows[i].symbol

LEMMA StoreShrinks ==
    ASSUME TypeInv, NEW i \in Orders, NEW r, Store(i, r),
           r # NoRow => IsOpen(i) /\ r.symbol = rows[i].symbol
    PROVE  RowsShrink
  BY DEF TypeInv, TypeOK, Store, RowsShrink, IsOpen

LEMMA SyncShrinks ==
    ASSUME TypeInv, NEW i \in Orders, IsOpen(i), NEW r \in {rows[i], Adopted(i)}
    PROVE  /\ Synced(r, bids[i]) # NoRow => Synced(r, bids[i]).symbol = rows[i].symbol
           /\ Synced(r, bids[i]) \in Rows
  BY OpenOK, AdoptedOK, SyncedOK DEF TypeInv

LEMMA BackgroundShrinks ==
    ASSUME TypeInv, NEW i \in Orders, Background(i) PROVE RowsShrink /\ UNCHANGED cycle
  <1>1. CASE Reconcile(i)
    BY <1>1, SyncShrinks, StoreShrinks DEF Reconcile
  <1>2. CASE Discard(i)
    BY <1>2, StoreShrinks DEF Discard
  <1>3. CASE StopOut(i) \/ DropExit(i) \/ GetOlder(i)
    <2>1. IsOpen(i) /\ rows[i] \in OrderRecords
      BY <1>3, OpenOK DEF StopOut, DropExit, GetOlder, Positions, OpenRows, TypeInv
    <2>2. \A x \in BOOLEAN : /\ [rows[i] EXCEPT !.exiting = x].symbol = rows[i].symbol
                             /\ [rows[i] EXCEPT !.young = x].symbol = rows[i].symbol
      BY <2>1 DEF OrderRecords
    <2>3. PICK r : r.symbol = rows[i].symbol /\ Store(i, r)
      BY <1>3, <2>2 DEF StopOut, DropExit, GetOlder
    <2> QED
      BY <1>3, <2>1, <2>3, StoreShrinks DEF StopOut, DropExit, GetOlder
  <1>4. CASE FillBid(i) \/ BidDies(i) \/ SellPosition(i)
    BY <1>4 DEF FillBid, BidDies, SellPosition, RowsShrink, IsOpen
  <1> QED
    BY <1>1, <1>2, <1>3, <1>4 DEF Background

LEMMA ShrinkKeeps ==
    ASSUME GateInv, RowsShrink, UNCHANGED cycle PROVE GateInv'
  <1>1. OpenRows' \subseteq OpenRows /\ Buys' = Buys
    BY DEF RowsShrink, OpenRows, Buys
  <1>2. \A i \in OpenRows' : rows'[i].symbol = rows[i].symbol
    BY DEF RowsShrink, OpenRows
  <1> QED
    BY <1>1, <1>2 DEF GateInv, OnePerSymbol, WaitingSymbol

LEMMA BeginGateKeeps ==
    ASSUME TypeInv, GateInv, NEW source, NEW n, BeginGate(source, n) PROVE GateInv'
  <1>1. cycle' = [pc |-> "gate", source |-> source, left |-> n, seen |-> OpenRows,
                  held |-> Positions, symbols |-> SymbolsOf(OpenRows), reserved |-> 0,
                  approved |-> <<>>]
    BY DEF BeginGate, NoCycle
  <1>2. Buys' = {}
    BY <1>1 DEF Buys
  <1>3. OpenRows' = OpenRows /\ rows' = rows
    BY DEF BeginGate, OpenRows, IsOpen
  <1> QED
    BY <1>1, <1>2, <1>3 DEF GateInv, OnePerSymbol, SymbolsOf

\* What the gate appends is the only new buy that waits.
LEMMA Appended ==
    ASSUME TypeInv, NEW a, cycle'.approved = Append(cycle.approved, a)
    PROVE  \A k \in Buys' : \/ k \in Buys /\ cycle'.approved[k] = cycle.approved[k]
                            \/ /\ k = Len(cycle.approved) + 1 /\ cycle'.approved[k] = a
                               /\ a.action = "BUY"
  <1>1. cycle.approved \in Seq(Approvals)
    BY DEF TypeInv, TypeOK, Cycles
  <1>2. DOMAIN cycle'.approved = 1..(Len(cycle.approved) + 1)
    BY <1>1
  <1>3. \A k \in 1..Len(cycle.approved) : cycle'.approved[k] = cycle.approved[k]
    BY <1>1
  <1>4. cycle'.approved[Len(cycle.approved) + 1] = a
    BY <1>1
  <1>5. DOMAIN cycle.approved = 1..Len(cycle.approved) /\ Len(cycle.approved) \in Nat
    BY <1>1
  <1> QED
    BY <1>2, <1>3, <1>4, <1>5 DEF Buys

LEMMA ApproveBuyKeeps ==
    ASSUME TypeInv, GateInv, NEW s \in Symbols, NEW n \in Notionals, NEW strong \in BOOLEAN,
           ApproveBuy(s, n, strong)
    PROVE  GateInv'
  <1> DEFINE a == [action |-> "BUY", symbol |-> s, notional |-> n, strong |-> strong]
  <1>1. cycle \in Cycles /\ cycle.pc = "gate" /\ s \notin cycle.symbols
    BY DEF ApproveBuy, Gating, TypeInv, TypeOK
  <1>2. /\ cycle'.approved = Append(cycle.approved, a)
        /\ cycle'.symbols = cycle.symbols \cup {s} /\ cycle'.pc = "gate"
    BY <1>1 DEF ApproveBuy, Cycles
  <1>3. a.symbol = s
    OBVIOUS
  <1> HIDE DEF a
  <1>4. \A k \in Buys' : \/ k \in Buys /\ WaitingSymbol(k)' = WaitingSymbol(k)
                         \/ k = Len(cycle.approved) + 1 /\ WaitingSymbol(k)' = s
    BY <1>2, <1>3, Appended DEF WaitingSymbol
  <1>5. OpenRows' = OpenRows /\ rows' = rows
    BY DEF ApproveBuy, OpenRows, IsOpen
  <1>6. \A k \in Buys : WaitingSymbol(k) \in cycle.symbols /\ WaitingSymbol(k) # s
    BY <1>1 DEF GateInv
  <1>7. \A i \in OpenRows : rows[i].symbol \in cycle.symbols /\ rows[i].symbol # s
    BY <1>1 DEF GateInv
  <1>8. \A k \in Buys', i \in OpenRows' : WaitingSymbol(k)' # rows'[i].symbol
    BY <1>4, <1>5, <1>7 DEF GateInv
  <1>9. \A k, l \in Buys' : WaitingSymbol(k)' = WaitingSymbol(l)' => k = l
    BY <1>4, <1>6 DEF GateInv
  <1> QED
    BY <1>2, <1>4, <1>5, <1>6, <1>7, <1>8, <1>9 DEF GateInv, OnePerSymbol

LEMMA ApproveCloseKeeps ==
    ASSUME TypeInv, GateInv, NEW j \in Orders, ApproveClose(j) PROVE GateInv'
  <1> DEFINE a == [action |-> "CLOSE", target |-> j]
  <1>1. cycle \in Cycles
    BY DEF TypeInv, TypeOK
  <1>2. /\ cycle'.approved = Append(cycle.approved, a)
        /\ cycle'.symbols = cycle.symbols /\ cycle.pc = "gate" /\ cycle'.pc = "gate"
    BY <1>1 DEF ApproveClose, Gating, Cycles
  <1>3. a.action # "BUY"
    OBVIOUS
  <1> HIDE DEF a
  <1>4. \A k \in Buys' : k \in Buys /\ WaitingSymbol(k)' = WaitingSymbol(k)
    BY <1>2, <1>3, Appended DEF WaitingSymbol
  <1>5. OpenRows' = OpenRows /\ rows' = rows
    BY DEF ApproveClose, OpenRows, IsOpen
  <1> QED
    BY <1>2, <1>4, <1>5 DEF GateInv, OnePerSymbol

\* Passing, ending the gate and what the switch does leave the approvals alone.
LEMMA PassKeeps ==
    ASSUME TypeInv, GateInv, Pass \/ EndGate PROVE GateInv'
  <1>1. cycle \in Cycles
    BY DEF TypeInv, TypeOK
  <1>2. /\ cycle'.approved = cycle.approved /\ cycle.pc = "gate"
        /\ \/ cycle'.pc = "gate" /\ cycle'.symbols = cycle.symbols
           \/ cycle'.pc = "execute"
    BY <1>1 DEF Pass, EndGate, Gating, Cycles
  <1>3. OpenRows' = OpenRows /\ rows' = rows /\ Buys' = Buys
    BY <1>2 DEF Pass, EndGate, OpenRows, IsOpen, Buys
  <1>4. \A k : WaitingSymbol(k)' = WaitingSymbol(k)
    BY <1>2 DEF WaitingSymbol
  <1> QED
    BY <1>2, <1>3, <1>4 DEF GateInv, OnePerSymbol

\* Executing takes the first of the approved decisions.
LEMMA HeadTaken ==
    ASSUME TypeInv, cycle.pc = "execute", cycle.approved # <<>>, Executed
    PROVE  /\ cycle'.pc = "execute"
           /\ \A k \in Buys' : /\ k + 1 \in Buys /\ k \in Nat /\ k > 0
                               /\ WaitingSymbol(k)' = WaitingSymbol(k + 1)
           /\ 1 \in DOMAIN cycle.approved /\ cycle.approved[1] = Head(cycle.approved)
  <1>1. cycle \in Cycles /\ cycle.approved \in Seq(Approvals)
    BY DEF TypeInv, TypeOK, Cycles
  <1>2. cycle'.pc = "execute" /\ cycle'.approved = Tail(cycle.approved)
    BY <1>1 DEF Executed, Cycles
  <1>3. /\ DOMAIN cycle.approved = 1..Len(cycle.approved)
        /\ Len(cycle.approved) \in Nat /\ Len(cycle.approved) > 0
        /\ cycle.approved[1] = Head(cycle.approved)
    BY <1>1
  <1>4. /\ DOMAIN cycle'.approved = 1..(Len(cycle.approved) - 1)
        /\ \A k \in 1..(Len(cycle.approved) - 1) : cycle'.approved[k] = cycle.approved[k + 1]
    BY <1>1, <1>2
  <1> QED
    BY <1>2, <1>3, <1>4 DEF Buys, WaitingSymbol

LEMMA ExecuteKeeps ==
    ASSUME TypeInv, GateInv, RowsShrink, cycle.pc = "execute", cycle.approved # <<>>, Executed
    PROVE  GateInv'
  <1>1. OpenRows' \subseteq OpenRows /\ \A i \in OpenRows' : rows'[i].symbol = rows[i].symbol
    BY DEF RowsShrink, OpenRows
  <1>2. \A k \in Buys' : /\ k + 1 \in Buys /\ k \in Nat
                         /\ WaitingSymbol(k)' = WaitingSymbol(k + 1)
    BY HeadTaken
  <1>3. \A k \in Buys', i \in OpenRows' : WaitingSymbol(k)' # rows'[i].symbol
    BY <1>1, <1>2 DEF GateInv
  <1>4. \A k, l \in Buys' : WaitingSymbol(k)' = WaitingSymbol(l)' => k = l
    <2> TAKE k, l \in Buys'
    <2> HAVE WaitingSymbol(k)' = WaitingSymbol(l)'
    <2>1. k + 1 = l + 1
      BY <1>2 DEF GateInv
    <2> QED
      BY <1>2, <2>1
  <1>5. OnePerSymbol'
    BY <1>1 DEF GateInv, OnePerSymbol
  <1>6. cycle'.pc = "execute"
    BY HeadTaken
  <1> QED
    BY <1>3, <1>4, <1>5, <1>6 DEF GateInv

LEMMA ExecuteCloseKeeps == ASSUME TypeInv, GateInv, ExecuteClose PROVE GateInv'
  <1> DEFINE i == Head(cycle.approved).target
             r == Synced(rows[i], bids[i])
  <1>1. i \in Orders
    BY TargetOK DEF ExecuteClose
  <1>2. RowsShrink
    <2>1. CASE ~IsOpen(i)
      BY <2>1 DEF ExecuteClose, RowsShrink, IsOpen
    <2>2. CASE IsOpen(i)
      <3>1. r \in Rows /\ (r # NoRow => r.symbol = rows[i].symbol)
        BY <1>1, <2>2, SyncShrinks
      <3>2. Closed(r) # NoRow => Closed(r).symbol = rows[i].symbol
        BY <3>1, ClosedOK
      <3>3. Store(i, r) \/ Store(i, Closed(r))
        BY <2>2 DEF ExecuteClose
      <3> HIDE DEF i, r
      <3> QED
        BY <1>1, <2>2, <3>1, <3>2, <3>3, StoreShrinks
    <2> QED
      BY <2>1, <2>2
  <1> QED
    BY <1>2, ExecuteKeeps DEF ExecuteClose, Executing

LEMMA SubmitKeeps ==
    ASSUME TypeInv, GateInv, NEW status \in {"PENDING_SUBMIT", "ENTRY_OPEN"},
           NEW posted \in BOOLEAN, Submit(status, posted)
    PROVE  GateInv'
  <1> DEFINE a == Head(cycle.approved)
             r == [symbol |-> a.symbol, notional |-> a.notional, status |-> status,
                   spent |-> 0, young |-> TRUE, exiting |-> FALSE]
  <1>1. /\ cycle.pc = "execute" /\ cycle.approved # <<>> /\ a.action = "BUY" /\ Executed
        /\ r.symbol = a.symbol
    BY DEF Submit, Executing
  <1>2. PICK i \in Orders : ~IsOpen(i) /\ rows' = [rows EXCEPT ![i] = r]
    BY DEF Submit, OpenRows
  <1>3. /\ 1 \in Buys /\ WaitingSymbol(1) = a.symbol /\ cycle'.pc = "execute"
        /\ \A k \in Buys' : /\ k + 1 \in Buys /\ k \in Nat /\ k + 1 # 1
                            /\ WaitingSymbol(k)' = WaitingSymbol(k + 1)
    BY <1>1, HeadTaken DEF Buys, WaitingSymbol
  <1> HIDE DEF a
  <1>4. \A j \in OpenRows' : \/ j = i /\ rows'[j].symbol = a.symbol
                             \/ j \in OpenRows /\ rows'[j].symbol = rows[j].symbol
    BY <1>1, <1>2 DEF OpenRows, IsOpen, TypeInv, TypeOK
  <1>5. \A j \in OpenRows : rows[j].symbol # a.symbol
    BY <1>3 DEF GateInv
  <1>6. OnePerSymbol'
    BY <1>4, <1>5 DEF GateInv, OnePerSymbol
  <1>7. \A k \in Buys' : WaitingSymbol(k)' # a.symbol
    BY <1>3 DEF GateInv
  <1>8. \A k \in Buys', j \in OpenRows' : WaitingSymbol(k)' # rows'[j].symbol
    BY <1>3, <1>4, <1>7 DEF GateInv
  <1>9. \A k, l \in Buys' : WaitingSymbol(k)' = WaitingSymbol(l)' => k = l
    <2> TAKE k, l \in Buys'
    <2> HAVE WaitingSymbol(k)' = WaitingSymbol(l)'
    <2>1. k + 1 = l + 1
      BY <1>3 DEF GateInv
    <2> QED
      BY <1>3, <2>1
  <1> QED
    BY <1>3, <1>6, <1>8, <1>9 DEF GateInv

\* A cycle that ends or crashes forgets what it has not executed.
LEMMA EndCycleKeeps ==
    ASSUME TypeInv, GateInv, EndCycle \/ Crash PROVE GateInv'
  <1>1. cycle' = NoCycle /\ rows' = rows
    BY DEF EndCycle, Crash
  <1>2. OpenRows' = OpenRows /\ Buys' = {} /\ cycle'.pc = "idle" /\ cycle'.approved = <<>>
    BY <1>1 DEF OpenRows, IsOpen, Buys, NoCycle
  <1> QED
    BY <1>1, <1>2 DEF GateInv, OnePerSymbol

LEMMA NextKeeps == ASSUME TypeInv, GateInv, Next PROVE GateInv'
  <1>1. ASSUME NEW source, NEW n, BeginGate(source, n) PROVE GateInv'
    BY <1>1, BeginGateKeeps
  <1>2. CASE Gate
    BY <1>2, PassKeeps, ApproveBuyKeeps, ApproveCloseKeeps DEF Gate
  <1>3. CASE DecisionRaises
    <2>1. RowsShrink
      BY <1>3 DEF DecisionRaises, RowsShrink, IsOpen
    <2> QED
      BY <1>3, <2>1, ExecuteKeeps DEF DecisionRaises
  <1>4. CASE Execute /\ ~DecisionRaises
    BY <1>4, SubmitKeeps, ExecuteCloseKeeps, EndCycleKeeps
    DEF Execute, SubmitAccepted, SubmitDoubtful, SubmitRefused
  <1>5. CASE Crash
    BY <1>5, EndCycleKeeps
  <1>6. ASSUME NEW i \in Orders, Background(i) PROVE GateInv'
    BY <1>6, BackgroundShrinks, ShrinkKeeps
  <1>7. CASE Halt
    BY <1>7, ShrinkKeeps DEF Halt, RowsShrink, IsOpen
  <1> QED
    BY <1>1, <1>2, <1>3, <1>4, <1>5, <1>6, <1>7 DEF Next

\* No symbol ever has two open orders, for every set of symbols, every number of
\* decisions in a cycle and every fault: a submit whose answer is lost, a crash
\* between the gate and the execution, a reconcile at any moment.
THEOREM OnePerSymbolHolds == Spec => []OnePerSymbol
  <1>1. Init => GateInv
    BY DEF Init, GateInv, OnePerSymbol, OpenRows, IsOpen, Buys, NoCycle
  <1>2. GateInv /\ UNCHANGED vars => GateInv'
    BY ShrinkKeeps DEF vars, RowsShrink, IsOpen
  <1>3. GateInv => OnePerSymbol
    BY DEF GateInv
  <1> QED
    BY <1>1, <1>2, <1>3, TypeInvariant, NextKeeps, PTL DEF Spec

-----------------------------------------------------------------------------
(* Part 3.  The cap as each cycle keeps it.  The gate compares the number  *)
(* of open rows with the cap when it approves, and the row appears later:  *)
(* what survives is the number of rows that were open when the cycle began *)
(* and still are.  It only goes down, because a row of this cycle is not   *)
(* one of them, so what held at the approval still holds at the submit.    *)

Earlier == Cardinality(cycle.seen \cap OpenRows)

FitsIn(earlier, strong) ==
    /\ earlier < MaxOpenPositions
    /\ MaxOpenPositions <= 3 /\ earlier = MaxOpenPositions - 1 => strong

CountInv ==
    /\ IsFiniteSet(OpenRows)
    /\ cycle.pc = "gate" => OpenRows \subseteq cycle.seen
    /\ \A k \in Buys : FitsIn(Earlier, cycle.approved[k].strong)

LEMMA FitsFewer ==
    ASSUME NEW a \in Nat, NEW b \in Nat, b <= a, NEW strong, FitsIn(a, strong)
    PROVE  FitsIn(b, strong)
  <1>1. MaxOpenPositions \in Nat
    BY CycleAssumption DEF CycleAssumption
  <1> QED
    BY <1>1 DEF FitsIn

\* A step keeps the count when the earlier rows only go and the buys that wait
\* afterwards waited before.
LEMMA CountKept ==
    ASSUME CountInv, IsFiniteSet(OpenRows'),
           (cycle.seen \cap OpenRows)' \subseteq cycle.seen \cap OpenRows,
           (cycle.pc = "gate" => OpenRows \subseteq cycle.seen)',
           \A k \in Buys' : \E l \in Buys : cycle'.approved[k] = cycle.approved[l]
    PROVE  CountInv'
  <1> DEFINE now == (cycle.seen \cap OpenRows)'
             before == cycle.seen \cap OpenRows
  <1>1. IsFiniteSet(before) /\ before \in SUBSET OpenRows
    BY FS_Subset DEF CountInv
  <1>2. /\ Cardinality(before) \in Nat /\ Cardinality(now) \in Nat
        /\ Cardinality(now) <= Cardinality(before)
    <2> HIDE DEF now, before
    <2>1. now \in SUBSET before
      BY DEF now, before
    <2> QED
      BY <1>1, <2>1, FS_Subset, FS_CardinalityType
  <1>3. ASSUME NEW k \in Buys' PROVE FitsIn(Earlier', cycle'.approved[k].strong)
    <2>1. PICK l \in Buys : cycle'.approved[k] = cycle.approved[l]
      BY <1>3
    <2>2. FitsIn(Earlier, cycle.approved[l].strong)
      BY DEF CountInv
    <2>3. Earlier = Cardinality(before) /\ Earlier' = Cardinality(now)
      BY DEF Earlier
    <2> HIDE DEF now, before
    <2>4. FitsIn(Cardinality(now), cycle.approved[l].strong)
      BY <1>2, <2>2, <2>3, FitsFewer
    <2> QED
      BY <2>1, <2>3, <2>4
  <1> QED
    BY <1>3 DEF CountInv

LEMMA ShrinkSubset == ASSUME RowsShrink PROVE OpenRows' \subseteq OpenRows
  BY DEF RowsShrink, OpenRows

LEMMA CountShrinks ==
    ASSUME CountInv, RowsShrink, UNCHANGED cycle PROVE CountInv'
  <1>1. OpenRows' \subseteq OpenRows
    BY ShrinkSubset
  <1>2. IsFiniteSet(OpenRows')
    BY <1>1, FS_Subset DEF CountInv
  <1>3. Buys' = Buys
    BY DEF Buys
  <1> QED
    BY <1>1, <1>2, <1>3, CountKept DEF CountInv

LEMMA CountBegins ==
    ASSUME CountInv, NEW source, NEW n, BeginGate(source, n) PROVE CountInv'
  <1>1. cycle'.seen = OpenRows /\ cycle'.approved = <<>>
    BY DEF BeginGate, NoCycle
  <1>2. Buys' = {}
    BY <1>1 DEF Buys
  <1>3. OpenRows' = OpenRows
    BY DEF BeginGate, OpenRows, IsOpen
  <1> QED
    BY <1>1, <1>2, <1>3 DEF CountInv

LEMMA CountApproves ==
    ASSUME TypeInv, CountInv, NEW s \in Symbols, NEW n \in Notionals, NEW strong \in BOOLEAN,
           ApproveBuy(s, n, strong)
    PROVE  CountInv'
  <1> DEFINE a == [action |-> "BUY", symbol |-> s, notional |-> n, strong |-> strong]
  <1>1. cycle \in Cycles /\ cycle.pc = "gate"
    BY DEF ApproveBuy, Gating, TypeInv, TypeOK
  <1>2. /\ cycle'.approved = Append(cycle.approved, a)
        /\ cycle'.seen = cycle.seen /\ cycle'.pc = "gate"
    BY <1>1 DEF ApproveBuy, Cycles
  <1>3. OpenRows' = OpenRows
    BY DEF ApproveBuy, OpenRows, IsOpen
  <1>4. cycle.seen \cap OpenRows = OpenRows
    BY <1>1 DEF CountInv
  <1>5. Earlier' = Earlier /\ Earlier = Cardinality(OpenRows)
    BY <1>2, <1>3, <1>4 DEF Earlier
  <1>6. FitsIn(Earlier, a.strong)
    <2>1. WithinCount(strong)
      BY DEF ApproveBuy
    <2> QED
      BY <1>5, <2>1 DEF WithinCount, FitsIn
  <1> HIDE DEF a
  <1>7. \A k \in Buys' : FitsIn(Earlier', cycle'.approved[k].strong)
    <2> TAKE k \in Buys'
    <2>1. CASE k \in Buys /\ cycle'.approved[k] = cycle.approved[k]
      BY <1>5, <2>1 DEF CountInv
    <2>2. CASE cycle'.approved[k] = a
      BY <1>5, <1>6, <2>2
    <2> QED
      BY <1>2, <2>1, <2>2, Appended
  <1> QED
    BY <1>2, <1>3, <1>4, <1>7 DEF CountInv

\* Approving a close, passing and ending the gate.
LEMMA CountGates ==
    ASSUME TypeInv, CountInv,
           Pass \/ EndGate \/ \E i \in Orders : ApproveClose(i)
    PROVE  CountInv'
  <1>1. cycle \in Cycles
    BY DEF TypeInv, TypeOK
  <1>2. OpenRows' = OpenRows /\ cycle.pc = "gate"
    BY DEF Pass, EndGate, ApproveClose, Gating, OpenRows, IsOpen
  <1>3. cycle'.seen = cycle.seen
    BY <1>1 DEF Pass, EndGate, ApproveClose, Cycles
  <1>4. \A k \in Buys' : \E l \in Buys : cycle'.approved[k] = cycle.approved[l]
    <2>1. CASE Pass \/ EndGate
      <3>1. cycle'.approved = cycle.approved
        BY <1>1, <2>1 DEF Pass, EndGate, Cycles
      <3> QED
        BY <3>1 DEF Buys
    <2>2. CASE \E i \in Orders : ApproveClose(i)
      <3>1. PICK i \in Orders : ApproveClose(i)
        BY <2>2
      <3> DEFINE a == [action |-> "CLOSE", target |-> i]
      <3>2. cycle'.approved = Append(cycle.approved, a) /\ a.action # "BUY"
        BY <1>1, <3>1 DEF ApproveClose, Cycles
      <3> HIDE DEF a
      <3> QED
        BY <3>2, Appended
    <2> QED
      BY <2>1, <2>2
  <1>5. OpenRows \subseteq cycle.seen
    BY <1>2 DEF CountInv
  <1> QED
    BY <1>2, <1>3, <1>4, <1>5, CountKept DEF CountInv

\* Executing takes the head, whatever becomes of it.
LEMMA TailWaited ==
    ASSUME TypeInv, cycle.pc = "execute", cycle.approved # <<>>, Executed
    PROVE  /\ cycle'.pc = "execute" /\ cycle'.seen = cycle.seen /\ cycle'.held = cycle.held
           /\ cycle'.source = cycle.source
           /\ \A k \in DOMAIN cycle'.approved : /\ k \in Nat \ {0} /\ k + 1 \in DOMAIN cycle.approved
                                                /\ cycle'.approved[k] = cycle.approved[k + 1]
           /\ \A k \in DOMAIN cycle.approved : k \in Nat /\ (k # 1 => k - 1 \in DOMAIN cycle'.approved)
           /\ 1 \in DOMAIN cycle.approved /\ cycle.approved[1] = Head(cycle.approved)
  <1>1. cycle \in Cycles /\ cycle.approved \in Seq(Approvals)
    BY DEF TypeInv, TypeOK, Cycles
  <1>2. /\ cycle'.pc = "execute" /\ cycle'.approved = Tail(cycle.approved) /\ cycle'.seen = cycle.seen
        /\ cycle'.held = cycle.held /\ cycle'.source = cycle.source
    BY <1>1 DEF Executed, Cycles
  <1>3. /\ DOMAIN cycle.approved = 1..Len(cycle.approved)
        /\ Len(cycle.approved) \in Nat /\ Len(cycle.approved) > 0
        /\ cycle.approved[1] = Head(cycle.approved)
    BY <1>1
  <1>4. /\ DOMAIN cycle'.approved = 1..(Len(cycle.approved) - 1)
        /\ \A k \in 1..(Len(cycle.approved) - 1) : cycle'.approved[k] = cycle.approved[k + 1]
    BY <1>1, <1>2
  <1> QED
    BY <1>2, <1>3, <1>4

LEMMA TailBuys ==
    ASSUME TypeInv, cycle.pc = "execute", cycle.approved # <<>>, Executed
    PROVE  \A k \in Buys' : \E l \in Buys : cycle'.approved[k] = cycle.approved[l]
  <1> TAKE k \in Buys'
  <1>1. k \in DOMAIN cycle'.approved /\ cycle'.approved[k].action = "BUY"
    BY DEF Buys
  <1>2. k + 1 \in DOMAIN cycle.approved /\ cycle'.approved[k] = cycle.approved[k + 1]
    BY <1>1, TailWaited
  <1>3. k + 1 \in Buys
    BY <1>1, <1>2 DEF Buys
  <1> QED
    BY <1>2, <1>3

LEMMA CountExecutes ==
    ASSUME TypeInv, CountInv, RowsShrink, cycle.pc = "execute", cycle.approved # <<>>, Executed
    PROVE  CountInv'
  <1>1. OpenRows' \subseteq OpenRows
    BY ShrinkSubset
  <1>2. IsFiniteSet(OpenRows')
    BY <1>1, FS_Subset DEF CountInv
  <1>3. cycle'.pc = "execute" /\ cycle'.seen = cycle.seen
    BY TailWaited
  <1> QED
    BY <1>1, <1>2, <1>3, TailBuys, CountKept

\* A submit opens a row that the cycle had not seen.
LEMMA SubmitOpens ==
    ASSUME TypeInv, NEW status, NEW posted, Submit(status, posted)
    PROVE  /\ cycle.pc = "execute" /\ cycle.approved # <<>> /\ Executed
           /\ Head(cycle.approved).action = "BUY"
           /\ \E i \in Orders \ (OpenRows \cup cycle.seen \cup Targets) :
                /\ OpenRows' \subseteq OpenRows \cup {i}
                /\ \A j \in Orders : j # i => rows'[j] = rows[j]
                /\ rows'[i].exiting = FALSE
  <1> DEFINE r == [symbol |-> Head(cycle.approved).symbol, notional |-> Head(cycle.approved).notional,
                   status |-> status, spent |-> 0, young |-> TRUE, exiting |-> FALSE]
  <1>1. PICK i \in Orders \ (OpenRows \cup cycle.seen \cup Targets) : rows' = [rows EXCEPT ![i] = r]
    BY DEF Submit
  <1>2. r.exiting = FALSE
    OBVIOUS
  <1> HIDE DEF r
  <1>3. \A j \in Orders : j # i => rows'[j] = rows[j]
    BY <1>1 DEF TypeInv, TypeOK
  <1>4. OpenRows' \subseteq OpenRows \cup {i}
    BY <1>3 DEF OpenRows, IsOpen
  <1>5. rows'[i].exiting = FALSE
    BY <1>1, <1>2 DEF TypeInv, TypeOK
  <1> QED
    BY <1>1, <1>3, <1>4, <1>5 DEF Submit, Executing

LEMMA CountSubmits ==
    ASSUME TypeInv, CountInv, NEW status, NEW posted, Submit(status, posted)
    PROVE  CountInv'
  <1>1. PICK i \in Orders \ (OpenRows \cup cycle.seen \cup Targets) : OpenRows' \subseteq OpenRows \cup {i}
    BY SubmitOpens
  <1>2. cycle.pc = "execute" /\ cycle.approved # <<>> /\ Executed
    BY SubmitOpens
  <1>3. IsFiniteSet(OpenRows')
    <2>1. IsFiniteSet(OpenRows \cup {i})
      BY FS_AddElement DEF CountInv
    <2> QED
      BY <1>1, <2>1, FS_Subset
  <1>4. cycle'.pc = "execute" /\ cycle'.seen = cycle.seen
    BY <1>2, TailWaited
  <1>5. (cycle.seen \cap OpenRows)' \subseteq cycle.seen \cap OpenRows
    BY <1>1, <1>4
  <1> QED
    BY <1>2, <1>3, <1>4, <1>5, TailBuys, CountKept

\* Which rows a step of the execution leaves.
LEMMA CloseShrinks == ASSUME TypeInv, ExecuteClose PROVE RowsShrink
  <1> DEFINE i == Head(cycle.approved).target
             r == Synced(rows[i], bids[i])
  <1>1. i \in Orders
    BY TargetOK DEF ExecuteClose
  <1>2. CASE ~IsOpen(i)
    BY <1>2 DEF ExecuteClose, RowsShrink, IsOpen
  <1>3. CASE IsOpen(i)
    <2>1. r \in Rows /\ (r # NoRow => r.symbol = rows[i].symbol)
      BY <1>1, <1>3, SyncShrinks
    <2>2. Closed(r) # NoRow => Closed(r).symbol = rows[i].symbol
      BY <2>1, ClosedOK
    <2>3. Store(i, r) \/ Store(i, Closed(r))
      BY <1>3 DEF ExecuteClose
    <2> HIDE DEF i, r
    <2> QED
      BY <1>1, <1>3, <2>1, <2>2, <2>3, StoreShrinks
  <1> QED
    BY <1>2, <1>3

LEMMA CountEnds == ASSUME CountInv, EndCycle \/ Crash PROVE CountInv'
  <1>1. cycle' = NoCycle /\ OpenRows' = OpenRows
    BY DEF EndCycle, Crash, OpenRows, IsOpen
  <1>2. Buys' = {} /\ cycle'.pc = "idle"
    BY <1>1 DEF Buys, NoCycle
  <1> QED
    BY <1>1, <1>2 DEF CountInv

LEMMA NextCount == ASSUME TypeInv, CountInv, Next PROVE CountInv'
  <1>1. ASSUME NEW source, NEW n, BeginGate(source, n) PROVE CountInv'
    BY <1>1, CountBegins
  <1>2. CASE Gate
    BY <1>2, CountApproves, CountGates DEF Gate
  <1>3. CASE DecisionRaises
    <2>1. RowsShrink
      BY <1>3 DEF DecisionRaises, RowsShrink, IsOpen
    <2> QED
      BY <1>3, <2>1, CountExecutes DEF DecisionRaises
  <1>4. CASE ExecuteClose
    BY <1>4, CloseShrinks, CountExecutes DEF ExecuteClose, Executing
  <1>5. CASE SubmitAccepted \/ SubmitDoubtful \/ SubmitRefused
    BY <1>5, CountSubmits DEF SubmitAccepted, SubmitDoubtful, SubmitRefused
  <1>6. CASE EndCycle \/ Crash
    BY <1>6, CountEnds
  <1>7. ASSUME NEW i \in Orders, Background(i) PROVE CountInv'
    BY <1>7, BackgroundShrinks, CountShrinks
  <1>8. CASE Halt
    BY <1>8, CountShrinks DEF Halt, RowsShrink, IsOpen
  <1> QED
    BY <1>1, <1>2, <1>3, <1>4, <1>5, <1>6, <1>7, <1>8 DEF Next, Execute

\* Who opens a row, and with what.
LEMMA OnlySubmitOpens ==
    ASSUME TypeInv, Next, NEW i \in Orders, Submits(i)
    PROVE  \E status, posted : Submit(status, posted)
  <1>1. CASE RowsShrink
    BY <1>1 DEF RowsShrink, Submits
  <1>2. ASSUME UNCHANGED rows PROVE RowsShrink
    BY <1>2 DEF RowsShrink, IsOpen
  <1>3. CASE Execute
    <2>1. CASE DecisionRaises \/ EndCycle
      BY <1>1, <1>2, <2>1 DEF DecisionRaises, EndCycle
    <2>2. CASE ExecuteClose
      BY <1>1, <2>2, CloseShrinks
    <2>3. CASE SubmitAccepted \/ SubmitDoubtful \/ SubmitRefused
      BY <2>3 DEF SubmitAccepted, SubmitDoubtful, SubmitRefused
    <2> QED
      BY <1>3, <2>1, <2>2, <2>3 DEF Execute
  <1>4. CASE \E j \in Orders : Background(j)
    BY <1>1, <1>4, BackgroundShrinks
  <1>5. CASE Gate \/ Crash \/ Halt
    BY <1>1, <1>2, <1>5 DEF Gate, Pass, EndGate, ApproveBuy, ApproveClose, Crash, Halt
  <1>6. ASSUME NEW source, NEW n, BeginGate(source, n) PROVE RowsShrink
    BY <1>2, <1>6 DEF BeginGate
  <1> QED
    BY <1>1, <1>3, <1>4, <1>5, <1>6 DEF Next

\* An entry is posted only when fewer orders of earlier cycles than the cap are
\* open, and with the confidence the third order needs when one slot is left, for
\* every cap, every number of decisions in a cycle and every reconcile between
\* the approval and the submit.
THEOREM CapPerCycle == Spec => JoinsBelowCap
  <1>1. Init => CountInv
    <2> SUFFICES ASSUME Init PROVE CountInv
      OBVIOUS
    <2>1. OpenRows = {} /\ Buys = {} /\ cycle.pc = "idle"
      BY DEF Init, OpenRows, IsOpen, Buys, NoCycle
    <2> QED
      BY <2>1, FS_EmptySet DEF CountInv
  <1>2. CountInv /\ UNCHANGED vars => CountInv'
    BY CountShrinks DEF vars, RowsShrink, IsOpen
  <1>3. ASSUME TypeInv, CountInv, [Next]_vars, NEW i \in Orders, Submits(i)
        PROVE  FitsIn(Earlier, Head(cycle.approved).strong)
    <2>1. ~UNCHANGED vars
      BY <1>3 DEF vars, Submits, IsOpen
    <2>2. PICK status, posted : Submit(status, posted)
      BY <1>3, <2>1, OnlySubmitOpens
    <2>3. cycle.pc = "execute" /\ cycle.approved # <<>> /\ Executed /\ Head(cycle.approved).action = "BUY"
      BY <1>3, <2>2, SubmitOpens
    <2>4. 1 \in Buys /\ cycle.approved[1] = Head(cycle.approved)
      BY <1>3, <2>3, TailWaited DEF Buys
    <2>5. FitsIn(Earlier, cycle.approved[1].strong)
      BY <1>3, <2>4 DEF CountInv
    <2> QED
      BY <2>4, <2>5
  <1>4. TypeInv /\ CountInv /\ [Next]_vars =>
          [(\E i \in Orders : Submits(i)) =>
             LET earlier == Cardinality(cycle.seen \cap OpenRows) IN
             /\ earlier < MaxOpenPositions
             /\ MaxOpenPositions <= 3 /\ earlier = MaxOpenPositions - 1
                => Head(cycle.approved).strong]_vars
    BY <1>3 DEF FitsIn, Earlier
  <1> QED
    BY <1>1, <1>2, <1>4, TypeInvariant, NextCount, PTL DEF Spec, JoinsBelowCap

-----------------------------------------------------------------------------
(* Part 4.  The money of the approvals.  While the gate works, what it has *)
(* reserved is the sum of the notionals of the buys that wait, and each    *)
(* approval fits in what the free balance leaves beyond it.  Outside an    *)
(* execution the free balance only grows; an execution takes a notional    *)
(* off the balance and off the sum at once.                                *)

\* What the buys S of a list of approvals cost.
Cost(approved, S) == MapThenSumSet(LAMBDA k : approved[k].notional, S)

CostOf(approved, S) == [k \in S |-> approved[k].notional]

AddingCost(g, approved, S) ==
    [s \in SUBSET S |-> IF s = {} THEN 0
                        ELSE LET x == CHOOSE y \in s : TRUE IN approved[x].notional + g[s \ {x}]]

LEMMA CostUnfolds ==
    ASSUME NEW approved, NEW S
    PROVE  \E h : /\ Cost(approved, S) = h[S]
                  /\ (\E g : g = AddingCost(g, approved, S)) => h = AddingCost(h, approved, S)
  BY DEF Cost, MapThenSumSet, MapThenFoldSet, AddingCost

LEMMA CostIsSum ==
    ASSUME NEW approved, NEW S, IsFiniteSet(S)
    PROVE  Cost(approved, S) = SumOf(CostOf(approved, S), S)
  <1> DEFINE f == CostOf(approved, S)
  <1>1. ASSUME NEW g PROVE AddingCost(g, approved, S) = Adding(g, f, S)
    BY DEF AddingCost, Adding, CostOf
  <1> HIDE DEF f
  <1>2. PICK i : i = Adding(i, f, S)
    BY SumExists DEF SumsOver
  <1>3. PICK h : /\ Cost(approved, S) = h[S]
                 /\ (\E g : g = AddingCost(g, approved, S)) => h = AddingCost(h, approved, S)
    BY CostUnfolds
  <1>4. SumsOver(h, f, S)
    BY <1>1, <1>2, <1>3 DEF SumsOver
  <1>5. SumOf(f, S) = h[S]
    BY <1>4, SumIs
  <1> QED
    BY <1>3, <1>5 DEF f

\* The buys that wait are finitely many and cost natural numbers.
LEMMA BuysFinite ==
    ASSUME NEW approved \in Seq(Approvals), NEW S,
           S = {k \in DOMAIN approved : approved[k].action = "BUY"}
    PROVE  /\ IsFiniteSet(S) /\ S \subseteq 1..Len(approved) /\ Len(approved) \in Nat
           /\ \A k \in S : approved[k].notional \in Nat /\ approved[k].notional > 0
  <1>1. DOMAIN approved = 1..Len(approved) /\ Len(approved) \in Nat
    OBVIOUS
  <1>2. IsFiniteSet(S)
    <2>1. IsFiniteSet(1..Len(approved))
      BY <1>1, FS_Interval
    <2>2. S \subseteq 1..Len(approved)
      BY <1>1
    <2> QED
      BY <2>1, <2>2, FS_Subset
  <1>3. ASSUME NEW k \in S PROVE approved[k].notional \in Notionals
    <2>1. approved[k] \in Approvals /\ approved[k].action = "BUY"
      BY <1>1
    <2> QED
      BY <2>1 DEF Approvals
  <1> QED
    BY <1>1, <1>2, <1>3, CycleConstants

BuysOf(approved) == {k \in DOMAIN approved : approved[k].action = "BUY"}

LEMMA CostNat ==
    ASSUME NEW approved \in Seq(Approvals)
    PROVE  Cost(approved, BuysOf(approved)) \in Nat
  <1> DEFINE S == BuysOf(approved)
  <1>1. IsFiniteSet(S) /\ \A k \in S : approved[k].notional \in Nat
    BY BuysFinite DEF BuysOf
  <1> HIDE DEF S
  <1>2. SumOf(CostOf(approved, S), S) \in Nat
    BY <1>1, SumNat DEF CostOf
  <1> QED
    BY <1>1, <1>2, CostIsSum DEF S

\* An approval more, at the end.
LEMMA CostAppends ==
    ASSUME NEW approved \in Seq(Approvals), NEW a \in Approvals
    PROVE  LET longer == Append(approved, a) IN
           Cost(longer, BuysOf(longer)) =
             Cost(approved, BuysOf(approved)) + (IF a.action = "BUY" THEN a.notional ELSE 0)
  <1> DEFINE longer == Append(approved, a)
             n == Len(approved) + 1
             S == BuysOf(approved)
             T == BuysOf(longer)
  <1>1. longer \in Seq(Approvals) /\ n \in Nat
    OBVIOUS
  <1>2. /\ DOMAIN longer = 1..n /\ DOMAIN approved = 1..Len(approved) /\ Len(approved) \in Nat
        /\ longer[n] = a /\ \A k \in 1..Len(approved) : longer[k] = approved[k]
    OBVIOUS
  <1>3. /\ IsFiniteSet(S) /\ \A k \in S : approved[k].notional \in Nat
        /\ IsFiniteSet(T) /\ \A k \in T : longer[k].notional \in Nat
    BY <1>1, BuysFinite DEF BuysOf
  <1> HIDE DEF longer
  <1>4. /\ n \notin S /\ \A k \in S : longer[k] = approved[k]
        /\ T = IF a.action = "BUY" THEN S \cup {n} ELSE S
    BY <1>2 DEF BuysOf
  <1> HIDE DEF n, S, T
  <1>5. SumOf(CostOf(longer, T), S) = SumOf(CostOf(approved, S), S)
    <2>1. \A k \in S : CostOf(longer, T)[k] \in Int /\ CostOf(longer, T)[k] = CostOf(approved, S)[k]
      BY <1>3, <1>4 DEF CostOf
    <2> QED
      BY <1>3, <2>1, SumSame
  <1>6. SumOf(CostOf(approved, S), S) \in Int
    BY <1>3, SumInt DEF CostOf
  <1>7. CASE a.action = "BUY"
    <2>1. n \in T /\ T = S \cup {n} /\ CostOf(longer, T)[n] = a.notional
      BY <1>2, <1>4, <1>7 DEF CostOf
    <2>2. \A k \in S : CostOf(longer, T)[k] \in Int
      BY <1>3, <2>1 DEF CostOf
    <2>3. CostOf(longer, T)[n] \in Int
      BY <1>3, <2>1 DEF CostOf
    <2>4. SumOf(CostOf(longer, T), S \cup {n}) = SumOf(CostOf(longer, T), S) + CostOf(longer, T)[n]
      <3> DEFINE f == CostOf(longer, T)
      <3>1. IsFiniteSet(S) /\ n \notin S /\ f[n] \in Int /\ \A k \in S : f[k] \in Int
        BY <1>3, <1>4, <2>2, <2>3
      <3> HIDE DEF f
      <3>2. SumOf(f, S \cup {n}) = SumOf(f, S) + f[n]
        BY <3>1, SumAdd
      <3> QED
        BY <3>2 DEF f
    <2>5. Cost(longer, T) = Cost(approved, S) + a.notional
      BY <1>3, <1>5, <2>1, <2>4, CostIsSum
    <2> QED
      BY <1>7, <2>5 DEF longer, S, T
  <1>8. CASE a.action # "BUY"
    <2>1. T = S
      BY <1>4, <1>8
    <2>2. Cost(longer, T) = Cost(approved, S) /\ Cost(approved, S) \in Int
      BY <1>3, <1>5, <1>6, <2>1, CostIsSum
    <2>3. Cost(longer, T) = Cost(approved, S) + 0
      BY <2>2
    <2> QED
      BY <1>8, <2>3 DEF longer, S, T
  <1> QED
    BY <1>7, <1>8

\* One approval less, at the head.
LEMMA CostTail ==
    ASSUME NEW approved \in Seq(Approvals), approved # <<>>
    PROVE  LET a == Head(approved) IN
           Cost(approved, BuysOf(approved)) =
             Cost(Tail(approved), BuysOf(Tail(approved))) + (IF a.action = "BUY" THEN a.notional ELSE 0)
  <1> DEFINE rest == Tail(approved)
             S == BuysOf(approved)
             T == BuysOf(rest)
             moved == {k + 1 : k \in T}
  <1>1. rest \in Seq(Approvals)
    OBVIOUS
  <1>2. /\ DOMAIN approved = 1..Len(approved) /\ Len(approved) \in Nat /\ Len(approved) > 0
        /\ DOMAIN rest = 1..(Len(approved) - 1)
        /\ approved[1] = Head(approved)
        /\ \A k \in 1..(Len(approved) - 1) : rest[k] = approved[k + 1]
    OBVIOUS
  <1>3. /\ IsFiniteSet(S) /\ \A k \in S : approved[k].notional \in Nat
        /\ IsFiniteSet(T) /\ \A k \in T : rest[k].notional \in Nat
    BY <1>1, BuysFinite DEF BuysOf
  <1> HIDE DEF rest
  <1>4. T \subseteq Nat \ {0} /\ \A k \in T : k + 1 \in S /\ rest[k] = approved[k + 1]
    BY <1>2 DEF BuysOf
  <1>5. 1 \notin moved /\ moved \subseteq S /\ IsFiniteSet(moved)
    <2>1. 1 \notin moved /\ moved \subseteq S
      BY <1>4
    <2> HIDE DEF moved, S
    <2> QED
      BY <1>3, <2>1, FS_Subset
  <1>6. S = IF Head(approved).action = "BUY" THEN moved \cup {1} ELSE moved
    <2>1. ASSUME NEW k \in S, k # 1 PROVE k \in moved
      <3>1. k - 1 \in 1..(Len(approved) - 1) /\ (k - 1) + 1 = k /\ approved[k].action = "BUY"
        BY <1>2, <2>1 DEF BuysOf
      <3>2. k - 1 \in T
        BY <1>2, <3>1 DEF BuysOf
      <3> QED
        BY <3>1, <3>2
    <2>2. 1 \in S <=> Head(approved).action = "BUY"
      BY <1>2 DEF BuysOf
    <2> HIDE DEF moved, S
    <2> QED
      BY <1>5, <2>1, <2>2
  <1>7. SumOf(CostOf(rest, T), T) = SumOf(CostOf(approved, S), moved)
    <2> DEFINE h == [k \in T |-> k + 1]
    <2>1. \A k \in T : /\ CostOf(rest, T)[k] \in Int
                       /\ CostOf(rest, T)[k] = CostOf(approved, S)[h[k]]
      BY <1>3, <1>4 DEF CostOf
    <2>2. \A k, l \in T : h[k] = h[l] => k = l
      BY <1>4
    <2>3. {h[k] : k \in T} = moved
      OBVIOUS
    <2> HIDE DEF h, moved, T
    <2>4. SumOf(CostOf(rest, T), T) = SumOf(CostOf(approved, S), {h[k] : k \in T})
      BY <1>3, <2>1, <2>2, SumRenamed
    <2> QED
      BY <2>3, <2>4
  <1> HIDE DEF S, T, moved
  <1>8. \A k \in S : CostOf(approved, S)[k] \in Int
    BY <1>3 DEF CostOf
  <1>9. SumOf(CostOf(approved, S), moved) \in Int
    BY <1>5, <1>8, SumInt
  <1>10. CASE Head(approved).action = "BUY"
    <2>1. S = moved \cup {1} /\ CostOf(approved, S)[1] = Head(approved).notional
      BY <1>2, <1>6, <1>10 DEF CostOf
    <2>2. SumOf(CostOf(approved, S), moved \cup {1}) = SumOf(CostOf(approved, S), moved) + CostOf(approved, S)[1]
      <3> DEFINE f == CostOf(approved, S)
      <3>1. IsFiniteSet(moved) /\ 1 \notin moved /\ f[1] \in Int /\ \A k \in moved : f[k] \in Int
        BY <1>5, <1>8, <2>1
      <3> HIDE DEF f
      <3>2. SumOf(f, moved \cup {1}) = SumOf(f, moved) + f[1]
        BY <3>1, SumAdd
      <3> QED
        BY <3>2 DEF f
    <2>3. Cost(approved, S) = Cost(rest, T) + Head(approved).notional
      BY <1>3, <1>7, <2>1, <2>2, CostIsSum
    <2> QED
      BY <1>10, <2>3 DEF rest, S, T
  <1>11. CASE Head(approved).action # "BUY"
    <2>1. Cost(approved, S) = Cost(rest, T) /\ Cost(rest, T) \in Int
      BY <1>3, <1>6, <1>7, <1>9, <1>11, CostIsSum
    <2>2. Cost(approved, S) = Cost(rest, T) + 0
      BY <2>1
    <2> QED
      BY <1>11, <2>2 DEF rest, S, T
  <1> QED
    BY <1>10, <1>11

\* Nothing waits, nothing is owed.
LEMMA CostEmpty == Cost(<<>>, BuysOf(<<>>)) = 0
  <1>1. BuysOf(<<>>) = {}
    BY DEF BuysOf
  <1> QED
    BY <1>1, FS_EmptySet, CostIsSum, SumEmpty

Owed == Cost(cycle.approved, BuysOf(cycle.approved))

FundInv ==
    /\ "balance" \notin Faults => Owed <= free
    /\ cycle.pc = "gate" => cycle.reserved = Owed

LEMMA OwedNat == ASSUME TypeInv PROVE Owed \in Nat /\ free \in Nat /\ cycle.approved \in Seq(Approvals)
  <1>1. cycle.approved \in Seq(Approvals) /\ free \in Nat
    BY DEF TypeInv, TypeOK, Cycles
  <1> QED
    BY <1>1, CostNat DEF Owed

\* A bid that ends gives back what it has not spent, and that is never negative.
LEMMA SettleGrows ==
    ASSUME TypeInv, NEW i \in Orders, NEW r, SettleBid(i, r)
    PROVE  free' >= free
  <1>1. free \in Nat
    BY DEF TypeInv, TypeOK
  <1>2. CASE bids[i].live
    <2>1. bids[i] # NoBid
      BY <1>2 DEF NoBid
    <2>2. IsOpen(i) /\ bids[i].spent < rows[i].notional
      BY <1>2, <2>1 DEF TypeInv, BidMatches, IsOpen
    <2>3. rows[i].notional \in Nat /\ bids[i].spent \in Nat
      BY <2>2, OpenOK, CycleConstants DEF TypeInv, OrderRecords, Bids
    <2> QED
      BY <1>1, <1>2, <2>2, <2>3 DEF SettleBid
  <1>3. CASE ~bids[i].live
    BY <1>1, <1>3 DEF SettleBid
  <1> QED
    BY <1>2, <1>3

LEMMA BackgroundGrows ==
    ASSUME TypeInv, NEW i \in Orders, Background(i) PROVE free' >= free
  <1>1. free \in Nat
    BY DEF TypeInv, TypeOK
  <1>2. CASE Discard(i)
    BY <1>2, SettleGrows DEF Discard
  <1>3. CASE BidDies(i)
    BY <1>3, SettleGrows DEF BidDies
  <1>4. CASE SellPosition(i)
    <2>1. bids[i].spent \in Nat
      BY DEF TypeInv, TypeOK, Bids
    <2> QED
      BY <1>1, <1>4, <2>1 DEF SellPosition
  <1>5. CASE Reconcile(i) \/ StopOut(i) \/ DropExit(i) \/ FillBid(i) \/ GetOlder(i)
    BY <1>1, <1>5 DEF Reconcile, StopOut, DropExit, FillBid, GetOlder
  <1> QED
    BY <1>2, <1>3, <1>4, <1>5 DEF Background

LEMMA FundGrows ==
    ASSUME TypeInv, TypeInv', FundInv, UNCHANGED cycle, free' >= free PROVE FundInv'
  <1>1. Owed' = Owed
    BY DEF Owed
  <1> QED
    BY <1>1, OwedNat DEF FundInv, TypeInv, TypeOK

LEMMA FundApproves ==
    ASSUME TypeInv, FundInv, NEW s \in Symbols, NEW n \in Notionals, NEW strong \in BOOLEAN,
           ApproveBuy(s, n, strong)
    PROVE  FundInv'
  <1> DEFINE a == [action |-> "BUY", symbol |-> s, notional |-> n, strong |-> strong]
  <1>1. cycle \in Cycles /\ cycle.pc = "gate" /\ n \in Nat /\ n > 0
    BY CycleConstants DEF ApproveBuy, Gating, TypeInv, TypeOK
  <1>2. /\ cycle'.approved = Append(cycle.approved, a) /\ free' = free
        /\ cycle'.reserved = cycle.reserved + n
    BY <1>1 DEF ApproveBuy, Cycles
  <1>3. a \in Approvals /\ a.action = "BUY" /\ a.notional = n
    BY DEF Approvals
  <1> HIDE DEF a
  <1>4. Owed' = Owed + n
    BY <1>2, <1>3, OwedNat, CostAppends DEF Owed
  <1>5. Owed \in Nat /\ free \in Nat /\ cycle.reserved = Owed
    BY <1>1, OwedNat DEF FundInv
  <1>6. ASSUME "balance" \notin Faults PROVE Owed + n <= free
    <2>1. n <= Available
      BY <1>6 DEF ApproveBuy, WithinMoney
    <2> QED
      BY <1>1, <1>5, <2>1 DEF Available
  <1> QED
    BY <1>2, <1>4, <1>5, <1>6 DEF FundInv

\* Approving a close, passing and ending the gate leave what is owed.
LEMMA FundGates ==
    ASSUME TypeInv, FundInv,
           Pass \/ EndGate \/ \E i \in Orders : ApproveClose(i)
    PROVE  FundInv'
  <1>1. cycle \in Cycles
    BY DEF TypeInv, TypeOK
  <1>2. free' = free /\ (cycle'.pc = "gate" => cycle.pc = "gate" /\ cycle'.reserved = cycle.reserved)
    BY <1>1 DEF Pass, EndGate, ApproveClose, Gating, Cycles
  <1>3. Owed' = Owed
    <2>1. CASE Pass \/ EndGate
      <3>1. cycle'.approved = cycle.approved
        BY <1>1, <2>1 DEF Pass, EndGate, Cycles
      <3> QED
        BY <3>1 DEF Owed
    <2>2. CASE \E i \in Orders : ApproveClose(i)
      <3>1. PICK i \in Orders : ApproveClose(i)
        BY <2>2
      <3> DEFINE a == [action |-> "CLOSE", target |-> i]
      <3>2. cycle'.approved = Append(cycle.approved, a) /\ a.action # "BUY" /\ a \in Approvals
        BY <1>1, <3>1 DEF ApproveClose, Cycles, Approvals
      <3> HIDE DEF a
      <3>3. Owed' = Owed + 0
        BY <3>2, OwedNat, CostAppends DEF Owed
      <3> QED
        BY <3>3, OwedNat
    <2> QED
      BY <2>1, <2>2
  <1> QED
    BY <1>2, <1>3 DEF FundInv

LEMMA FundEmpty ==
    ASSUME TypeInv, UNCHANGED free, cycle'.approved = <<>>, cycle'.reserved = 0 PROVE FundInv'
  <1>1. Owed' = 0
    BY CostEmpty DEF Owed
  <1> QED
    BY <1>1, OwedNat DEF FundInv

LEMMA StillPaid ==
    ASSUME NEW owed \in Nat, NEW left \in Nat, NEW cost \in Nat, NEW money \in Nat,
           NEW rest \in Nat, owed = left + cost, rest >= money - cost, owed <= money
    PROVE  left <= rest
  OBVIOUS

\* Executing the head takes what it costs off what is owed.
LEMMA FundExecutes ==
    ASSUME TypeInv, TypeInv', FundInv, cycle.pc = "execute", cycle.approved # <<>>, Executed,
           free' >= free - (IF Head(cycle.approved).action = "BUY"
                            THEN Head(cycle.approved).notional ELSE 0)
    PROVE  FundInv'
  <1> DEFINE a == Head(cycle.approved)
             cost == IF a.action = "BUY" THEN a.notional ELSE 0
  <1>1. cycle'.pc = "execute" /\ cycle'.approved = Tail(cycle.approved)
    BY TailWaited DEF Executed, TypeInv, TypeOK, Cycles
  <1>2. a \in Approvals
    BY OwedNat
  <1>3. cost \in Nat
    BY <1>2, CycleConstants DEF Approvals
  <1>4. Owed = Owed' + cost
    BY <1>1, OwedNat, CostTail DEF Owed
  <1>5. Owed \in Nat /\ free \in Nat /\ Owed' \in Nat /\ free' \in Nat
    <2>1. cycle'.approved \in Seq(Approvals) /\ free' \in Nat
      BY DEF TypeInv, TypeOK, Cycles
    <2>2. Owed' \in Nat
      BY <2>1, CostNat DEF Owed
    <2> QED
      BY <2>1, <2>2, OwedNat
  <1>6. free' >= free - cost
    OBVIOUS
  <1> HIDE DEF cost
  <1>7. ASSUME Owed <= free PROVE Owed' <= free'
    BY <1>3, <1>4, <1>5, <1>6, <1>7, StillPaid
  <1>8. cycle'.pc # "gate"
    BY <1>1
  <1>9. "balance" \notin Faults => Owed' <= free'
    BY <1>7 DEF FundInv
  <1> QED
    BY <1>8, <1>9 DEF FundInv

LEMMA FundSubmits ==
    ASSUME TypeInv, TypeInv', FundInv, NEW status, NEW posted, Submit(status, posted)
    PROVE  FundInv'
  <1>1. /\ cycle.pc = "execute" /\ cycle.approved # <<>> /\ Executed
        /\ Head(cycle.approved).action = "BUY"
        /\ free' = IF posted THEN free - Head(cycle.approved).notional ELSE free
    BY DEF Submit, Executing
  <1>2. Head(cycle.approved).notional \in Nat /\ free \in Nat
    <2>1. Head(cycle.approved) \in Approvals
      BY <1>1, OwedNat
    <2> QED
      BY <1>1, <2>1, OwedNat, CycleConstants DEF Approvals
  <1>3. free' >= free - Head(cycle.approved).notional
    BY <1>1, <1>2
  <1> QED
    BY <1>1, <1>3, FundExecutes

LEMMA FundCloses == ASSUME TypeInv, TypeInv', FundInv, ExecuteClose PROVE FundInv'
  <1> DEFINE i == Head(cycle.approved).target
  <1>1. i \in Orders /\ free \in Nat
    BY TargetOK, OwedNat DEF ExecuteClose
  <1>2. free' = free \/ \E r : SettleBid(i, r)
    BY DEF ExecuteClose
  <1> HIDE DEF i
  <1>3. free' >= free
    BY <1>1, <1>2, SettleGrows
  <1>4. /\ cycle.pc = "execute" /\ cycle.approved # <<>> /\ Executed
        /\ Head(cycle.approved).action # "BUY"
    BY DEF ExecuteClose, Executing
  <1>5. free' >= free - 0 /\ free' \in Nat
    BY <1>1, <1>3 DEF TypeInv, TypeOK
  <1> QED
    BY <1>4, <1>5, FundExecutes

LEMMA NextFund == ASSUME TypeInv, TypeInv', FundInv, Next PROVE FundInv'
  <1>1. ASSUME NEW source, NEW n, BeginGate(source, n) PROVE FundInv'
    BY <1>1, FundEmpty DEF BeginGate, NoCycle
  <1>2. CASE Gate
    BY <1>2, FundApproves, FundGates DEF Gate
  <1>3. CASE DecisionRaises
    <2>1. Head(cycle.approved) \in Approvals /\ free \in Nat
      BY <1>3, OwedNat DEF DecisionRaises
    <2>2. Head(cycle.approved).action = "BUY" => Head(cycle.approved).notional \in Nat
      BY <2>1, CycleConstants DEF Approvals
    <2>3. free' >= free - (IF Head(cycle.approved).action = "BUY"
                           THEN Head(cycle.approved).notional ELSE 0)
      BY <1>3, <2>1, <2>2 DEF DecisionRaises
    <2> QED
      BY <1>3, <2>3, FundExecutes DEF DecisionRaises
  <1>4. CASE ExecuteClose
    BY <1>4, FundCloses
  <1>5. CASE SubmitAccepted \/ SubmitDoubtful \/ SubmitRefused
    BY <1>5, FundSubmits DEF SubmitAccepted, SubmitDoubtful, SubmitRefused
  <1>6. CASE EndCycle \/ Crash
    BY <1>6, FundEmpty DEF EndCycle, Crash, NoCycle
  <1>7. ASSUME NEW i \in Orders, Background(i) PROVE FundInv'
    BY <1>7, BackgroundShrinks, BackgroundGrows, FundGrows
  <1>8. CASE Halt
    BY <1>8, FundGrows, OwedNat DEF Halt
  <1> QED
    BY <1>1, <1>2, <1>3, <1>4, <1>5, <1>6, <1>7, <1>8 DEF Next, Execute

\* As long as the balance can be fetched, the buys that wait can all be paid, for
\* every balance, every list of decisions and every size: no approval spends what
\* an earlier one has reserved, and nothing but an execution takes quote off the
\* balance while they wait.
THEOREM FundsHold == Spec => []ApprovedFunded
  <1>1. Init => FundInv
    <2> SUFFICES ASSUME Init PROVE FundInv
      OBVIOUS
    <2>1. cycle.approved = <<>> /\ cycle.pc = "idle" /\ free \in Nat
      BY CycleConstants DEF Init, NoCycle
    <2>2. Owed = 0
      BY <2>1, CostEmpty DEF Owed
    <2> QED
      BY <2>1, <2>2 DEF FundInv
  <1>2. FundInv /\ UNCHANGED vars => FundInv'
    BY DEF vars, FundInv, Owed
  <1>3. FundInv => ApprovedFunded
    BY DEF FundInv, ApprovedFunded, Owed, Cost, BuysOf, Buys
  <1> QED
    BY <1>1, <1>2, <1>3, TypeInvariant, NextFund, PTL DEF Spec

-----------------------------------------------------------------------------
(* Part 5.  The minimum hold.  The gate asks for the age of a position, and *)
(* the close is executed later: a row that waits to be closed only gets    *)
(* older meanwhile, and its identity is not given to a new row while a     *)
(* decision names it.  A stop-out takes the lock, so no cycle sees it.     *)

HoldInv ==
    /\ cycle.pc = "idle" => cycle.held = {} /\ cycle.approved = <<>>
    /\ cycle.held \subseteq cycle.seen
    /\ cycle.source = "agent" =>
         \A i \in Targets : i \in cycle.seen /\ (i \in cycle.held /\ IsOpen(i) => ~rows[i].young)

\* No row becomes young, and none comes.
YoungShrinks ==
    \A i \in Orders : IsOpen(i)' /\ rows'[i].young => IsOpen(i) /\ rows[i].young

\* No position gets an exit order.
ExitsShrink ==
    \A i \in Positions : i \in Positions' /\ rows'[i].exiting => rows[i].exiting

LEMMA SyncedHold ==
    ASSUME NEW r \in OrderRecords, NEW b \in Bids, Synced(r, b) # NoRow
    PROVE  Synced(r, b).young = r.young /\ Synced(r, b).exiting = r.exiting
  <1> DEFINE now == [r EXCEPT !.spent = b.spent]
  <1>1. /\ now.young = r.young /\ now.exiting = r.exiting
        /\ [now EXCEPT !.status = "POSITION_OPEN"].young = r.young
        /\ [now EXCEPT !.status = "POSITION_OPEN"].exiting = r.exiting
    BY DEF OrderRecords
  <1>2. Synced(r, b) = [now EXCEPT !.status = "POSITION_OPEN"] \/ Synced(r, b) = now
    BY DEF Synced
  <1> HIDE DEF now
  <1> QED
    BY <1>1, <1>2

LEMMA ClosedHold ==
    ASSUME NEW r \in Rows, Closed(r) # NoRow
    PROVE  r # NoRow /\ Closed(r).young = r.young
  <1>1. r # NoRow
    BY ClosedOK
  <1>2. r \in OrderRecords
    BY <1>1 DEF Rows
  <1>3. /\ [r EXCEPT !.status = "POSITION_OPEN", !.exiting = TRUE].young = r.young
        /\ [r EXCEPT !.exiting = TRUE].young = r.young
    BY <1>2 DEF OrderRecords
  <1>4. \/ Closed(r) = [r EXCEPT !.status = "POSITION_OPEN", !.exiting = TRUE]
        \/ Closed(r) = [r EXCEPT !.exiting = TRUE] \/ Closed(r) = r
    BY DEF Closed
  <1> QED
    BY <1>1, <1>3, <1>4

LEMMA AdoptedHold ==
    ASSUME NEW i \in Orders, rows[i] \in OrderRecords
    PROVE  Adopted(i).young = rows[i].young /\ Adopted(i).exiting = rows[i].exiting
  BY DEF Adopted, OrderRecords

\* Saving one row.
LEMMA StoreHold ==
    ASSUME TypeInv, NEW i \in Orders, NEW r, Store(i, r), IsOpen(i),
           r # NoRow => (r.young => rows[i].young)
    PROVE  YoungShrinks
  BY DEF TypeInv, TypeOK, Store, YoungShrinks, IsOpen

LEMMA StoreExits ==
    ASSUME TypeInv, NEW i \in Orders, NEW r, Store(i, r),
           r # NoRow => (r.exiting => rows[i].exiting)
    PROVE  ExitsShrink
  <1> SUFFICES ASSUME NEW j \in Positions, j \in Positions', rows'[j].exiting
               PROVE  rows[j].exiting
    BY DEF ExitsShrink
  <1>1. CASE j # i
    <2>1. rows'[j] = rows[j]
      BY <1>1 DEF Store, TypeInv, TypeOK, Positions, OpenRows
    <2> QED
      BY <2>1
  <1>2. CASE j = i
    <2>1. rows'[j] = r /\ r # NoRow
      BY <1>2 DEF Store, TypeInv, TypeOK, Positions, OpenRows, IsOpen
    <2> QED
      BY <1>2, <2>1
  <1> QED
    BY <1>1, <1>2

LEMMA RowsSame == ASSUME UNCHANGED rows PROVE YoungShrinks /\ ExitsShrink
  BY DEF YoungShrinks, ExitsShrink, IsOpen

LEMMA BackgroundHold ==
    ASSUME TypeInv, NEW i \in Orders, Background(i)
    PROVE  YoungShrinks /\ (cycle.pc # "idle" => ExitsShrink)
  <1>1. CASE Reconcile(i)
    <2> DEFINE r == Synced(Adopted(i), bids[i])
    <2>1. IsOpen(i) /\ Store(i, r)
      BY <1>1 DEF Reconcile
    <2>2. rows[i] \in OrderRecords /\ bids[i] \in Bids /\ Adopted(i) \in OrderRecords
      BY <2>1, OpenOK, AdoptedOK DEF TypeInv
    <2>3. r # NoRow => r.young = rows[i].young /\ r.exiting = rows[i].exiting
      BY <2>2, SyncedHold, AdoptedHold
    <2> HIDE DEF r
    <2> QED
      BY <2>1, <2>3, StoreHold, StoreExits
  <1>2. CASE Discard(i)
    BY <1>2, StoreHold, StoreExits DEF Discard
  <1>3. CASE StopOut(i)
    <2> DEFINE r == [rows[i] EXCEPT !.exiting = TRUE]
    <2>1. IsOpen(i) /\ Store(i, r) /\ cycle.pc = "idle"
      BY <1>3 DEF StopOut, Positions, OpenRows
    <2>2. r.young = rows[i].young
      BY <2>1, OpenOK DEF TypeInv, OrderRecords
    <2> HIDE DEF r
    <2> QED
      BY <2>1, <2>2, StoreHold
  <1>4. CASE DropExit(i)
    <2> DEFINE r == [rows[i] EXCEPT !.exiting = FALSE]
    <2>1. IsOpen(i) /\ Store(i, r)
      BY <1>4 DEF DropExit, Positions, OpenRows
    <2>2. r.young = rows[i].young /\ r.exiting = FALSE
      BY <2>1, OpenOK DEF TypeInv, OrderRecords
    <2> HIDE DEF r
    <2> QED
      BY <2>1, <2>2, StoreHold, StoreExits
  <1>5. CASE GetOlder(i)
    <2> DEFINE r == [rows[i] EXCEPT !.young = FALSE]
    <2>1. IsOpen(i) /\ Store(i, r)
      BY <1>5 DEF GetOlder
    <2>2. r.young = FALSE /\ r.exiting = rows[i].exiting
      BY <2>1, OpenOK DEF TypeInv, OrderRecords
    <2> HIDE DEF r
    <2> QED
      BY <2>1, <2>2, StoreHold, StoreExits
  <1>6. CASE FillBid(i) \/ BidDies(i) \/ SellPosition(i)
    BY <1>6, RowsSame DEF FillBid, BidDies, SellPosition
  <1> QED
    BY <1>1, <1>2, <1>3, <1>4, <1>5, <1>6 DEF Background

\* What waits to be closed.
LEMMA TargetsAppend ==
    ASSUME TypeInv, NEW a, cycle'.approved = Append(cycle.approved, a)
    PROVE  \A i \in Targets' : i \in Targets \/ (a.action # "BUY" /\ i = a.target)
  <1>1. cycle.approved \in Seq(Approvals)
    BY DEF TypeInv, TypeOK, Cycles
  <1>2. /\ DOMAIN cycle'.approved = 1..(Len(cycle.approved) + 1)
        /\ DOMAIN cycle.approved = 1..Len(cycle.approved) /\ Len(cycle.approved) \in Nat
        /\ \A k \in 1..Len(cycle.approved) : cycle'.approved[k] = cycle.approved[k]
        /\ cycle'.approved[Len(cycle.approved) + 1] = a
    BY <1>1
  <1> TAKE i \in Targets'
  <1>3. PICK k \in DOMAIN cycle'.approved : /\ k \notin Buys' /\ i = cycle'.approved[k].target
    BY DEF Targets
  <1>4. cycle'.approved[k].action # "BUY"
    BY <1>3 DEF Buys
  <1>5. CASE k = Len(cycle.approved) + 1
    BY <1>2, <1>3, <1>4, <1>5
  <1>6. CASE k # Len(cycle.approved) + 1
    <2>1. k \in DOMAIN cycle.approved /\ cycle'.approved[k] = cycle.approved[k]
      BY <1>2, <1>6
    <2>2. k \in DOMAIN cycle.approved \ Buys
      BY <1>4, <2>1 DEF Buys
    <2> QED
      BY <1>3, <2>1, <2>2 DEF Targets
  <1> QED
    BY <1>5, <1>6

LEMMA TargetsTail ==
    ASSUME TypeInv, cycle.pc = "execute", cycle.approved # <<>>, Executed
    PROVE  /\ Targets' \subseteq Targets
           /\ Head(cycle.approved).action # "BUY" => Head(cycle.approved).target \in Targets
  <1>1. ASSUME NEW i \in Targets' PROVE i \in Targets
    <2>1. PICK k \in DOMAIN cycle'.approved : k \notin Buys' /\ i = cycle'.approved[k].target
      BY DEF Targets
    <2>2. k + 1 \in DOMAIN cycle.approved /\ cycle'.approved[k] = cycle.approved[k + 1]
      BY <2>1, TailWaited
    <2>3. k + 1 \in DOMAIN cycle.approved \ Buys
      BY <2>1, <2>2 DEF Buys
    <2> QED
      BY <2>1, <2>2, <2>3 DEF Targets
  <1>2. ASSUME Head(cycle.approved).action # "BUY"
        PROVE  Head(cycle.approved).target \in Targets
    <2>1. 1 \in DOMAIN cycle.approved \ Buys /\ cycle.approved[1] = Head(cycle.approved)
      BY <1>2, TailWaited DEF Buys
    <2> QED
      BY <2>1 DEF Targets
  <1> QED
    BY <1>1, <1>2

LEMMA TargetsOrders == ASSUME TypeInv PROVE Targets \subseteq Orders
  <1>1. cycle.approved \in Seq(Approvals)
    BY DEF TypeInv, TypeOK, Cycles
  <1>2. \A k \in DOMAIN cycle.approved : cycle.approved[k] \in Approvals
    BY <1>1
  <1> QED
    BY <1>2 DEF Targets, Buys, Approvals

\* Within a cycle: the approved closes stay or go, and the rows only get older.
LEMMA HoldShrinks ==
    ASSUME TypeInv, HoldInv, YoungShrinks, cycle'.seen = cycle.seen, cycle'.held = cycle.held,
           cycle'.source = cycle.source, Targets' \subseteq Targets,
           cycle'.pc = "idle" => cycle.pc = "idle" /\ cycle'.approved = cycle.approved
    PROVE  HoldInv'
  <1>1. ASSUME NEW i \in Targets', cycle'.source = "agent"
        PROVE  i \in cycle'.seen /\ (i \in cycle'.held /\ IsOpen(i)' => ~rows'[i].young)
    <2>1. i \in Targets /\ i \in Orders
      BY TargetsOrders
    <2>2. i \in cycle.seen /\ (i \in cycle.held /\ IsOpen(i) => ~rows[i].young)
      BY <1>1, <2>1 DEF HoldInv
    <2> QED
      BY <2>1, <2>2 DEF YoungShrinks
  <1> QED
    BY <1>1 DEF HoldInv

LEMMA HoldBegins == ASSUME NEW source, NEW n, BeginGate(source, n) PROVE HoldInv'
  <1>1. /\ cycle'.pc = "gate" /\ cycle'.seen = OpenRows /\ cycle'.held = Positions
        /\ cycle'.approved = <<>>
    BY DEF BeginGate, NoCycle
  <1>2. Targets' = {}
    BY <1>1 DEF Targets
  <1> QED
    BY <1>1, <1>2 DEF HoldInv, Positions

LEMMA HoldApprovesClose ==
    ASSUME TypeInv, HoldInv, NEW i \in Orders, ApproveClose(i) PROVE HoldInv'
  <1> DEFINE a == [action |-> "CLOSE", target |-> i]
  <1>1. cycle \in Cycles /\ cycle.pc = "gate"
    BY DEF ApproveClose, Gating, TypeInv, TypeOK
  <1>2. /\ cycle'.approved = Append(cycle.approved, a) /\ cycle'.pc = "gate"
        /\ cycle'.seen = cycle.seen /\ cycle'.held = cycle.held /\ cycle'.source = cycle.source
        /\ rows' = rows
    BY <1>1 DEF ApproveClose, Cycles
  <1>3. a.target = i
    OBVIOUS
  <1> HIDE DEF a
  <1>4. \A j \in Targets' : j \in Targets \/ j = i
    BY <1>2, <1>3, TargetsAppend
  <1>5. MayClose(i) /\ IsOpen(i)
    BY DEF ApproveClose
  <1>6. ASSUME NEW j \in Targets', cycle'.source = "agent"
        PROVE  j \in cycle'.seen /\ (j \in cycle'.held /\ IsOpen(j)' => ~rows'[j].young)
    <2>1. CASE j \in Targets
      BY <1>2, <1>6, <2>1 DEF HoldInv, IsOpen
    <2>2. CASE j = i
      BY <1>2, <1>5, <1>6, <2>2 DEF MayClose
    <2> QED
      BY <1>4, <2>1, <2>2
  <1> QED
    BY <1>2, <1>6 DEF HoldInv

\* Approving a buy, passing and ending the gate.
LEMMA HoldGates ==
    ASSUME TypeInv, HoldInv,
           \/ Pass \/ EndGate
           \/ \E s \in Symbols, n \in Notionals, strong \in BOOLEAN : ApproveBuy(s, n, strong)
    PROVE  HoldInv'
  <1>1. cycle \in Cycles
    BY DEF TypeInv, TypeOK
  <1>2. YoungShrinks
    BY RowsSame DEF Pass, EndGate, ApproveBuy
  <1>3. /\ cycle'.seen = cycle.seen /\ cycle'.held = cycle.held /\ cycle'.source = cycle.source
        /\ cycle'.pc # "idle"
    BY <1>1 DEF Pass, EndGate, ApproveBuy, Gating, Cycles
  <1>4. Targets' \subseteq Targets
    <2>1. CASE Pass \/ EndGate
      <3>1. cycle'.approved = cycle.approved
        BY <1>1, <2>1 DEF Pass, EndGate, Cycles
      <3> QED
        BY <3>1 DEF Targets, Buys
    <2>2. ASSUME NEW s \in Symbols, NEW n \in Notionals, NEW strong \in BOOLEAN,
                 ApproveBuy(s, n, strong)
          PROVE  Targets' \subseteq Targets
      <3> DEFINE a == [action |-> "BUY", symbol |-> s, notional |-> n, strong |-> strong]
      <3>1. cycle'.approved = Append(cycle.approved, a) /\ a.action = "BUY"
        BY <1>1, <2>2 DEF ApproveBuy, Cycles
      <3> HIDE DEF a
      <3> QED
        BY <3>1, TargetsAppend
    <2> QED
      BY <2>1, <2>2
  <1> QED
    BY <1>2, <1>3, <1>4, HoldShrinks

\* An execution that opens no row.
LEMMA HoldExecutes ==
    ASSUME TypeInv, HoldInv, YoungShrinks, cycle.pc = "execute", cycle.approved # <<>>, Executed
    PROVE  HoldInv'
  BY TailWaited, TargetsTail, HoldShrinks

\* A submit opens a row that no decision names, and no other row changes.
LEMMA HoldSubmits ==
    ASSUME TypeInv, HoldInv, NEW status, NEW posted, Submit(status, posted)
    PROVE  HoldInv' /\ ExitsShrink
  <1>1. cycle.pc = "execute" /\ cycle.approved # <<>> /\ Executed
    BY SubmitOpens
  <1>2. PICK i \in Orders \ (OpenRows \cup cycle.seen \cup Targets) :
             /\ OpenRows' \subseteq OpenRows \cup {i}
             /\ \A j \in Orders : j # i => rows'[j] = rows[j]
             /\ rows'[i].exiting = FALSE
    BY SubmitOpens
  <1>3. /\ cycle'.pc = "execute" /\ cycle'.seen = cycle.seen /\ cycle'.held = cycle.held
        /\ cycle'.source = cycle.source /\ Targets' \subseteq Targets /\ Targets \subseteq Orders
    BY <1>1, TailWaited, TargetsTail, TargetsOrders
  <1>4. ASSUME NEW j \in Targets', cycle'.source = "agent"
        PROVE  j \in cycle'.seen /\ (j \in cycle'.held /\ IsOpen(j)' => ~rows'[j].young)
    <2>1. j \in Targets /\ j # i /\ j \in Orders
      BY <1>2, <1>3
    <2>2. rows'[j] = rows[j]
      BY <1>2, <2>1
    <2> QED
      BY <1>3, <1>4, <2>1, <2>2 DEF HoldInv, IsOpen
  <1>5. ExitsShrink
    BY <1>2 DEF ExitsShrink, Positions, OpenRows
  <1> QED
    BY <1>3, <1>4, <1>5 DEF HoldInv

\* A cycle of the agents closes no young position that it has seen as one.
LEMMA CloseHold ==
    ASSUME TypeInv, HoldInv, ExecuteClose
    PROVE  /\ YoungShrinks
           /\ \A j \in Positions \cap cycle.held :
                /\ cycle.source = "agent" /\ rows[j].young
                /\ j \in Positions' /\ rows'[j].exiting
                => rows[j].exiting
  <1> DEFINE i == Head(cycle.approved).target
             r == Synced(rows[i], bids[i])
  <1>1. i \in Orders /\ i \in Targets
    BY TargetOK, TargetsTail DEF ExecuteClose, Executing
  <1>2. CASE ~IsOpen(i)
    BY <1>2, RowsSame DEF ExecuteClose, ExitsShrink
  <1>3. CASE IsOpen(i)
    <2>1. rows[i] \in OrderRecords /\ bids[i] \in Bids /\ r \in Rows
      BY <1>1, <1>3, OpenOK, SyncedOK DEF TypeInv
    <2>2. r # NoRow => r.young = rows[i].young /\ r.exiting = rows[i].exiting
      BY <2>1, SyncedHold
    <2>3. Closed(r) # NoRow => Closed(r).young = rows[i].young
      BY <2>1, <2>2, ClosedHold
    <2>4. Store(i, r) \/ Store(i, Closed(r))
      BY <1>3 DEF ExecuteClose
    <2> HIDE DEF r
    <2>5. YoungShrinks
      BY <1>1, <1>3, <2>2, <2>3, <2>4, StoreHold
    <2>6. ASSUME NEW j \in Positions \cap cycle.held, cycle.source = "agent", rows[j].young,
                 j \in Positions', rows'[j].exiting
          PROVE  rows[j].exiting
      <3>1. j # i
        <4> SUFFICES ASSUME j = i PROVE FALSE
          OBVIOUS
        <4>1. i \in cycle.held
          BY <2>6
        <4> HIDE DEF i
        <4> QED
          BY <1>1, <1>3, <2>6, <4>1 DEF HoldInv
      <3> HIDE DEF i
      <3>2. rows'[j] = rows[j]
        BY <2>4, <3>1 DEF Store, TypeInv, TypeOK, Positions, OpenRows
      <3> QED
        BY <2>6, <3>2
    <2> QED
      BY <2>5, <2>6
  <1> QED
    BY <1>2, <1>3

LEMMA HoldEnds == ASSUME EndCycle \/ Crash PROVE HoldInv'
  <1>1. cycle' = NoCycle
    BY DEF EndCycle, Crash
  <1>2. Targets' = {}
    BY <1>1 DEF Targets, NoCycle
  <1> QED
    BY <1>1, <1>2 DEF HoldInv, NoCycle

LEMMA HoldSame ==
    ASSUME TypeInv, HoldInv, YoungShrinks, UNCHANGED cycle PROVE HoldInv'
  <1>1. Targets' = Targets
    BY DEF Targets, Buys
  <1> QED
    BY <1>1, HoldShrinks

LEMMA NextHold == ASSUME TypeInv, HoldInv, Next PROVE HoldInv'
  <1>1. ASSUME NEW source, NEW n, BeginGate(source, n) PROVE HoldInv'
    BY <1>1, HoldBegins
  <1>2. CASE Gate
    BY <1>2, HoldApprovesClose, HoldGates DEF Gate
  <1>3. CASE DecisionRaises
    BY <1>3, RowsSame, HoldExecutes DEF DecisionRaises
  <1>4. CASE ExecuteClose
    BY <1>4, CloseHold, HoldExecutes DEF ExecuteClose, Executing
  <1>5. CASE SubmitAccepted \/ SubmitDoubtful \/ SubmitRefused
    BY <1>5, HoldSubmits DEF SubmitAccepted, SubmitDoubtful, SubmitRefused
  <1>6. CASE EndCycle \/ Crash
    BY <1>6, HoldEnds
  <1>7. ASSUME NEW i \in Orders, Background(i) PROVE HoldInv'
    BY <1>7, BackgroundHold, BackgroundShrinks, HoldSame
  <1>8. CASE Halt
    BY <1>8, RowsSame, HoldSame DEF Halt
  <1> QED
    BY <1>1, <1>2, <1>3, <1>4, <1>5, <1>6, <1>7, <1>8 DEF Next, Execute

Spared ==
    \A i \in Positions \cap cycle.held :
      cycle.source = "agent" /\ rows[i].young /\ ~rows[i].exiting /\ i \in Positions'
      => ~rows'[i].exiting

\* No step of a cycle, of a reconcile or of the venue sells a young position of
\* the cycle: only a close that the gate let through could.
LEMMA NextSpares == ASSUME TypeInv, HoldInv, Next PROVE Spared
  <1>1. CASE ExitsShrink
    BY <1>1 DEF ExitsShrink, Spared
  <1>2. CASE UNCHANGED rows
    BY <1>1, <1>2, RowsSame
  <1>3. CASE ExecuteClose
    BY <1>3, CloseHold DEF Spared
  <1>4. CASE SubmitAccepted \/ SubmitDoubtful \/ SubmitRefused
    BY <1>1, <1>4, HoldSubmits DEF SubmitAccepted, SubmitDoubtful, SubmitRefused
  <1>5. CASE Gate \/ DecisionRaises \/ EndCycle \/ Crash \/ Halt
    BY <1>2, <1>5 DEF Gate, Pass, EndGate, ApproveBuy, ApproveClose, DecisionRaises, EndCycle,
                      Crash, Halt
  <1>6. ASSUME NEW source, NEW n, BeginGate(source, n) PROVE Spared
    BY <1>2, <1>6 DEF BeginGate
  <1>7. ASSUME NEW i \in Orders, Background(i) PROVE Spared
    <2>1. CASE cycle.pc = "idle"
      BY <2>1 DEF HoldInv, Spared
    <2>2. CASE cycle.pc # "idle"
      BY <1>1, <1>7, <2>2, BackgroundHold
    <2> QED
      BY <2>1, <2>2
  <1> QED
    BY <1>3, <1>4, <1>5, <1>6, <1>7 DEF Next, Execute

\* A cycle of the agents never sells a position it has seen as one before its
\* minimum hold is over, for every set of orders, every list of decisions and
\* every reconcile and stop-out between the gate and the execution.
THEOREM MinHoldHolds == Spec => MinHoldKept
  <1>1. Init => HoldInv
    BY DEF Init, HoldInv, Targets, NoCycle
  <1>2. HoldInv /\ UNCHANGED vars => HoldInv'
    BY DEF vars, HoldInv, Targets, Buys, IsOpen
  <1>3. TypeInv /\ HoldInv /\ [Next]_vars =>
          [\A i \in Positions \cap cycle.held :
             cycle.source = "agent" /\ rows[i].young /\ ~rows[i].exiting /\ i \in Positions'
             => ~rows'[i].exiting]_vars
    BY NextSpares DEF Spared
  <1> QED
    BY <1>1, <1>2, <1>3, TypeInvariant, NextHold, PTL DEF Spec, MinHoldKept

=============================================================================
