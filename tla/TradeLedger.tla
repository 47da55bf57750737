----------------------------- MODULE TradeLedger ------------------------------
(***************************************************************************)
(* What the desk believes it has earned: the fills it could fetch, the     *)
(* profit booked from them (core/pnl.py, Store.realized_pnl) and the       *)
(* lesson kept of each closed trade (core/reflection.py).  ExchangeSync    *)
(* models the orders themselves; here an entry and an exit are two trades  *)
(* of one lot each, and a pass of the reconciler is one step, for only the *)
(* venue moves in between.                                                 *)
(*                                                                         *)
(*   - traded: the trades of an order at the venue;                        *)
(*   - fills: those in the fills table.  A fetch that fails is made again  *)
(*     for the entry as long as the order is open, but never for an exit   *)
(*     the pass has settled;                                               *)
(*   - settled: the exits whose order was seen filled;                     *)
(*   - status, realized: the columns of the order's row;                   *)
(*   - lesson: the profit its reflection records, or NoLesson.             *)
(*                                                                         *)
(* Money is in hundredths of the quote asset; a commission is a hundredth  *)
(* of a lot, or as much in quote or in a third asset.                      *)
(***************************************************************************)
EXTENDS Integers, FiniteSets, FiniteSetsExt

CONSTANTS
    Orders,
    EntryPrices, ExitPrices,
    FeeAssets,            \* "quote", "base" or "third": what a side's commission is paid in
    NoLesson

ASSUME LedgerAssumption ==
    /\ EntryPrices \cup ExitPrices \subseteq Nat \ {0}
    /\ FeeAssets \subseteq {"quote", "base", "third"}

VARIABLES traded, fills, settled, status, realized, lesson

ledgerVars == <<traded, fills, settled, status, realized, lesson>>

Parts == 1..2
Lots == Cardinality(Parts)
Trade == [exit : BOOLEAN, part : Parts, price : EntryPrices \cup ExitPrices, asset : FeeAssets]

Exits(trades) == {t \in trades : t.exit}
Entries(trades) == {t \in trades : ~t.exit}

LedgerInit ==
    /\ traded = [o \in Orders |-> {}] /\ fills = [o \in Orders |-> {}]
    /\ settled = [o \in Orders |-> {}]
    /\ status = [o \in Orders |-> "ENTRY_OPEN"]
    /\ realized = [o \in Orders |-> 0] /\ lesson = [o \in Orders |-> NoLesson]

-----------------------------------------------------------------------------
(* The profit of some fills.                                               *)

Quote(t) == 100 * t.price

(* aggregate_fills: a commission in a third asset counts only if there is a *)
(* price to convert it with.                                                *)
Commission(t, converts) == IF t.asset = "third" /\ ~converts THEN 0 ELSE t.price

QuoteOf(trades) == MapThenSumSet(Quote, trades)
CommissionOf(trades, converts) == MapThenSumSet(LAMBDA t : Commission(t, converts), trades)

Lesser(a, b) == IF a < b THEN a ELSE b

\* Mutant: the whole cost of the entry is booked against a partial exit.
RoundTripAtFullCost(trades, converts) ==
    LET entry == Entries(trades)
        exit == Exits(trades)
    IN  IF entry = {} \/ exit = {} THEN 0
        ELSE (QuoteOf(exit) - CommissionOf(exit, converts))
             - (QuoteOf(entry) + CommissionOf(entry, converts))

(* round_trip_pnl, realized_from_fills: the cost of the entry is matched to *)
(* the share of it the exits sold, at most all of it.                       *)
RoundTrip(trades, converts) ==
    LET entry == Entries(trades)
        exit == Exits(trades)
        sold == Lesser(Cardinality(exit), Cardinality(entry))
    IN  IF entry = {} \/ exit = {} THEN 0
        ELSE (QuoteOf(exit) - CommissionOf(exit, converts))
             - ((QuoteOf(entry) + CommissionOf(entry, converts)) * sold) \div Cardinality(entry)

-----------------------------------------------------------------------------

SideTrades(o, exit, prices) ==
    \E price \in prices, asset \in FeeAssets :
        LET side == {t \in traded[o] : t.exit = exit}
            trade == [exit |-> exit, part |-> Cardinality(side) + 1, price |-> price, asset |-> asset]
        IN  /\ Cardinality(side) < Lots
            /\ \A t \in side : t.asset = asset
            /\ traded' = [traded EXCEPT ![o] = @ \cup {trade}]

(* The venue fills a part of the entry, or a tier or the rest of the exit.  *)
EntryTrades(o) ==
    /\ status[o] = "ENTRY_OPEN" /\ SideTrades(o, FALSE, EntryPrices)
    /\ UNCHANGED <<fills, settled, status, realized, lesson>>

ExitTrades(o) ==
    /\ status[o] = "POSITION_OPEN" /\ SideTrades(o, TRUE, ExitPrices)
    /\ UNCHANGED <<fills, settled, status, realized, lesson>>

Advanced(o, done) ==
    CASE status[o] = "ENTRY_OPEN" /\ Cardinality(Entries(traded[o])) = Lots -> "POSITION_OPEN"
      [] status[o] = "POSITION_OPEN" /\ done = Parts -> "CLOSED"
      [] OTHER -> status[o]

\* Mutant: the first tier that is banked already draws the lesson.
LearnsAnyTime(o, now, known) ==
    lesson[o] = NoLesson /\ Entries(known) # {} /\ Exits(known) # {}

(* The lesson is drawn at the close only, and the first one is kept.        *)
Learns(o, now, known) ==
    now = "CLOSED" /\ lesson[o] = NoLesson /\ Entries(known) # {} /\ Exits(known) # {}

(* One pass over an open order: what the venue traded and could be fetched  *)
(* becomes fills, an exit seen filled is settled though its trades were     *)
(* not, and the profit is then computed again from what there is.           *)
SyncLedger(o) ==
    /\ status[o] \in {"ENTRY_OPEN", "POSITION_OPEN"}
    /\ \E entry \in BOOLEAN, exits \in SUBSET (Parts \ settled[o]), converts \in BOOLEAN :
         LET fetched == {t \in traded[o] : IF t.exit THEN t.part \in exits ELSE entry}
             known == fills[o] \cup fetched
             done == {t.part : t \in Exits(traded[o])}
             now == Advanced(o, done)
             profit == IF done = settled[o] \/ Entries(known) = {} \/ Exits(known) = {}
                         THEN realized[o] ELSE RoundTrip(known, converts)
         IN  /\ exits \subseteq done
             /\ fills' = [fills EXCEPT ![o] = known]
             /\ settled' = [settled EXCEPT ![o] = done]
             /\ status' = [status EXCEPT ![o] = now]
             /\ realized' = [realized EXCEPT ![o] = profit]
             /\ lesson' = IF Learns(o, now, known)
                          THEN [lesson EXCEPT ![o] = profit] ELSE lesson
    /\ UNCHANGED traded

LedgerNext == \E o \in Orders : EntryTrades(o) \/ ExitTrades(o) \/ SyncLedger(o)

LedgerSpec == LedgerInit /\ [][LedgerNext]_ledgerVars

-----------------------------------------------------------------------------

(* What Store.realized_pnl counts for an order: the column once it is       *)
(* closed, until then what its fills say, without a conversion price.       *)
Booked(o) == IF status[o] = "CLOSED" THEN realized[o] ELSE RoundTrip(fills[o], FALSE)

LedgerTypeOK ==
    /\ \A o \in Orders : traded[o] \subseteq Trade /\ fills[o] \subseteq traded[o]
    /\ settled \in [Orders -> SUBSET Parts]
    /\ status \in [Orders -> {"ENTRY_OPEN", "POSITION_OPEN", "CLOSED"}]
    /\ realized \in [Orders -> Int]
    /\ \A o \in Orders : lesson[o] = NoLesson \/ lesson[o] \in Int

Earned(t) == Quote(t) - Commission(t, TRUE)
Paid(t) == Quote(t) + Commission(t, TRUE)

NoPhantomLoss(o) ==
    (\A s \in Exits(traded[o]), b \in Entries(traded[o]) : Earned(s) >= Paid(b)) => Booked(o) >= 0

NoPhantomProfit(o) ==
    /\ Entries(traded[o]) \subseteq fills[o]
    /\ \A s \in Exits(traded[o]), b \in Entries(traded[o]) : Quote(s) <= Quote(b)
    => Booked(o) <= 0

LessonIsFinal(o) == lesson[o] # NoLesson => status[o] = "CLOSED" /\ lesson[o] = realized[o]

(***************************************************************************)
(* However many fetches failed, a trade whose every exit earned more than  *)
(* any lot of it cost is never booked as a loss, neither while a part of   *)
(* it is still held nor closed; once its entry is known, one whose every   *)
(* exit sold below what any lot cost is never booked as a profit; and the  *)
(* lesson of a trade, which is written once, records the profit the row of *)
(* the closed order holds, not that of a part of it.                       *)
(***************************************************************************)
BookSound == \A o \in Orders : NoPhantomLoss(o) /\ NoPhantomProfit(o) /\ LessonIsFinal(o)

=============================================================================
