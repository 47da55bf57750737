------------------------------ MODULE ZoneLadder ------------------------------
(***************************************************************************)
(* How a bid comes about: candles give price levels (core/levels.py),      *)
(* levels that lie close are clustered into zones, and the strategy rests  *)
(* a ladder of bids in the zones below the price, sized by conviction      *)
(* (agents/strategy.py, core/risk.py).                                     *)
(*                                                                         *)
(*   - candles: the candles of the timeframe so far, the last one forming; *)
(*   - view: the level map of the last look and what was read with it      *)
(*     (the bid, the regime, the score, the confidence, the volatility);   *)
(*   - proposals: what the strategy proposed on that view, best first.     *)
(*                                                                         *)
(* Prices are ticks, percentages whole numbers, and a fraction of a tick   *)
(* is rounded down.  Moving averages only enter as the regime, which the   *)
(* view reads as it likes.                                                 *)
(***************************************************************************)
EXTENDS Integers, FiniteSets, Sequences, SequencesExt

CONSTANTS
    Shapes,                   \* candles that may come: records of high, low, close, volume
    MaxCandles,               \* bound: candles of the window
    Views,                    \* readings: records of spread, regime, score, confidence, atr
    Bins,                     \* volume_by_price: bins
    Tolerance,                \* cluster_levels: tolerance, in percent
    MaxZones,                 \* build_level_map: zones per side
    Risk,                     \* RiskConfig: a record, percentages
    Sizing                    \* SizingConfig and the capital budget: a record

ASSUME ZoneAssumption ==
    /\ {MaxCandles, Tolerance, MaxZones} \subseteq Nat /\ Bins \in Nat \ {0}
    /\ Shapes \subseteq [low : Nat, high : Nat, close : Nat, volume : Nat]
    /\ \A c \in Shapes : 0 < c.low /\ c.low <= c.close /\ c.close <= c.high

(* The settings of the desk: the code takes them as they are configured.    *)
ASSUME SettingsAssumption ==
    /\ Risk.split \in Seq(Nat) /\ Risk.split # <<>> /\ Risk.split[1] > 0
    /\ {Risk.legs, Risk.maxDepth, Risk.stopBuffer, Risk.minRewardRisk} \subseteq Int
    /\ {Risk.atrMult, Risk.maxOffset, Risk.minEdge, Risk.edgeScale} \subseteq Int
    /\ Risk.takeProfit \in Nat \ {0} /\ Risk.stopLoss \in 1..99 /\ Risk.minOffset \in 0..100
    /\ {Sizing.floor, Sizing.full} \subseteq Int /\ Sizing.floor < Sizing.full
    /\ {Sizing.minFraction, Sizing.kelly, Risk.downtrend} \subseteq Nat
    /\ Sizing.edgeFull \in Nat \ {0}
    /\ {Sizing.volTarget, Sizing.maxNotional, Sizing.budget} \subseteq Nat
    /\ Sizing.minNotional \in Nat \ {0}
    /\ \A r \in Views : {r.spread, r.score, r.confidence, r.atr} \subseteq Int

VARIABLES candles, view, proposals

zoneVars == <<candles, view, proposals>>

Larger(a, b) == IF a >= b THEN a ELSE b
Smaller(a, b) == IF a <= b THEN a ELSE b
Clamp(value, low, high) == Larger(low, Smaller(high, value))
Total(seq) == MapThenSumSet(LAMBDA i : seq[i], DOMAIN seq)
Column(seq, Field(_)) == [i \in DOMAIN seq |-> Field(seq[i])]
Highest(cs) == Max({cs[i].high : i \in DOMAIN cs})
Lowest(cs) == Min({cs[i].low : i \in DOMAIN cs})

(* The elements at the indices, those first that no other is ahead of;      *)
(* sorted() is stable: elements that tie keep their order.                  *)
InPlace(seq, indices, ahead) ==
    [k \in 1..Cardinality(indices) |-> seq[CHOOSE i \in indices : Cardinality(ahead[i]) = k - 1]]
Arranged(seq, indices, Before(_, _)) ==
    InPlace(seq, indices,
            [i \in indices |->
               {j \in indices : Before(seq[j], seq[i]) \/ (j < i /\ ~Before(seq[i], seq[j]))}])
Sorted(seq, Before(_, _)) == Arranged(seq, DOMAIN seq, Before)
Selected(seq, Test(_)) == Arranged(seq, {i \in DOMAIN seq : Test(seq[i])}, LAMBDA a, b : FALSE)

-----------------------------------------------------------------------------
(* The levels of one timeframe.                                            *)

(* fractal_pivots: two bars on each side, strict on the right; the second   *)
(* on the right may be the candle that is forming.                          *)
Swing(cs, Beyond(_, _), Value(_)) ==
    {i \in 3..(Len(cs) - 2) :
        /\ \A j \in (i - 2)..(i - 1) : ~Beyond(Value(cs[j]), Value(cs[i]))
        /\ \A j \in (i + 1)..(i + 2) : Beyond(Value(cs[i]), Value(cs[j]))}

SwingHighs(cs) == Swing(cs, LAMBDA a, b : a > b, LAMBDA c : c.high)

SwingLows(cs) == Swing(cs, LAMBDA a, b : a < b, LAMBDA c : c.low)

(* volume_by_price: the bins that took at least the volume of the quantile. *)
VolumeNodes(cs) ==
    LET low == Lowest(cs)
        span == Highest(cs) - low
        Bin(c) == Smaller(Bins - 1, ((c.high + c.low + c.close - 3 * low) * Bins) \div (3 * span))
        Volume(b) == MapThenSumSet(LAMBDA i : cs[i].volume, {i \in DOMAIN cs : Bin(cs[i]) = b})
        filled == {b \in 0..(Bins - 1) : Volume(b) > 0}
        Rank(b) == Cardinality({o \in filled : Volume(o) < Volume(b)})
        Cutoff == (7 * (Cardinality(filled) - 1)) \div 10
        \* the value at index Cutoff of the sorted volumes
        Reaches(b) == \E o \in filled : /\ Volume(b) >= Volume(o) /\ Rank(o) <= Cutoff
                                        /\ Cutoff < Rank(o) + Cardinality({x \in filled : Volume(x) = Volume(o)})
    IN  IF Len(cs) < 5 \/ span = 0 THEN <<>>
        ELSE Column(SetToSeq({b \in filled : Reaches(b)}), LAMBDA b : low + ((2 * b + 1) * span) \div (2 * Bins))

(* fib_retracement: 38.2, 50, 61.8 and 78.6 percent of the range.           *)
Retracements(cs) ==
    LET high == Highest(cs)
        span == high - Lowest(cs)
    IN  IF span = 0 THEN <<>> ELSE Column(<<382, 500, 618, 786>>, LAMBDA r : high - (r * span) \div 1000)

Levels(prices, weight) == Column(prices, LAMBDA p : [price |-> p, weight |-> weight])
At(cs, indices, Value(_)) == Column(SetToSeq(indices), LAMBDA i : Value(cs[i]))

(* levels_for_timeframe, with METHOD_WEIGHT in tenths.                      *)
LevelsOf(cs) ==
    LET prior == cs[Len(cs) - 1]
    IN  Levels(At(cs, SwingHighs(cs), LAMBDA c : c.high), 12)
        \o Levels(At(cs, SwingLows(cs), LAMBDA c : c.low), 12)
        \o Levels(VolumeNodes(cs), 15)
        \o (IF Len(cs) < 2 THEN <<>>
            ELSE Levels(<<prior.high, prior.low>>, 13) \o Levels(<<prior.close>>, 9))
        \o Levels(Retracements(cs), 8)

-----------------------------------------------------------------------------
(* The level map.                                                          *)

Prices(cluster) == Total(Column(cluster, LAMBDA lv : lv.price))
Near(lv, cluster) ==
    LET gap == lv.price * Len(cluster) - Prices(cluster)
    IN  Larger(gap, -gap) * 100 <= Tolerance * Prices(cluster)

(* cluster_levels: a level joins the last cluster if it is near its mean.   *)
Joined(clusters, lv) ==
    IF clusters # <<>> /\ Near(lv, Last(clusters))
      THEN Append(Front(clusters), Append(Last(clusters), lv))
      ELSE Append(clusters, <<lv>>)

ClustersOf(ordered) ==
    LET joined[n \in 0..Len(ordered)] == IF n = 0 THEN <<>> ELSE Joined(joined[n - 1], ordered[n])
    IN  joined[Len(ordered)]

Clusters(levels) == ClustersOf(Sorted(levels, LAMBDA a, b : a.price < b.price))

(* mid is the mean, kept as a sum over touches.                             *)
ZoneOf(cluster) ==
    [low |-> cluster[1].price, high |-> Last(cluster).price, sum |-> Prices(cluster),
     touches |-> Len(cluster), strength |-> Total(Column(cluster, LAMBDA lv : lv.weight))]

MidBelow(a, b) == a.sum * b.touches < b.sum * a.touches
FirstZones(zones, n) == SubSeq(zones, 1, Smaller(n, Len(zones)))

(* build_level_map: nearest first on both sides.                            *)
LevelMapOf(cs, price) ==
    LET zones == Column(Clusters(LevelsOf(cs)), ZoneOf)
        below == {i \in DOMAIN zones : zones[i].sum <= price * zones[i].touches /\ zones[i].high < price}
        above == {i \in DOMAIN zones : zones[i].sum > price * zones[i].touches /\ zones[i].low > price}
    IN  [price |-> price,
         supports |-> FirstZones(Arranged(zones, below, LAMBDA a, b : MidBelow(b, a)), MaxZones),
         resistances |-> FirstZones(Arranged(zones, above, MidBelow), MaxZones)]

-----------------------------------------------------------------------------
(* The size of a bid and its legs.                                         *)

(* conviction_size; edge and atr are percentages, multiplier too.           *)
ConvictionSize(confidence, edge, atr, multiplier) ==
    LET conviction == Clamp(((confidence - Sizing.floor) * 100) \div (Sizing.full - Sizing.floor), 0, 100)
        strength == (conviction * Clamp((edge * 100) \div Sizing.edgeFull, 0, 100)) \div 100
        fraction == Sizing.minFraction + (strength * (Sizing.kelly - Sizing.minFraction)) \div 100
        notional == (Sizing.budget * fraction * multiplier) \div 10000
        calm == IF atr > Sizing.volTarget THEN (notional * Sizing.volTarget) \div atr ELSE notional
        capped == Smaller(calm, Smaller(Sizing.maxNotional, Sizing.budget))
    IN  IF capped < Sizing.minNotional THEN 0 ELSE capped

(* One leg: the stop and the target are in hundredths of a tick.            *)
LegIn(zone, map, bid) ==
    LET entry == Smaller(zone.high, bid)
        nearest == map.resistances[1]
        target == IF map.resistances # <<>> /\ nearest.sum > map.price * nearest.touches
                    THEN (100 * nearest.sum) \div nearest.touches
                    ELSE map.price * (100 + Risk.takeProfit)
    IN  [entry |-> entry, stop |-> zone.low * (100 - Risk.stopBuffer),
         target |-> Larger(target, entry * (100 + Risk.takeProfit)), zone |-> zone]

Gain(leg) == leg.target - 100 * leg.entry
Loss(leg) == 100 * leg.entry - leg.stop
Edge(leg) == Gain(leg) \div leg.entry

WorthAnyReward(leg, price) ==
    /\ leg.entry > 0
    /\ leg.entry <= price /\ (price - leg.entry) * 100 <= Risk.maxDepth * price
    /\ leg.stop > 0 /\ Loss(leg) > 0 /\ Gain(leg) > 0

Worth(leg, price) ==
    /\ leg.entry > 0
    /\ leg.entry <= price /\ (price - leg.entry) * 100 <= Risk.maxDepth * price
    /\ leg.stop > 0 /\ Loss(leg) > 0 /\ Gain(leg) > 0
    /\ 10 * Gain(leg) >= Risk.minRewardRisk * Loss(leg)

(* In a downtrend only the strongest zone, the deepest of these.            *)
Stronger(a, b) == a.strength > b.strength \/ (a.strength = b.strength /\ MidBelow(a, b))
Candidates(map, regime) ==
    IF regime = "downtrend" THEN FirstZones(Sorted(map.supports, Stronger), 1) ELSE map.supports

LegsFound(map, bid, regime) ==
    FirstZones(Selected(Column(Candidates(map, regime), LAMBDA z : LegIn(z, map, bid)),
                        LAMBDA leg : Worth(leg, map.price)),
               Larger(1, Risk.legs))

BestEdge(legs) == Max({Edge(legs[i]) : i \in DOMAIN legs})

LadderSize(legs, reading) ==
    ConvictionSize(reading.confidence, BestEdge(legs), reading.atr,
                   IF reading.regime = "downtrend" THEN Risk.downtrend ELSE 100)

Uncut(found, total) == found

(* The legs are cut to what the total can pay for ...                       *)
CutTo(found, total) == FirstZones(found, Larger(1, total \div Sizing.minNotional))

(* ... and it is split by the weights; a leg still too small is left out.   *)
Weight(i) == Risk.split[Smaller(i, Len(Risk.split))]

Ladder(map, bid, reading) ==
    LET found == LegsFound(map, bid, reading.regime)
        total == LadderSize(found, reading)
        legs == CutTo(found, total)
        weights == Total([i \in DOMAIN legs |-> Weight(i)])
        sized == [i \in DOMAIN legs |->
                    [entry |-> legs[i].entry, stop |-> legs[i].stop, target |-> legs[i].target,
                     anchored |-> TRUE, notional |-> (total * Weight(i)) \div weights]]
    IN  IF found = <<>> \/ total = 0 THEN <<>>
        ELSE Selected(sized, LAMBDA leg : leg.notional >= Sizing.minNotional)

(* maker_pullback_price, and the bid without a zone.                        *)
MakerPullback(bid, atr) ==
    LET offset == Larger((bid * Risk.minOffset) \div 100,
                         Smaller((bid * atr * Risk.atrMult) \div 1000, (bid * Risk.maxOffset) \div 100))
    IN  bid - offset

Shallow(map, bid, reading) ==
    LET entry == MakerPullback(bid, reading.atr)
        edge == (reading.score * Risk.edgeScale) \div 100
        notional == ConvictionSize(reading.confidence, edge, reading.atr, 100)
    IN  IF edge < Risk.minEdge \/ notional <= 0 \/ entry <= 0 THEN <<>>
        ELSE <<[entry |-> entry, stop |-> entry * (100 - Risk.stopLoss),
                target |-> entry * (100 + Risk.takeProfit), anchored |-> FALSE, notional |-> notional]>>

(* StrategyAgent.propose for one symbol, with the best edge first.          *)
Proposed(map, bid, reading) ==
    LET ladder == IF map.supports # <<>> /\ reading.score >= -10 THEN Ladder(map, bid, reading) ELSE <<>>
    IN  IF ladder # <<>> THEN Sorted(ladder, LAMBDA a, b : Edge(a) > Edge(b))
        ELSE Shallow(map, bid, reading)

-----------------------------------------------------------------------------

NoView == [seen |-> FALSE]

ZoneInit == candles = <<>> /\ view = NoView /\ proposals = <<>>

(* A candle closes and the next begins.                                     *)
CandleComes ==
    /\ Len(candles) < MaxCandles
    /\ \E c \in Shapes : candles' = Append(candles, c)
    /\ view' = NoView /\ proposals' = <<>>

(* The price moves within the candle that is forming.                       *)
CandleMoves ==
    /\ candles # <<>>
    /\ \E c \in Shapes : candles' = Append(Front(candles), c)
    /\ view' = NoView /\ proposals' = <<>>

(* A look at the market.                                                    *)
Propose ==
    /\ Len(candles) > 1 /\ view = NoView
    /\ \E reading \in Views :
         LET price == Last(candles).close
             map == LevelMapOf(candles, price)
         IN  /\ view' = [seen |-> TRUE, map |-> map, reading |-> reading, bid |-> price - reading.spread]
             /\ proposals' = Proposed(map, price - reading.spread, reading)
    /\ UNCHANGED candles

ZoneNext == CandleComes \/ CandleMoves \/ Propose

ZoneSpec == ZoneInit /\ [][ZoneNext]_zoneVars

-----------------------------------------------------------------------------

ZoneTypeOK ==
    /\ candles \in Seq(Shapes) /\ view.seen \in BOOLEAN
    /\ \A i \in DOMAIN proposals :
         /\ {proposals[i].entry, proposals[i].stop, proposals[i].target, proposals[i].notional} \subseteq Nat
         /\ proposals[i].anchored \in BOOLEAN

Together(bids) == Total(Column(bids, LAMBDA p : p.notional))
ZonesApart(zones) == \A i, j \in DOMAIN zones : i < j => zones[j].high < zones[i].low

(***************************************************************************)
(* Zones are bands apart, and every bid of a ladder has its stop below its *)
(* entry, its target above its entry and the reward the rules ask for; the *)
(* ladder together costs no more than the one size it was given.           *)
(***************************************************************************)
LadderSound ==
    view.seen =>
        /\ ZonesApart(view.map.supports) /\ ZonesApart(Reverse(view.map.resistances))
        /\ \A i \in DOMAIN proposals :
             LET bid == proposals[i]
             IN  /\ 0 < bid.stop /\ bid.stop < 100 * bid.entry /\ 100 * bid.entry < bid.target
                 /\ bid.entry <= view.bid /\ bid.notional >= Sizing.minNotional
                 /\ bid.anchored => 10 * Gain(bid) >= Risk.minRewardRisk * Loss(bid)
        /\ Together(proposals) <= Smaller(Sizing.maxNotional, Sizing.budget)

(***************************************************************************)
(* A ladder that was worth a size is not lost when it is cut and split:    *)
(* the leg that weighs most can always be paid for.                        *)
(***************************************************************************)
SizedLadderKept ==
    (view.seen /\ view.reading.score >= -10) =>
        LET found == LegsFound(view.map, view.bid, view.reading.regime)
        IN  found # <<>> /\ LadderSize(found, view.reading) > 0
              => proposals # <<>> /\ proposals[1].anchored

=============================================================================
