------------------------------- MODULE Backtest -------------------------------
(***************************************************************************)
(* How the strategy is judged on history (backtest.py, decision_replay.py):*)
(* the baseline walks the candles once, bidding at the close of one and    *)
(* managing the position with a stop and a target; a recorded decision is  *)
(* replayed alone over the candles after it, with the same bracket or with *)
(* the tiered exits, as the configuration says.  The replay is meant to    *)
(* score as the baseline does, but gives every bid one lifetime, where the *)
(* baseline gives a zone bid a longer one, and the baseline has no tiers.  *)
(*                                                                         *)
(*   - bars: the candles walked so far, each [low, high, close];           *)
(*   - pending: the bid that rests and the candle it was decided on;       *)
(*   - position: the bid that was filled and when;                         *)
(*   - trades: the settled ones, in order;                                 *)
(*   - over: the series has ended.                                         *)
(*                                                                         *)
(* Prices are ticks, and profits and fees hundredths of a tick.            *)
(***************************************************************************)
EXTENDS Integers, Sequences, SequencesExt, FiniteSetsExt

CONSTANTS
    Bars, MaxBars,
    Bids,                 \* [price, stop, target : Nat, zone : BOOLEAN] the strategy may make
    BidLots,
    EntryTtl, ZoneTtl,    \* entry_ttl_candles, zone_entry_ttl_candles
    ReplayTtl,            \* --entry-ttl of the replay, for every bid
    FeePct, Slip,         \* a fee in percent of what is traded, ticks lost on a stop
    ExitConfig,           \* of the tiers: [size, gain, stop, breakeven, lock, trail]
    None

ASSUME BacktestAssumption ==
    /\ Bars \subseteq [low : Nat, high : Nat, close : Nat]
    /\ Bids \subseteq [price : Nat, stop : Nat, target : Nat, zone : BOOLEAN]
    /\ \A b \in Bars : b.low <= b.close /\ b.close <= b.high
    /\ \A b \in Bids : b.stop < b.price /\ b.price < b.target /\ ExitConfig.stop <= b.price
    /\ ExitConfig \in [size : Seq(1..100), gain : Seq(Nat), stop : Nat,
                       breakeven : Nat \ {0}, lock : Nat, trail : Nat]
    /\ Len(ExitConfig.size) = Len(ExitConfig.gain) /\ ExitConfig.breakeven <= Len(ExitConfig.gain)
    /\ {MaxBars, EntryTtl, ZoneTtl, BidLots} \subseteq Nat \ {0} /\ {ReplayTtl, FeePct, Slip} \subseteq Nat
    /\ None \notin [entry : Int, exit : Int, price : Int, pnl : Int,
                    reason : {"STOP_LOSS", "TAKE_PROFIT", "END_OF_DATA"}]

VARIABLES bars, pending, position, trades, over

backtestVars == <<bars, pending, position, trades, over>>

BacktestInit ==
    /\ \E bar \in Bars : bars = <<bar>>
    /\ pending = None /\ position = None /\ trades = <<>> /\ over = FALSE

-----------------------------------------------------------------------------

BidTtl(bid) == IF bid.zone THEN ZoneTtl ELSE EntryTtl
FeeOf(price, lots) == price * lots * FeePct
FillsOn(bid, bar) == bar.low <= bid.price
LeavesOn(bid, bar) == bar.low <= bid.stop \/ bar.high >= bid.target

(* The stop is assumed to come first.                                       *)
ExitOn(bid, bar) ==
    IF bar.low <= bid.stop THEN [price |-> bid.stop - Slip, reason |-> "STOP_LOSS"]
                           ELSE [price |-> bid.target, reason |-> "TAKE_PROFIT"]

(* close_trade: both fees come off what was gained.                         *)
Closed(entry, exit, bid, price, reason) ==
    LET fees == FeeOf(bid.price, BidLots) + FeeOf(price, BidLots)
    IN  [entry |-> entry, exit |-> exit, price |-> price, reason |-> reason,
         pnl |-> 100 * (price - bid.price) * BidLots - fees]

\* Mutant: a bid rests one candle longer.
ExpiresLate(bid, decided, index) == index - decided > BidTtl(bid)

Expires(bid, decided, index) == index - decided >= BidTtl(bid)

(* On a close without a position or a bid the strategy may make one the     *)
(* risk governor approves.                                                  *)
Decides(index, bar) ==
    pending' \in {None} \cup {[bid |-> b, decided |-> index] : b \in {c \in Bids : c.price <= bar.close}}

Holds(bar) ==
    /\ position # None /\ ~LeavesOn(position.bid, bar)
    /\ UNCHANGED <<pending, position, trades>>

Leaves(index, bar) ==
    /\ position # None /\ LeavesOn(position.bid, bar)
    /\ LET exit == ExitOn(position.bid, bar)
       IN  trades' = Append(trades, [bid |-> position.bid, decided |-> position.decided,
                                     result |-> Closed(position.entry, index, position.bid, exit.price, exit.reason)])
    /\ position' = None /\ Decides(index, bar)

Enters(index, bar) ==
    /\ pending # None /\ FillsOn(pending.bid, bar)
    /\ position' = [bid |-> pending.bid, decided |-> pending.decided, entry |-> index]
    /\ pending' = None /\ UNCHANGED trades

Waits(index, bar) ==
    /\ pending # None /\ ~FillsOn(pending.bid, bar)
    /\ IF Expires(pending.bid, pending.decided, index) THEN Decides(index, bar) ELSE UNCHANGED pending
    /\ UNCHANGED <<position, trades>>

Looks(index, bar) ==
    /\ position = None /\ pending = None
    /\ Decides(index, bar) /\ UNCHANGED <<position, trades>>

(* One turn of the loop of Backtester.run.                                  *)
Turn ==
    /\ ~over /\ Len(bars) < MaxBars
    /\ \E bar \in Bars :
         /\ bars' = Append(bars, bar)
         /\ LET index == Len(bars) + 1
            IN  \/ Holds(bar) \/ Leaves(index, bar) \/ Enters(index, bar)
                \/ Waits(index, bar) \/ Looks(index, bar)
    /\ UNCHANGED over

(* What is open when the series ends closes at its last close.              *)
SeriesEnds ==
    /\ ~over /\ Len(bars) >= 3 /\ over' = TRUE
    /\ trades' = IF position = None THEN trades
                 ELSE Append(trades, [bid |-> position.bid, decided |-> position.decided,
                                      result |-> Closed(position.entry, Len(bars), position.bid,
                                                        Last(bars).close, "END_OF_DATA")])
    /\ position' = None /\ UNCHANGED <<bars, pending>>

BacktestNext == Turn \/ SeriesEnds

BacktestSpec == BacktestInit /\ [][BacktestNext]_backtestVars

-----------------------------------------------------------------------------
(* simulate_limit_entry: one bid over the candles after its decision.       *)

Waiting == [at |-> "waiting"]

BracketStep(bid, ttl, window, sim, i) ==
    LET bar == window[i]
    IN  CASE sim.at = "waiting" /\ i > ttl -> [at |-> "lapsed"]
          [] sim.at = "waiting" /\ i <= ttl /\ FillsOn(bid, bar) -> [at |-> "open", entry |-> i]
          [] sim.at = "open" /\ LeavesOn(bid, bar) ->
                [at |-> "closed",
                 result |-> Closed(sim.entry, i, bid, ExitOn(bid, bar).price, ExitOn(bid, bar).reason)]
          [] OTHER -> sim

(* The settled trade, or None if the bid was not filled in time.            *)
BracketReplay(bid, ttl, window) ==
    LET end == FoldLeftDomain(LAMBDA sim, i : BracketStep(bid, ttl, window, sim, i), Waiting, window)
    IN  CASE end.at = "closed" -> end.result
          [] end.at = "open" -> Closed(end.entry, Len(window), bid, Last(window).close, "END_OF_DATA")
          [] OTHER -> None

(* replay_recorded_decisions: what is made of a recorded BUY while the      *)
(* tiered exits are off ...                                                 *)
Replay(bid, window) == BracketReplay(bid, ReplayTtl, window)

(* _simulate_tiered_entry: the same with the exits of ExitLadder, whose     *)
(* stop is that of the configuration, not the bid's.                        *)
Rungs(bid) ==
    INSTANCE ExitLadder WITH
        NTiers <- Len(ExitConfig.size), SizePct <- ExitConfig.size,
        Target <- [t \in DOMAIN ExitConfig.gain |-> bid.price + ExitConfig.gain[t]],
        EntryPrice <- bid.price, InitialStop <- bid.price - ExitConfig.stop,
        BreakevenTier <- ExitConfig.breakeven, LockTier <- ExitConfig.lock, TrailDistance <- ExitConfig.trail

ASSUME NoneIsNoReplay ==
    \A bid \in Bids :
        None \notin [at : {"closed"}, entry : Nat, plan : Rungs(bid)!Plans, gross : Int, fees : Int,
                    reason : {"STOP", "TAKE_PROFIT_ALL", "END_OF_DATA"}]

Touched(bid, plan, bar) ==
    {t \in DOMAIN ExitConfig.gain : ~plan.filled[t] /\ bar.high >= bid.price + ExitConfig.gain[t]}

(* At most one tier is banked on a candle, the lowest it touched.           *)
Banked(bid, plan, bar) ==
    IF Touched(bid, plan, bar) = {} THEN plan
    ELSE LET t == Min(Touched(bid, plan, bar))
         IN  Rungs(bid)!TierFilled(plan, t, Rungs(bid)!TierQuantity(t, BidLots))

Settles(bid, sim, price, lots) ==
    [sim EXCEPT !.gross = @ + 100 * (price - bid.price) * lots, !.fees = @ + FeeOf(price, lots)]

\* Mutant: a stop sells at the stop the plan was built with.
StopFillInitial(bid, plan) == bid.price - ExitConfig.stop - Slip

StopFill(bid, plan) == plan.stop - Slip

LadderStep(bid, ttl, window, sim, i) ==
    LET bar == window[i]
        left == Rungs(bid)!RemainingQuantity(sim.plan, BidLots)
        banked == Banked(bid, sim.plan, bar)
        plan == Rungs(bid)!Trailed(banked, bar.high)
        unsold == Rungs(bid)!RemainingQuantity(plan, BidLots)
        sold == IF banked = sim.plan THEN sim
                ELSE Settles(bid, sim, bid.price + ExitConfig.gain[Min(Touched(bid, sim.plan, bar))], left - unsold)
    IN  CASE sim.at = "waiting" /\ i > ttl -> [at |-> "lapsed"]
          [] sim.at = "waiting" /\ i <= ttl /\ FillsOn(bid, bar) ->
                [at |-> "open", entry |-> i, plan |-> Rungs(bid)!FreshPlan, gross |-> 0,
                 fees |-> FeeOf(bid.price, BidLots), reason |-> "none"]
          [] sim.at = "open" /\ bar.low <= sim.plan.stop ->
                [Settles(bid, sim, StopFill(bid, sim.plan), left) EXCEPT !.at = "closed", !.reason = "STOP"]
          [] sim.at = "open" /\ bar.low > sim.plan.stop /\ unsold = 0 ->
                [sold EXCEPT !.at = "closed", !.plan = plan, !.reason = "TAKE_PROFIT_ALL"]
          [] sim.at = "open" /\ bar.low > sim.plan.stop /\ unsold > 0 -> [sold EXCEPT !.plan = plan]
          [] OTHER -> sim

TieredReplay(bid, ttl, window) ==
    LET end == FoldLeftDomain(LAMBDA sim, i : LadderStep(bid, ttl, window, sim, i), Waiting, window)
    IN  CASE end.at = "closed" -> end
          [] end.at = "open" ->
                [Settles(bid, end, Last(window).close, Rungs(bid)!RemainingQuantity(end.plan, BidLots))
                    EXCEPT !.at = "closed", !.reason = "END_OF_DATA"]
          [] OTHER -> None

(* ... and while they are on, as shipped.                                   *)
LadderReplay(bid, window) == TieredReplay(bid, ReplayTtl, window)

-----------------------------------------------------------------------------

Since(decided) == SubSeq(bars, decided + 1, Len(bars))

BacktestTypeOK ==
    /\ bars \in Seq(Bars) /\ Len(bars) \in 1..MaxBars /\ over \in BOOLEAN
    /\ pending = None \/ pending \in [bid : Bids, decided : 1..MaxBars]
    /\ position = None \/ position \in [bid : Bids, decided : 1..MaxBars, entry : 1..MaxBars]
    /\ pending = None \/ position = None
    /\ \A n \in DOMAIN trades : trades[n].bid \in Bids

(***************************************************************************)
(* What the baseline makes of a bid in the course of its walk is what the  *)
(* replay of that bid with the bracket makes of the candles after the      *)
(* decision, if it was filled within the lifetime of the replay: as long   *)
(* as it rests the replay has not filled it, and a position has the entry, *)
(* a trade the entry, the exit and the profit the replay finds.  A bid     *)
(* that the baseline filled later, within its own lifetime, the replay     *)
(* misses.                                                                 *)
(***************************************************************************)
SameTrade(result, decided, replayed) ==
    /\ replayed # None
    /\ result = [replayed EXCEPT !.entry = @ + decided, !.exit = @ + decided]

ScoredAs(bid, decided, result) ==
    LET rested == result.entry - decided
        replayed == Replay(bid, Since(decided))
    IN  /\ rested <= BidTtl(bid)
        /\ rested <= ReplayTtl => SameTrade(result, decided, replayed)
        /\ rested > ReplayTtl => replayed = None

ReplayFaithful ==
    /\ pending # None => Replay(pending.bid, Since(pending.decided)) = None
    /\ position # None =>
          ScoredAs(position.bid, position.decided,
                   Closed(position.entry, Len(bars), position.bid, Last(bars).close, "END_OF_DATA"))
    /\ \A n \in DOMAIN trades : ScoredAs(trades[n].bid, trades[n].decided, trades[n].result)

(***************************************************************************)
(* With the tiered exits a bid is filled when it is with the bracket, and  *)
(* from the tier that moves the stop to breakeven on, what the tiers have  *)
(* banked stands: a stop takes back no more than the slippage on the rest. *)
(***************************************************************************)
BankedGross(plan) ==
    100 * MapThenSumSet(LAMBDA t : IF plan.filled[t] THEN ExitConfig.gain[t] * plan.sold[t] ELSE 0,
                        DOMAIN ExitConfig.gain)

LadderBanksStand ==
    \A n \in DOMAIN trades :
        LET window == Since(trades[n].decided)
            plain == Replay(trades[n].bid, window)
            replayed == LadderReplay(trades[n].bid, window)
        IN  /\ replayed = None <=> plain = None
            /\ replayed # None => replayed.entry = plain.entry
            /\ (replayed # None /\ replayed.reason = "STOP" /\ replayed.plan.filled[ExitConfig.breakeven]) =>
                   replayed.gross >= BankedGross(replayed.plan) - 100 * Slip * BidLots

=============================================================================
