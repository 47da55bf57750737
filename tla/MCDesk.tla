-------------------------------- MODULE MCDesk --------------------------------
(***************************************************************************)
(* Instances for TLC of the parts that feed the decisions and carry them   *)
(* to the venue.  They share no state in these models, so a behaviour is   *)
(* one of the part in focus, the others resting in one initial state; of   *)
(* the signal agents, which share no source, one is in focus at a time, or *)
(* all of them while no time passes ("records").                           *)
(***************************************************************************)
EXTENDS AdapterRequest, ZoneLadder, SignalFeeds, TradeLedger, Backtest

VARIABLE focus

deskVars == <<focus, adapterVars, zoneVars, feedVars, ledgerVars, backtestVars>>

McFilters == [tick : {0, 2}, step : {1, 2}, minQty : {0, 2}, minNotional : {0, 4}]

McShapes == {[high |-> 202, low |-> 190, close |-> 200, volume |-> 5],
             [high |-> 214, low |-> 200, close |-> 208, volume |-> 1],
             [high |-> 200, low |-> 186, close |-> 192, volume |-> 3]}
Read(spread, regime, score, confidence, atr) ==
    [spread |-> spread, regime |-> regime, score |-> score, confidence |-> confidence, atr |-> atr]
McViews == {Read(2, "range", 5, 90, 1), Read(-1, "range", 60, 65, 4), Read(2, "range", -20, 90, 1),
            Read(2, "downtrend", 5, 90, 1), Read(1, "uptrend", 60, 40, 1)}
McRisk == [maxDepth |-> 8, stopBuffer |-> 1, takeProfit |-> 4, minRewardRisk |-> 30, legs |-> 3,
           split |-> <<5, 3, 2>>, downtrend |-> 50, minOffset |-> 1, atrMult |-> 3, maxOffset |-> 3,
           stopLoss |-> 2, minEdge |-> 1, edgeScale |-> 4]
McSizing == [floor |-> 50, full |-> 80, edgeFull |-> 6, minFraction |-> 15, kelly |-> 100,
             volTarget |-> 2, minNotional |-> 15, maxNotional |-> 100, budget |-> 120]

Bar(low, high, close) == [low |-> low, high |-> high, close |-> close]
Bid(price, stop, target, zone) == [price |-> price, stop |-> stop, target |-> target, zone |-> zone]
McBars == {Bar(98, 101, 100), Bar(103, 108, 105), Bar(92, 99, 95), Bar(99, 112, 102)}
McBids == {Bid(99, 95, 104, FALSE), Bid(97, 93, 106, TRUE)}
McExits == [size |-> <<50, 30>>, gain |-> <<3, 8>>, stop |-> 4, breakeven |-> 1, lock |-> 2, trail |-> 3]

DeskInit ==
    /\ focus \in {"adapter", "levels", "records", "ledger", "backtest"} \cup Agents
    /\ AdapterInit /\ ZoneInit /\ FeedsInit /\ LedgerInit
    /\ BacktestInit /\ bars = <<Bar(98, 101, 100)>>
    /\ focus # "adapter" => clock
    /\ focus \notin Agents => online /\ registry

DeskNext ==
    /\ UNCHANGED focus
    /\ \/ focus = "adapter" /\ AdapterNext /\ UNCHANGED <<zoneVars, feedVars, ledgerVars, backtestVars>>
       \/ focus = "levels" /\ ZoneNext /\ UNCHANGED <<adapterVars, feedVars, ledgerVars, backtestVars>>
       \/ focus = "ledger" /\ LedgerNext /\ UNCHANGED <<adapterVars, zoneVars, feedVars, backtestVars>>
       \/ focus = "backtest" /\ BacktestNext /\ UNCHANGED <<adapterVars, zoneVars, feedVars, ledgerVars>>
       \/ /\ \/ focus \in Agents /\ (TimeGoesBy \/ Analyze(focus))
             \/ focus = "records" /\ \E agent \in Agents : Analyze(agent)
          /\ UNCHANGED <<adapterVars, zoneVars, ledgerVars, backtestVars>>

DeskSpec == DeskInit /\ [][DeskNext]_deskVars

DeskTypeOK == AdapterTypeOK /\ ZoneTypeOK /\ FeedsTypeOK /\ LedgerTypeOK /\ BacktestTypeOK

=============================================================================
