----------------------------- MODULE AgentRuntime -----------------------------
(***************************************************************************)
(* One process of the operator's console: the operator's commands and the  *)
(* agent loop are two threads that share the lifecycle manager (a state    *)
(* and two events) and the invocation lock (repl/app.py,                   *)
(* repl/lifecycle.py, graph/runtime.py).                                   *)
(*                                                                         *)
(*   - state, gate, stopFlag: AgentLifecycleManager;                       *)
(*   - thread: where the agent loop is, "none" when it is not alive; once  *)
(*     tells a loop of one cycle; nap: what is left of its sleep and the   *)
(*     polls since the last tick of the monitor;                           *)
(*   - command: where the operator's current command is;                   *)
(*   - invoke: the holder of SupervisorRuntime._invoke_lock;               *)
(*   - positions: the open positions of the store; seen: what the gate of  *)
(*     the operator's buy has read of them; granted: the BUYs the gate of  *)
(*     the cycle has let through;                                          *)
(*   - killed: the kill switch;                                            *)
(*   - late: cycles begun since the loop was told to pause or to stop.     *)
(*                                                                         *)
(* A person types the commands, so nothing obliges a command to come; once *)
(* it has begun, its steps follow.                                         *)
(***************************************************************************)
EXTENDS Naturals

CONSTANTS
    MaxPositions,             \* RiskConfig.max_open_positions
    MaxBuys,                  \* the BUYs one cycle decides on, one per symbol
    IntervalPolls,            \* the interval of the loop, in polls of the sleep
    TickPolls                 \* polls between two ticks of the monitor

ASSUME RuntimeAssumption ==
    /\ MaxPositions \in Nat
    /\ MaxBuys \in Nat
    /\ IntervalPolls \in Nat
    /\ TickPolls \in Nat \ {0}

VARIABLES state, gate, stopFlag, thread, once, nap, command, invoke, positions, seen,
          granted, killed, late

lifecycle == <<state, gate, stopFlag>>
runtimeVars == <<lifecycle, thread, once, nap, command, invoke, positions, seen, granted, killed, late>>

AgentStates == {"idle", "starting", "running", "paused", "stopping", "stopped"}

(***************************************************************************)
(* sleeping  before wait_or_die in sleep_or_die; polling: after it         *)
(* queued    run_once waits for the lock; monitoring: the monitor does     *)
(* gating    from the gate of the cycle to the end of its execution        *)
(* ending    in the finally of the loop                                    *)
(***************************************************************************)
ThreadStates == {"none", "started", "waiting", "queued", "cycle", "gating", "sleeping", "polling",
                 "tick", "monitoring", "ending"}

(***************************************************************************)
(* pausing, resuming, stopping   the state has been tested                 *)
(* closing, opening, raising     the event or the state has been set       *)
(* leaving   /exit: the last stop(), then the join of 30 seconds           *)
(***************************************************************************)
CommandStates == {"ready", "pausing", "closing", "resuming", "opening", "stopping", "raising",
                  "joining", "asking", "thinking", "confirming", "buying", "selling", "placing",
                  "leaving", "gone"}

RuntimeInit ==
    /\ state = "idle" /\ gate = TRUE /\ stopFlag = FALSE
    /\ thread = "none" /\ once = FALSE
    /\ nap = [remaining |-> 0, since |-> 0]
    /\ command = "ready" /\ invoke = "nobody"
    /\ positions \in 0..MaxPositions /\ seen = 0 /\ granted = 0
    /\ killed \in BOOLEAN /\ late = 0

-----------------------------------------------------------------------------
(* The operator's commands.                                                *)

CmdRunGated(single) ==
    /\ command = "ready" /\ thread = "none"
    /\ stopFlag' = FALSE /\ state' = "starting"
    /\ thread' = "started" /\ once' = single /\ late' = 0
    /\ command' = IF single THEN "joining" ELSE "ready"
    /\ UNCHANGED <<gate, nap, invoke, positions, seen, granted, killed>>

(* /run and /once: starting() and Thread.start(); /once then joins.         *)
CmdRun(single) ==
    /\ command = "ready" /\ thread = "none"
    /\ stopFlag' = FALSE /\ gate' = TRUE /\ state' = "starting"
    /\ thread' = "started" /\ once' = single /\ late' = 0
    /\ command' = IF single THEN "joining" ELSE "ready"
    /\ UNCHANGED <<nap, invoke, positions, seen, granted, killed>>

(* The join of /once ends with the thread, or after ten minutes.            *)
Joined ==
    /\ command = "joining"
    /\ command' = "ready"
    /\ UNCHANGED <<lifecycle, thread, once, nap, invoke, positions, seen, granted, killed, late>>

(* A command that only acts in some states tests the state and then acts.   *)
Goto(from, to) == command = from /\ command' = to

CmdPause ==
    /\ \/ Goto("ready", "pausing") /\ state = "running" /\ UNCHANGED <<lifecycle, late>>
       \/ Goto("pausing", "closing") /\ gate' = FALSE /\ late' = 0 /\ UNCHANGED <<state, stopFlag>>
       \/ Goto("closing", "ready") /\ state' = "paused" /\ UNCHANGED <<gate, stopFlag, late>>
    /\ UNCHANGED <<thread, once, nap, invoke, positions, seen, granted, killed>>

CmdResume ==
    /\ \/ Goto("ready", "resuming") /\ state = "paused" /\ UNCHANGED <<lifecycle, late>>
       \/ Goto("resuming", "opening") /\ gate' = TRUE /\ late' = 0 /\ UNCHANGED <<state, stopFlag>>
       \/ Goto("opening", "ready") /\ state' = "running" /\ UNCHANGED <<gate, stopFlag, late>>
    /\ UNCHANGED <<thread, once, nap, invoke, positions, seen, granted, killed>>

(* /stop, and the stop() of /exit.                                          *)
Stopped == state \in {"stopped", "idle"}
CmdStop ==
    /\ \/ Goto("ready", "stopping") /\ ~Stopped /\ UNCHANGED <<lifecycle, late>>
       \/ Goto("ready", "raising") /\ Stopped /\ UNCHANGED <<lifecycle, late>>
       \/ Goto("stopping", "raising") /\ state' = "stopping" /\ UNCHANGED <<gate, stopFlag, late>>
       \/ /\ command = "raising" /\ stopFlag' = TRUE /\ gate' = TRUE /\ late' = 0
          /\ command' \in {"ready", "leaving"}
          /\ UNCHANGED state
    /\ UNCHANGED <<thread, once, nap, invoke, positions, seen, granted, killed>>

(* The process ends after the join, with a daemon thread still in a cycle.  *)
Leave ==
    /\ command = "leaving" /\ command' = "gone"
    /\ thread' = "none" /\ invoke' = "nobody" /\ granted' = 0
    /\ UNCHANGED <<lifecycle, once, nap, positions, seen, killed, late>>

(* /kill on|off, here or from another process.                              *)
CmdKill ==
    /\ command # "gone"
    /\ killed' = ~killed
    /\ UNCHANGED <<lifecycle, thread, once, nap, command, invoke, positions, seen, granted, late>>

-----------------------------------------------------------------------------
(* Chat: the answer under the lock, the confirmation outside it, and the   *)
(* execution under the lock again.                                         *)

Take(holder) == invoke = "nobody" /\ invoke' = holder
Release == invoke' = "nobody"

Chat ==
    /\ \/ Goto("ready", "asking") /\ UNCHANGED invoke
       \/ Goto("asking", "thinking") /\ Take("operator")
       \/ Goto("thinking", "confirming") /\ Release
       \/ command = "confirming" /\ command' \in {"buying", "selling", "ready"} /\ UNCHANGED invoke
    /\ UNCHANGED <<lifecycle, thread, once, nap, positions, seen, granted, killed, late>>

OperatorBuysUnlocked ==
    /\ command = "buying" /\ command' = "placing"
    /\ seen' = positions
    /\ UNCHANGED <<lifecycle, thread, once, nap, invoke, positions, granted, killed, late>>

(* execute_operator_decision: a buy is gated on what is read under the lock *)
(* and placed; a sell closes a position that is still open.                 *)
OperatorBuys ==
    /\ command = "buying" /\ command' = "placing"
    /\ Take("operator") /\ seen' = positions
    /\ UNCHANGED <<lifecycle, thread, once, nap, positions, granted, killed, late>>

OperatorPlaces ==
    /\ Goto("placing", "ready") /\ Release /\ seen' = 0
    /\ positions' \in IF seen < MaxPositions /\ ~killed THEN {positions, positions + 1} ELSE {positions}
    /\ UNCHANGED <<lifecycle, thread, once, nap, granted, killed, late>>

OperatorSells ==
    /\ Goto("selling", "ready") /\ invoke = "nobody"
    /\ positions' \in IF positions > 0 THEN {positions - 1, positions} ELSE {0}
    /\ UNCHANGED <<lifecycle, thread, once, nap, invoke, seen, granted, killed, late>>

(* /orders and the reconciles of other processes do not take the lock:     *)
(* exits may complete and entries be discarded at any time.                *)
OrdersSynced ==
    /\ positions > 0
    /\ positions' \in 0..(positions - 1)
    /\ UNCHANGED <<lifecycle, thread, once, nap, command, invoke, seen, granted, killed, late>>

-----------------------------------------------------------------------------
(* The agent loop.                                                         *)

(* running(): the store is open and the runtime is built.                   *)
LoopStarts ==
    /\ thread = "started" /\ thread' = "waiting"
    /\ state' = "running"
    /\ UNCHANGED <<gate, stopFlag, once, nap, command, invoke, positions, seen, granted, killed, late>>

WaitedForGate(place, goesOn) ==
    /\ thread = place /\ gate
    /\ thread' = IF stopFlag THEN "ending" ELSE goesOn

WaitedAnyway(place, goesOn) ==
    /\ thread = place
    /\ thread' = IF stopFlag THEN "ending" ELSE goesOn

(* wait_or_die returns when the gate is open or the stop flag is set.       *)
Waited(place, goesOn) ==
    /\ thread = place /\ (gate \/ stopFlag)
    /\ thread' = IF stopFlag THEN "ending" ELSE goesOn

LoopGoes ==
    /\ Waited("waiting", "queued") \/ Waited("sleeping", "polling")
    /\ UNCHANGED <<lifecycle, once, nap, command, invoke, positions, seen, granted, killed, late>>

(* run_once takes the lock for the whole cycle ...                          *)
CycleBegins ==
    /\ thread = "queued" /\ thread' = "cycle"
    /\ Take("loop")
    /\ late' = IF late = 2 THEN 2 ELSE late + 1
    /\ UNCHANGED <<lifecycle, once, nap, command, positions, seen, granted, killed>>

(* ... reconciles, which may close positions, and decides ...               *)
CycleDecides ==
    /\ thread = "cycle" /\ thread' = "gating"
    /\ positions' \in 0..positions
    /\ UNCHANGED <<lifecycle, once, nap, command, invoke, seen, granted, killed, late>>

(* ... gates the BUYs one after the other, each on the switch and on the    *)
(* rows of the store, where those let through before it are not yet ...     *)
CycleGates ==
    /\ thread = "gating" /\ granted < MaxBuys
    /\ granted' = IF positions < MaxPositions /\ ~killed THEN granted + 1 ELSE granted
    /\ UNCHANGED <<lifecycle, thread, once, nap, command, invoke, positions, seen, killed, late>>

(* ... and executes: what was let through is opened or fails, and positions *)
(* are closed.  A cycle may fail anywhere and counts; a loop of one cycle   *)
(* then ends.                                                               *)
CycleEnds ==
    /\ thread \in {"cycle", "gating"} /\ Release
    /\ positions' \in 0..(positions + granted) /\ granted' = 0
    /\ thread' = IF once THEN "ending" ELSE IF IntervalPolls > 0 THEN "sleeping" ELSE "waiting"
    /\ nap' = [remaining |-> IF once THEN 0 ELSE IntervalPolls, since |-> 0]
    /\ UNCHANGED <<lifecycle, once, command, seen, killed, late>>

AfterPoll(remaining) == IF remaining > 0 THEN "sleeping" ELSE IF stopFlag THEN "ending" ELSE "waiting"

LoopPollsAnew ==
    /\ thread = "polling"
    /\ IF stopFlag
         THEN thread' = "ending" /\ UNCHANGED nap
         ELSE LET due == nap.since + 1 >= TickPolls
              IN  /\ nap' = [nap EXCEPT !.since = IF due THEN 0 ELSE @ + 1]
                  /\ thread' = IF due THEN "tick" ELSE AfterPoll(nap.remaining)
    /\ UNCHANGED <<lifecycle, once, command, invoke, positions, seen, granted, killed, late>>

(* One poll of sleep_or_die: the stop flag is waited for and time passes.   *)
LoopPolls ==
    /\ thread = "polling"
    /\ IF stopFlag
         THEN thread' = "ending" /\ UNCHANGED nap
         ELSE LET due == nap.since + 1 >= TickPolls
              IN  /\ nap' = [remaining |-> nap.remaining - 1, since |-> IF due THEN 0 ELSE nap.since + 1]
                  /\ thread' = IF due THEN "tick" ELSE AfterPoll(nap.remaining - 1)
    /\ UNCHANGED <<lifecycle, once, command, invoke, positions, seen, granted, killed, late>>

(* _monitor_tick, and monitor_open_positions up to the lock.                *)
MonitorLooks ==
    /\ thread = "tick"
    /\ thread' = IF killed \/ positions = 0 THEN AfterPoll(nap.remaining) ELSE "monitoring"
    /\ UNCHANGED <<lifecycle, once, nap, command, invoke, positions, seen, granted, killed, late>>

(* The reconcile under the lock: exits may complete.                        *)
MonitorActs ==
    /\ thread = "monitoring" /\ invoke = "nobody"
    /\ positions' \in 0..positions
    /\ thread' = AfterPoll(nap.remaining)
    /\ UNCHANGED <<lifecycle, once, nap, command, invoke, seen, granted, killed, late>>

(* The store fails outside a cycle: the handler of the whole loop.          *)
LoopCrashes ==
    /\ thread \in {"started", "queued", "tick"} /\ thread' = "ending"
    /\ UNCHANGED <<lifecycle, once, nap, command, invoke, positions, seen, granted, killed, late>>

(* stopped(), and the thread ends.                                          *)
LoopEnds ==
    /\ thread = "ending" /\ thread' = "none"
    /\ state' = "stopped"
    /\ UNCHANGED <<gate, stopFlag, once, nap, command, invoke, positions, seen, granted, killed, late>>

-----------------------------------------------------------------------------

Operator ==
    \/ \E single \in BOOLEAN : CmdRun(single)
    \/ Joined \/ CmdPause \/ CmdResume \/ CmdStop \/ Leave \/ CmdKill
    \/ Chat \/ OperatorBuys \/ OperatorPlaces \/ OperatorSells

LoopRuns ==
    \/ LoopStarts \/ CycleDecides \/ CycleGates \/ CycleEnds
    \/ LoopPolls \/ MonitorLooks \/ LoopCrashes \/ LoopEnds

RuntimeNext == Operator \/ OrdersSynced \/ LoopRuns \/ LoopGoes \/ CycleBegins \/ MonitorActs

(***************************************************************************)
(* The loop's thread runs, cycles and monitor ticks return, and a command  *)
(* that has begun goes on.  The lock has no queue, but a person types       *)
(* between two holds of the operator: the loop gets it in the end.  Setting *)
(* an event wakes the thread that waits for it, even if it is cleared at    *)
(* once.                                                                   *)
(***************************************************************************)
RuntimeFairness ==
    /\ WF_runtimeVars(LoopRuns)
    /\ SF_runtimeVars(LoopGoes)
    /\ SF_runtimeVars(CycleBegins)
    /\ SF_runtimeVars(MonitorActs)
    /\ WF_runtimeVars(command # "ready" /\ (CmdPause \/ CmdResume \/ CmdStop \/ Leave \/ Joined
                                            \/ Chat \/ OperatorBuys \/ OperatorPlaces \/ OperatorSells))

RuntimeSpec == RuntimeInit /\ [][RuntimeNext]_runtimeVars /\ RuntimeFairness

-----------------------------------------------------------------------------

RuntimeTypeOK ==
    /\ state \in AgentStates /\ gate \in BOOLEAN /\ stopFlag \in BOOLEAN
    /\ thread \in ThreadStates /\ once \in BOOLEAN
    /\ nap \in [remaining : 0..IntervalPolls, since : 0..TickPolls]
    /\ command \in CommandStates /\ invoke \in {"nobody", "loop", "operator"}
    /\ positions \in Nat /\ seen \in Nat /\ granted \in 0..MaxBuys /\ killed \in BOOLEAN /\ late \in 0..2

(***************************************************************************)
(* Whichever thread opens positions, the cap leaves room for one at that   *)
(* moment: a cycle and an operator's order place under the lock they were  *)
(* gated under, and what does not take it only closes.  (That one cycle    *)
(* may open several when there is room for one is shown by DecisionCycle.) *)
(***************************************************************************)
OpensBelowCap == [][positions' > positions => positions < MaxPositions]_runtimeVars

(***************************************************************************)
(* A loop that is held at the gate can be let go: /resume acts only on the *)
(* state PAUSED, which stopped(), running() and a late pause() overwrite.  *)
(***************************************************************************)
HeldCanResume ==
    (thread \notin {"none", "ending"} /\ ~gate /\ command = "ready") => state = "paused"

(***************************************************************************)
(* Once told to pause or to stop, the loop begins at most the cycle it had *)
(* been let into.                                                          *)
(***************************************************************************)
SafeBoundary == (~gate \/ stopFlag) => late <= 1

(***************************************************************************)
(* A stop always ends the loop, paused, asleep or waiting for a chat.      *)
(***************************************************************************)
StopEnds == (thread # "none" /\ stopFlag) ~> (thread = "none")

(***************************************************************************)
(* Unless the loop is held at the gate, a position open while it sleeps is *)
(* looked at again, by the monitor or by a cycle.                          *)
(***************************************************************************)
Watching == thread \in {"cycle", "gating", "monitoring"} \/ positions = 0 \/ thread = "none"
WatchedUnlessHeld == (thread = "sleeping" /\ positions > 0) ~> (Watching \/ ~gate)

=============================================================================
