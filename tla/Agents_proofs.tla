----------------------------- MODULE Agents_proofs -----------------------------
(***************************************************************************)
(* What holds, for every value of the constants, of the parts that decide  *)
(* when the agent runs: the console of one process (AgentRuntime), the     *)
(* runners that share a store (AgentProcesses) and the graph of one cycle  *)
(* (CycleGraph).  They share no variable, and each is proved about on its  *)
(* own.                                                                    *)
(***************************************************************************)
EXTENDS AgentRuntime, AgentProcesses, CycleGraph, SumLemmas, TLAPS

-----------------------------------------------------------------------------
(***************************************************************************)
(* Part 1.  The console: two threads, two events and a lock.               *)
(*                                                                         *)
(*   LockHeld      who holds the invocation lock is who is in a section    *)
(*                 that needs it;                                          *)
(*   SeenFresh     nothing opens a position under the feet of the          *)
(*                 operator's buy: there are at most those it has read;    *)
(*   GrantsFresh   what the gate of a cycle has let through, it let        *)
(*                 through when there was room, and nobody has opened      *)
(*                 anything since;                                         *)
(*   NapLeft       the loop sleeps only while something of the interval    *)
(*                 is left;                                                *)
(*   GateOpen      a loop that starts finds the gate open, and no pause or *)
(*                 resume that was begun before it is still on its way;    *)
(*   GateHeld      a closed gate says so in the state, but for the two     *)
(*                 steps between the event and the state;                  *)
(*   Boundary      a loop that waits for the lock has been let through     *)
(*                 once at most since it was told to pause or to stop.     *)
(***************************************************************************)
LockHeld ==
    /\ invoke = "loop" <=> thread \in {"cycle", "gating"}
    /\ invoke = "operator" <=> command \in {"thinking", "placing"}

SeenFresh == command = "placing" => positions <= seen

GrantsFresh == granted > 0 => thread = "gating" /\ positions < MaxPositions

NapLeft == thread \in {"sleeping", "polling"} => nap.remaining > 0

GateOpen ==
    /\ thread = "started" =>
         /\ gate /\ state \in {"starting", "stopping"}
         /\ command \notin {"pausing", "closing", "resuming", "opening"}
    /\ command = "opening" => gate

GateHeld ==
    (thread \notin {"none", "ending"} /\ ~gate /\ command \notin {"closing", "raising"})
        => state = "paused"

Boundary ==
    (~gate \/ stopFlag) => late <= 1 /\ (thread = "queued" => late = 0)

RuntimeInv ==
    /\ RuntimeTypeOK
    /\ LockHeld /\ SeenFresh /\ GrantsFresh
    /\ NapLeft /\ GateOpen /\ GateHeld /\ Boundary

-----------------------------------------------------------------------------

LEMMA InitRuntime == RuntimeInit => RuntimeInv
<1> SUFFICES ASSUME RuntimeInit PROVE RuntimeInv
  OBVIOUS
<1> USE RuntimeAssumption DEF RuntimeAssumption, RuntimeInit
<1>1. gate \in BOOLEAN /\ stopFlag \in BOOLEAN /\ once \in BOOLEAN
  BY Zenon
<1>2. RuntimeTypeOK
  BY <1>1 DEF RuntimeTypeOK, AgentStates, ThreadStates, CommandStates
<1>3. LockHeld /\ SeenFresh /\ GrantsFresh /\ NapLeft /\ GateOpen /\ GateHeld /\ Boundary
  BY DEF LockHeld, SeenFresh, GrantsFresh, NapLeft, GateOpen, GateHeld, Boundary
<1> QED
  BY <1>2, <1>3 DEF RuntimeInv

(***************************************************************************)
(* The commands of the operator, one lemma for those that act on the       *)
(* lifecycle and one for the conversation, which takes the lock.           *)
(***************************************************************************)
LEMMA LifecycleKeeps ==
  ASSUME RuntimeInv,
         \/ \E single \in BOOLEAN : CmdRun(single)
         \/ Joined \/ CmdPause \/ CmdResume \/ CmdStop \/ Leave \/ CmdKill
  PROVE  RuntimeInv'
<1> USE RuntimeAssumption DEF RuntimeInv, RuntimeTypeOK, LockHeld, SeenFresh, GrantsFresh, NapLeft,
         GateOpen, GateHeld, Boundary, AgentStates, ThreadStates, CommandStates, lifecycle, Goto
<1>1. ASSUME NEW single \in BOOLEAN, CmdRun(single) PROVE RuntimeInv'
  <2>1. gate' \in BOOLEAN /\ stopFlag' \in BOOLEAN /\ once' \in BOOLEAN
    BY <1>1, Zenon DEF CmdRun
  <2>2. RuntimeTypeOK'
    BY <1>1, <2>1 DEF CmdRun
  <2>3. (LockHeld /\ SeenFresh /\ GrantsFresh /\ NapLeft)'
    BY <1>1 DEF CmdRun
  <2>4. (GateOpen /\ GateHeld /\ Boundary)'
    BY <1>1 DEF CmdRun
  <2> QED
    BY <2>2, <2>3, <2>4
<1>2. CASE Joined
  BY <1>2 DEF Joined
<1>3. CASE CmdPause
  <2>1. gate' \in BOOLEAN /\ stopFlag' \in BOOLEAN /\ once' \in BOOLEAN
    BY <1>3, Zenon DEF CmdPause
  <2>2. RuntimeTypeOK'
    BY <1>3, <2>1 DEF CmdPause
  <2>3. (LockHeld /\ SeenFresh /\ GrantsFresh /\ NapLeft)'
    BY <1>3 DEF CmdPause
  <2>4. (GateOpen /\ GateHeld /\ Boundary)'
    BY <1>3 DEF CmdPause
  <2> QED
    BY <2>2, <2>3, <2>4
<1>4. CASE CmdResume
  <2>1. gate' \in BOOLEAN /\ stopFlag' \in BOOLEAN /\ once' \in BOOLEAN
    BY <1>4, Zenon DEF CmdResume
  <2>2. RuntimeTypeOK'
    BY <1>4, <2>1 DEF CmdResume
  <2>3. (LockHeld /\ SeenFresh /\ GrantsFresh /\ NapLeft)'
    BY <1>4 DEF CmdResume
  <2>4. (GateOpen /\ GateHeld /\ Boundary)'
    BY <1>4 DEF CmdResume
  <2> QED
    BY <2>2, <2>3, <2>4
<1>5. CASE CmdStop
  <2>1. gate' \in BOOLEAN /\ stopFlag' \in BOOLEAN /\ once' \in BOOLEAN
    BY <1>5, Zenon DEF CmdStop, Stopped
  <2>2. RuntimeTypeOK'
    BY <1>5, <2>1 DEF CmdStop, Stopped
  <2>3. (LockHeld /\ SeenFresh /\ GrantsFresh /\ NapLeft)'
    BY <1>5 DEF CmdStop, Stopped
  <2>4. (GateOpen /\ GateHeld /\ Boundary)'
    BY <1>5 DEF CmdStop, Stopped
  <2> QED
    BY <2>2, <2>3, <2>4
<1>6. CASE Leave
  BY <1>6 DEF Leave
<1>7. CASE CmdKill
  BY <1>7 DEF CmdKill
<1> QED
  BY <1>1, <1>2, <1>3, <1>4, <1>5, <1>6, <1>7

LEMMA ConversationKeeps ==
  ASSUME RuntimeInv, Chat \/ OperatorBuys \/ OperatorPlaces \/ OperatorSells
  PROVE  RuntimeInv'
<1> USE RuntimeAssumption DEF RuntimeInv, RuntimeTypeOK, LockHeld, SeenFresh, GrantsFresh, NapLeft,
         GateOpen, GateHeld, Boundary, AgentStates, ThreadStates, CommandStates, lifecycle, Goto
<1>1. CASE Chat
  BY <1>1 DEF Chat, Take, Release
<1>2. CASE OperatorBuys
  BY <1>2 DEF OperatorBuys, Take
<1>3. CASE OperatorPlaces
  BY <1>3 DEF OperatorPlaces, Release
<1>4. CASE OperatorSells
  BY <1>4 DEF OperatorSells
<1> QED
  BY <1>1, <1>2, <1>3, <1>4

(* The thread of the loop: its waits, its cycles, its sleep, the monitor;  *)
(* and the reconciles that take no lock.                                   *)
LEMMA LoopKeeps ==
  ASSUME RuntimeInv, LoopRuns \/ LoopGoes \/ CycleBegins \/ MonitorActs \/ OrdersSynced
  PROVE  RuntimeInv'
<1> USE RuntimeAssumption DEF RuntimeInv, RuntimeTypeOK, LockHeld, SeenFresh, GrantsFresh, NapLeft,
         GateOpen, GateHeld, Boundary, AgentStates, ThreadStates, CommandStates, lifecycle
<1>1. CASE LoopStarts
  BY <1>1 DEF LoopStarts
<1>2. CASE CycleEnds
  <2>1. positions' \in Nat /\ granted' = 0
    BY <1>2 DEF CycleEnds
  <2>2. nap' \in [remaining : 0..IntervalPolls, since : 0..TickPolls]
    BY <1>2 DEF CycleEnds
  <2>3. thread' = "sleeping" => nap'.remaining > 0
    BY <1>2 DEF CycleEnds
  <2> QED
    BY <1>2, <2>1, <2>2, <2>3 DEF CycleEnds, Release
<1>3. CASE LoopPolls
  <2>1. CASE stopFlag
    BY <1>3, <2>1 DEF LoopPolls
  <2>2. CASE ~stopFlag
    <3>1. nap' \in [remaining : 0..IntervalPolls, since : 0..TickPolls] /\ nap'.remaining = nap.remaining - 1
      BY <1>3, <2>2 DEF LoopPolls
    <3>2. /\ thread' \in {"tick", "sleeping", "ending", "waiting"}
          /\ thread' = "sleeping" => nap'.remaining > 0
      BY <1>3, <2>2, <3>1 DEF LoopPolls, AfterPoll
    <3> QED
      BY <1>3, <2>2, <3>1, <3>2 DEF LoopPolls
  <2> QED
    BY <2>1, <2>2
<1>4. CASE MonitorLooks
  BY <1>4 DEF MonitorLooks, AfterPoll
<1>5. CASE LoopCrashes
  BY <1>5 DEF LoopCrashes
<1>6. CASE LoopEnds
  BY <1>6 DEF LoopEnds
<1>7. CASE LoopGoes
  BY <1>7 DEF LoopGoes, Waited
<1>8. CASE CycleBegins
  BY <1>8 DEF CycleBegins, Take
<1>9. CASE MonitorActs
  BY <1>9 DEF MonitorActs, AfterPoll
<1>10. CASE CycleDecides
  BY <1>10 DEF CycleDecides
<1>11. CASE CycleGates
  BY <1>11 DEF CycleGates
<1>12. CASE OrdersSynced
  BY <1>12 DEF OrdersSynced
<1> QED
  BY <1>1, <1>2, <1>3, <1>4, <1>5, <1>6, <1>7, <1>8, <1>9, <1>10, <1>11, <1>12 DEF LoopRuns

LEMMA NextRuntime == RuntimeInv /\ [RuntimeNext]_runtimeVars => RuntimeInv'
<1> SUFFICES ASSUME RuntimeInv, [RuntimeNext]_runtimeVars PROVE RuntimeInv'
  OBVIOUS
<1>1. CASE Operator
  BY <1>1, LifecycleKeeps, ConversationKeeps DEF Operator
<1>2. CASE LoopRuns \/ LoopGoes \/ CycleBegins \/ MonitorActs \/ OrdersSynced
  BY <1>2, LoopKeeps
<1>3. CASE UNCHANGED runtimeVars
  BY <1>3 DEF runtimeVars, lifecycle, RuntimeInv, RuntimeTypeOK, LockHeld, SeenFresh, GrantsFresh,
              NapLeft, GateOpen, GateHeld, Boundary
<1> QED
  BY <1>1, <1>2, <1>3 DEF RuntimeNext

(***************************************************************************)
(* Every behaviour of the console keeps the invariant: types, the lock and *)
(* what its holder has read, the gate and the state, the boundary.         *)
(***************************************************************************)
THEOREM ConsoleSound == RuntimeSpec => []RuntimeInv
  BY InitRuntime, NextRuntime, PTL DEF RuntimeSpec

(***************************************************************************)
(* The agent loop and the operator never stack openings: whichever of them *)
(* holds SupervisorRuntime._invoke_lock opens positions only while there   *)
(* are fewer than the cap, whatever the reconciles outside the lock close  *)
(* between its gate and its orders.                                        *)
(***************************************************************************)
THEOREM CapHolds == RuntimeSpec => OpensBelowCap
<1>1. RuntimeInv /\ [RuntimeNext]_runtimeVars => [positions' > positions => positions < MaxPositions]_runtimeVars
  <2> SUFFICES ASSUME RuntimeInv, RuntimeNext, positions' > positions PROVE positions < MaxPositions
    OBVIOUS
  <2> USE RuntimeAssumption DEF RuntimeAssumption, RuntimeInv, RuntimeTypeOK
  <2>1. CASE CycleEnds
    <3>1. granted > 0
      BY <2>1 DEF CycleEnds
    <3> QED
      BY <3>1 DEF GrantsFresh
  <2>2. CASE OperatorPlaces
    BY <2>2 DEF OperatorPlaces, Goto, SeenFresh
  <2>3. CASE Operator /\ ~OperatorPlaces
    <3>1. positions' = positions \/ OperatorSells
      BY <2>3 DEF Operator, CmdRun, Joined, CmdPause, CmdResume, CmdStop, Leave, CmdKill, Chat, OperatorBuys
    <3> QED
      BY <3>1 DEF OperatorSells
  <2>4. CASE LoopRuns /\ ~CycleEnds
    BY <2>4 DEF LoopRuns, LoopStarts, CycleDecides, CycleGates, LoopPolls, MonitorLooks, LoopCrashes, LoopEnds
  <2>5. CASE OrdersSynced \/ LoopGoes \/ CycleBegins \/ MonitorActs
    BY <2>5 DEF OrdersSynced, LoopGoes, CycleBegins, MonitorActs
  <2> QED
    BY <2>1, <2>2, <2>3, <2>4, <2>5 DEF RuntimeNext
<1> QED
  BY <1>1, ConsoleSound, PTL DEF RuntimeSpec, OpensBelowCap

(***************************************************************************)
(* /resume, which acts only on the state PAUSED, can always let go a loop  *)
(* that is held at the gate: no interleaving of pause(), running() and     *)
(* stopped() leaves the gate closed under another state.                   *)
(***************************************************************************)
THEOREM ResumeWorks == RuntimeSpec => []HeldCanResume
<1>1. RuntimeInv => HeldCanResume
  BY DEF RuntimeInv, GateHeld, HeldCanResume
<1> QED
  BY <1>1, ConsoleSound, PTL

(***************************************************************************)
(* Told to pause or to stop, the loop begins at most the one cycle it had  *)
(* been let into, however long that one waited for the lock.               *)
(***************************************************************************)
THEOREM BoundaryHolds == RuntimeSpec => []SafeBoundary
<1>1. RuntimeInv => SafeBoundary
  BY DEF RuntimeInv, Boundary, SafeBoundary
<1> QED
  BY <1>1, ConsoleSound, PTL

-----------------------------------------------------------------------------
(***************************************************************************)
(* Part 2.  The runners that share a store.                                *)
(*                                                                         *)
(* The lock that is stored is always owned by a runner that has yet to     *)
(* release it, or that was killed: a takeover gives the lock to a runner   *)
(* in its loop, and whoever deletes the lock, its own or (after a takeover *)
(* between the read and the delete) another's, leaves none.                *)
(***************************************************************************)
HoldsOn == InLoop \cup {"releasing", "deleting", "crashed"}

OwnerHoldsOn == lock # NoLock => runner[lock.owner].at \in HoldsOn

(* The part of ProcessTypeOK that the lock depends on: where a runner is.   *)
RunnersTyped ==
    /\ DOMAIN runner = Runners /\ runner = [r \in Runners |-> runner[r]]
    /\ \A r \in Runners : /\ DOMAIN runner[r] = {"at", "left", "failures", "nap"}
                          /\ runner[r] = [f \in {"at", "left", "failures", "nap"} |-> runner[r][f]]

LockInv ==
    /\ lock \in Locks \cup {NoLock}
    /\ RunnersTyped
    /\ OwnerHoldsOn

LEMMA InitLock == ProcessInit => LockInv
  BY DEF ProcessInit, LockInv, RunnersTyped, OwnerHoldsOn

(* A step of one runner that changes some of its fields leaves the others   *)
(* where they were.                                                         *)
LEMMA Moves ==
  ASSUME RunnersTyped, NEW r \in Runners, NEW place, Move(r, place)
  PROVE  /\ RunnersTyped'
         /\ runner'[r].at = place
         /\ \A q \in Runners : q # r => runner'[q] = runner[q]
  BY DEF RunnersTyped, Move

LEMMA RunsKeepsLock ==
  ASSUME LockInv, NEW r \in Runners, Runs(r) \/ Crashes(r)
  PROVE  LockInv'
<1> USE DEF LockInv, OwnerHoldsOn, HoldsOn, InLoop
<1>1. CASE LooksAtLock(r)
  BY <1>1, Moves DEF LooksAtLock, Locks
<1>2. CASE TakesLock(r)
  <2>1. lock' \in Locks
    BY <1>2, ProcessAssumption DEF TakesLock, Locks, ProcessAssumption
  <2>2. lock'.owner = r
    BY <1>2 DEF TakesLock
  <2> QED
    BY <1>2, <2>1, <2>2, Moves DEF TakesLock
<1>3. CASE TopOfLoop(r)
  BY <1>3, Moves DEF TopOfLoop, Locks
<1>4. CASE RunsCycle(r)
  <2>1. PICK failures \in {0, runner[r].failures + 1} :
          runner' = [runner EXCEPT ![r].at = "after", ![r].failures = Least(failures, MaxFailures)]
    BY <1>4 DEF RunsCycle
  <2> HIDE DEF Least
  <2>2. RunnersTyped' /\ runner'[r].at = "after" /\ \A q \in Runners : q # r => runner'[q] = runner[q]
    BY <2>1 DEF RunnersTyped
  <2> QED
    BY <1>4, <2>2 DEF RunsCycle, Locks
<1>5. CASE AfterCycle(r)
  <2>1. CASE Move(r, "releasing")
    BY <1>5, <2>1, Moves DEF AfterCycle, Locks
  <2>2. CASE runner' = [runner EXCEPT ![r].at = "asleep", ![r].nap = NapOf(r)]
    <3>1. RunnersTyped' /\ runner'[r].at = "asleep" /\ \A q \in Runners : q # r => runner'[q] = runner[q]
      BY <2>2 DEF RunnersTyped
    <3> QED
      BY <1>5, <3>1 DEF AfterCycle, Locks
  <2> QED
    BY <1>5, <2>1, <2>2 DEF AfterCycle
<1>6. CASE WakesUp(r)
  <2>1. RunnersTyped' /\ runner'[r].at = "top" /\ \A q \in Runners : q # r => runner'[q] = runner[q]
    BY <1>6 DEF WakesUp, RunnersTyped
  <2> QED
    BY <1>6, <2>1 DEF WakesUp, Locks
<1>7. CASE Releases(r)
  <2>1. CASE runner[r].at = "releasing" /\ UNCHANGED lock
    BY <1>7, <2>1, Moves DEF Releases, Locks
  <2>2. CASE runner[r].at = "deleting" /\ Move(r, "done") /\ lock' = NoLock
    BY <2>2, Moves
  <2> QED
    BY <1>7, <2>1, <2>2 DEF Releases
<1>8. CASE Crashes(r)
  BY <1>8, Moves DEF Crashes, Locks
<1> QED
  BY <1>1, <1>2, <1>3, <1>4, <1>5, <1>6, <1>7, <1>8 DEF Runs

LEMMA NextLock == LockInv /\ [ProcessNext]_processVars => LockInv'
<1> SUFFICES ASSUME LockInv, [ProcessNext]_processVars PROVE LockInv'
  OBVIOUS
<1>1. ASSUME NEW r \in Runners, Runs(r) \/ Crashes(r) PROVE LockInv'
  BY <1>1, RunsKeepsLock
<1>2. CASE AgentStop
  BY <1>2 DEF AgentStop, LockInv, RunnersTyped, OwnerHoldsOn
<1>3. CASE TimePasses
  <2>1. lock' \in Locks \cup {NoLock} /\ (lock' # NoLock => lock # NoLock /\ lock'.owner = lock.owner)
    <3>1. CASE lock = NoLock
      BY <1>3, <3>1 DEF TimePasses
    <3>2. CASE lock # NoLock
      <4>1. lock \in Locks
        BY <3>2 DEF LockInv
      <4>2. Least(lock.age + 1, StaleAfter) \in 0..StaleAfter
        BY <4>1, ProcessAssumption DEF Locks, Least, ProcessAssumption
      <4>3. lock' = [lock EXCEPT !.age = Least(lock.age + 1, StaleAfter)]
        BY <1>3, <3>2 DEF TimePasses
      <4> HIDE DEF Least
      <4>4. lock' \in Locks /\ lock'.owner = lock.owner
        BY <4>1, <4>2, <4>3 DEF Locks
      <4> QED
        BY <3>2, <4>4
    <3> QED
      BY <3>1, <3>2
  <2>2. RunnersTyped' /\ \A q \in Runners : runner'[q].at = runner[q].at
    <3> DEFINE older(x) == [x EXCEPT !.left = IF @ = Unlimited THEN @ ELSE Less(@), !.nap = Less(@)]
               fields == {"at", "left", "failures", "nap"}
    <3>1. runner' = [r \in Runners |-> IF runner[r].at \notin InLoop THEN runner[r] ELSE older(runner[r])]
      BY <1>3 DEF TimePasses
    <3>2. ASSUME NEW q \in Runners
          PROVE  /\ DOMAIN older(runner[q]) = fields
                 /\ older(runner[q]) = [f \in fields |-> older(runner[q])[f]]
                 /\ older(runner[q]).at = runner[q].at
      BY DEF LockInv, RunnersTyped
    <3> HIDE DEF older
    <3> QED
      BY <3>1, <3>2 DEF LockInv, RunnersTyped
  <2>3. lock # NoLock => lock.owner \in Runners
    BY DEF LockInv, Locks
  <2> QED
    BY <2>1, <2>2, <2>3 DEF LockInv, OwnerHoldsOn
<1>4. CASE UNCHANGED processVars
  BY <1>4 DEF processVars, LockInv, RunnersTyped, OwnerHoldsOn
<1> QED
  BY <1>1, <1>2, <1>3, <1>4 DEF ProcessNext

(***************************************************************************)
(* However many runners raced for the lock, took it over as stale or       *)
(* deleted one another's, no lock is left behind to refuse the next runner *)
(* once every runner has ended by itself.                                  *)
(***************************************************************************)
THEOREM NoLockLeftHolds == ProcessSpec => []NoLockLeft
<1>1. LockInv => NoLockLeft
  BY DEF LockInv, OwnerHoldsOn, HoldsOn, InLoop, NoLockLeft, Locks
<1> QED
  BY <1>1, InitLock, NextLock, PTL DEF ProcessSpec

-----------------------------------------------------------------------------
(***************************************************************************)
(* Part 3.  The graph of one cycle.                                        *)
(*                                                                         *)
(*   TierStands   from the classification to the gate, unless a row was    *)
(*                freed, a cycle that is not worth the full supervisor has *)
(*                a baseline that proposes nothing new, or no capacity for *)
(*                an entry;                                                *)
(*   GateQuiet    the gate of such a cycle lets no signal of the baseline  *)
(*                through;                                                 *)
(*   OpenedLast   only the execution opens anything.                       *)
(***************************************************************************)
AtRest == cycle.tier \in Quiet /\ ~cycle.freed

TierStands ==
    (node \in {"consult_agents", "parse_decision", "risk_gate"} /\ AtRest)
        => cycle.baseline \subseteq HeldIn(held) \/ ~HasCapacity(held)

GateQuiet == (node = "execute" /\ AtRest) => Bought \cap cycle.baseline = {}

OpenedLast == node # "report" => cycle.opened = {}

GraphInv ==
    /\ GraphTypeOK /\ StatusSettled
    /\ TierStands /\ GateQuiet /\ OpenedLast /\ QuietOpensNoSignal

(* What a classification into a quiet tier means.                          *)
LEMMA QuietTier ==
  ASSUME NEW book, NEW baseline, NEW alert
  PROVE  /\ TierOf(book, baseline, alert) \in Tiers
         /\ TierOf(book, baseline, alert) \in Quiet => baseline \subseteq HeldIn(book) \/ ~HasCapacity(book)
  BY DEF TierOf, Tiers, Quiet

(* What the gate lets through is what the classifier calls capacity.       *)
LEMMA AdmittedHasCapacity ==
  ASSUME IsFiniteSet(Symbols), held \in [Symbols -> {0} \cup Sizes],
         NEW s \in Symbols, NEW size \in Sizes, Admissible([symbol |-> s, action |-> "BUY"], size)
  PROVE  s \notin HeldIn(held) /\ HasCapacity(held)
<1>1. SumOf(held, Symbols) \in Nat
  <2>1. Sizes \subseteq Nat
    BY GraphAssumption DEF GraphAssumption
  <2>2. ASSUME NEW i \in Symbols PROVE held[i] \in Nat
    <3>1. held[i] \in {0} \cup Sizes
      OBVIOUS
    <3>2. CASE held[i] = 0
      BY <3>2
    <3>3. CASE held[i] \in Sizes
      BY <2>1, <3>3, Zenon
    <3> QED
      BY <3>1, <3>2, <3>3
  <2> QED
    BY <2>2, SumNat
<1>2. Exposure(held) \in Nat
  BY <1>1 DEF Exposure, SumOf
<1>3. /\ s \notin HeldIn(held) /\ Cardinality(HeldIn(held)) < MaxOpen
      /\ CorrelatedCap = 0 \/ Exposure(held) + size <= CorrelatedCap
  BY DEF Admissible
<1>4. size \in Nat /\ MinNotional \in Nat /\ CorrelatedCap \in Nat /\ MinNotional <= size
  BY GraphAssumption DEF GraphAssumption
<1>5. Exposure(held) + size <= CorrelatedCap => Exposure(held) + MinNotional <= CorrelatedCap
  BY <1>2, <1>4
<1> QED
  BY <1>3, <1>5 DEF HasCapacity

LEMMA InitGraph == GraphInit => GraphInv
<1> SUFFICES ASSUME GraphInit PROVE GraphInv
  OBVIOUS
<1> USE DEF GraphInit
<1>1. cadence \in [newDay : BOOLEAN, moved : BOOLEAN, due : BOOLEAN] /\ died \in BOOLEAN
  BY Zenon
<1>2. cycle \in [tier : Tiers, baseline : SUBSET Symbols, attempt : 0..(Attempts - 1), answer : Answers,
                 decisions : SUBSET Decisions, approved : SUBSET Decisions, opened : SUBSET Symbols, freed : BOOLEAN]
  BY GraphAssumption DEF NoCycle, NoAnswer, Answers, Tiers, GraphAssumption
<1>3. cycle.opened = {}
  BY DEF NoCycle
<1> HIDE DEF NoCycle
<1>4. GraphTypeOK
  BY <1>1, <1>2 DEF GraphTypeOK, Nodes, Statuses
<1> QED
  BY <1>3, <1>4 DEF GraphInv, StatusSettled, TierStands, GateQuiet, AtRest, OpenedLast, QuietOpensNoSignal

LEMMA BookReconciled ==
  ASSUME held \in [Symbols -> {0} \cup Sizes], NEW book \in Reconciled
  PROVE  book \in [Symbols -> {0} \cup Sizes]
  BY DEF Reconciled

LEMMA ParsedTyped ==
  ASSUME GraphTypeOK PROVE Parsed \in SUBSET Decisions
<1>1. FromBaseline \in SUBSET Decisions
  BY DEF FromBaseline, Decisions, Actions, GraphTypeOK
<1>2. ASSUME NEW symbols \in SUBSET Symbols PROVE WaitFor(symbols) \in SUBSET Decisions
  BY DEF WaitFor, Decisions, Actions
<1>3. Valid(cycle.answer) \in SUBSET Decisions
  BY DEF Valid, Decisions
<1>4. cycle.baseline \in SUBSET Symbols
  BY DEF GraphTypeOK
<1> QED
  BY <1>1, <1>2, <1>3, <1>4 DEF Parsed

(***************************************************************************)
(* One step per node of the graph.                                         *)
(***************************************************************************)
LEMMA PrepareKeeps ==
  ASSUME GraphInv, PrepareContext PROVE GraphInv'
<1>1. PICK book \in Reconciled, baseline \in SUBSET Symbols, alert \in BOOLEAN :
        /\ held' = book
        /\ cycle' = [cycle EXCEPT !.tier = TierOf(book, baseline, alert), !.baseline = baseline]
        /\ cadence' = Marked(TierOf(book, baseline, alert))
        /\ node' = IF TierOf(book, baseline, alert) = "SKIP" THEN "parse_decision" ELSE "consult_agents"
  BY DEF PrepareContext
<1> DEFINE tier == TierOf(book, baseline, alert)
<1>2. tier \in Tiers /\ (tier \in Quiet => baseline \subseteq HeldIn(book) \/ ~HasCapacity(book))
  BY QuietTier
<1>3. cadence' \in [newDay : BOOLEAN, moved : BOOLEAN, due : BOOLEAN]
  BY <1>1 DEF GraphInv, GraphTypeOK, Marked
<1>4. UNCHANGED <<mode, run, beat, died>> /\ node = "prepare_context"
  BY DEF PrepareContext
<1>5. book \in [Symbols -> {0} \cup Sizes]
  BY BookReconciled DEF GraphInv, GraphTypeOK
<1> HIDE DEF tier
<1>6. /\ cycle' \in [tier : Tiers, baseline : SUBSET Symbols, attempt : 0..(Attempts - 1), answer : Answers,
                     decisions : SUBSET Decisions, approved : SUBSET Decisions, opened : SUBSET Symbols, freed : BOOLEAN]
      /\ cycle'.tier = tier /\ cycle'.baseline = baseline /\ cycle'.opened = cycle.opened
  BY <1>1, <1>2 DEF GraphInv, GraphTypeOK, tier
<1>7. cycle'.opened = {}
  BY <1>4, <1>6 DEF GraphInv, OpenedLast
<1>8. node' \in {"parse_decision", "consult_agents"}
  BY <1>1
<1>9. GraphTypeOK'
  BY <1>1, <1>3, <1>4, <1>5, <1>6, <1>8 DEF GraphInv, GraphTypeOK, Nodes
<1>10. TierStands'
  BY <1>1, <1>2, <1>6 DEF TierStands, AtRest
<1> QED
  BY <1>7, <1>8, <1>9, <1>10 DEF GraphInv, StatusSettled, GateQuiet, OpenedLast, QuietOpensNoSignal

LEMMA MiddleKeeps ==
  ASSUME IsFiniteSet(Symbols), GraphInv, ConsultAgents \/ ParseDecision \/ RiskGate PROVE GraphInv'
<1>1. /\ node \in {"consult_agents", "parse_decision", "risk_gate"}
      /\ node' \in {"consult_agents", "parse_decision", "risk_gate", "execute", "report"}
      /\ UNCHANGED <<mode, cadence, held, run, beat, died>>
  BY DEF ConsultAgents, ParseDecision, RiskGate
<1>2. /\ cycle' \in [tier : Tiers, baseline : SUBSET Symbols, attempt : 0..(Attempts - 1), answer : Answers,
                     decisions : SUBSET Decisions, approved : SUBSET Decisions, opened : SUBSET Symbols, freed : BOOLEAN]
      /\ cycle'.tier = cycle.tier /\ cycle'.baseline = cycle.baseline /\ cycle'.opened = cycle.opened
      /\ cycle'.freed = cycle.freed
  <2>1. CASE ConsultAgents
    <3>1. CASE \E answer \in Answers : cycle' = [cycle EXCEPT !.answer = answer]
      BY <3>1 DEF GraphInv, GraphTypeOK
    <3>2. CASE cycle.attempt + 1 < Attempts /\ cycle' = [cycle EXCEPT !.attempt = @ + 1]
      BY <3>2, GraphAssumption DEF GraphInv, GraphTypeOK, GraphAssumption
    <3>3. CASE UNCHANGED cycle
      BY <3>3 DEF GraphInv, GraphTypeOK
    <3> QED
      BY <2>1, <3>1, <3>2, <3>3 DEF ConsultAgents
  <2>2. CASE ParseDecision
    <3>1. NoAnswer \in Answers /\ 0 \in 0..(Attempts - 1)
      BY GraphAssumption DEF NoAnswer, Answers, GraphAssumption
    <3> QED
      BY <2>2, <3>1, ParsedTyped DEF ParseDecision, GraphInv, GraphTypeOK
  <2>3. CASE RiskGate
    BY <2>3 DEF RiskGate, GraphInv, GraphTypeOK
  <2> QED
    BY <2>1, <2>2, <2>3
<1>3. GraphTypeOK'
  BY <1>1, <1>2 DEF GraphInv, GraphTypeOK, Nodes
<1>4. cycle'.opened = {}
  BY <1>1, <1>2 DEF GraphInv, OpenedLast
<1>5. TierStands'
  BY <1>1, <1>2 DEF GraphInv, TierStands, AtRest
<1>6. GateQuiet'
  <2>1. SUFFICES ASSUME RiskGate, AtRest, NEW d \in cycle'.approved, d.action = "BUY", d.symbol \in cycle.baseline
                 PROVE  FALSE
    BY <1>1, <1>2 DEF GateQuiet, AtRest, Bought, ConsultAgents, ParseDecision
  <2>2. PICK approved \in SUBSET {e \in cycle.decisions : \E size \in Sizes : Admissible(e, size)} :
          cycle' = [cycle EXCEPT !.approved = approved, !.decisions = {}]
    BY <2>1 DEF RiskGate
  <2>3. d \in cycle.decisions /\ \E size \in Sizes : Admissible(d, size)
    BY <2>1, <2>2 DEF GraphInv, GraphTypeOK
  <2>4. PICK size \in Sizes : Admissible(d, size)
    BY <2>3
  <2>5. d.symbol \in Symbols /\ Admissible([symbol |-> d.symbol, action |-> "BUY"], size)
    BY <2>1, <2>3, <2>4 DEF GraphInv, GraphTypeOK, Decisions, Admissible
  <2>6. d.symbol \notin HeldIn(held) /\ HasCapacity(held)
    BY <2>5, AdmittedHasCapacity DEF GraphInv, GraphTypeOK
  <2> QED
    BY <2>1, <2>6 DEF RiskGate, GraphInv, TierStands
<1> QED
  BY <1>1, <1>3, <1>4, <1>5, <1>6 DEF GraphInv, StatusSettled, OpenedLast, QuietOpensNoSignal

LEMMA ExecuteKeeps ==
  ASSUME GraphInv, Execute PROVE GraphInv'
<1>1. PICK placed \in SUBSET Bought, sold \in SUBSET Closed, size \in Sizes :
        /\ \A s \in placed : Admissible([symbol |-> s, action |-> "BUY"], size)
        /\ held' = [s \in Symbols |-> IF s \in placed THEN size ELSE IF s \in sold THEN 0 ELSE held[s]]
        /\ cycle' = [cycle EXCEPT !.opened = placed, !.approved = {}]
  BY DEF Execute
<1>2. node = "execute" /\ node' = "report" /\ UNCHANGED <<mode, cadence, run, beat, died>>
  BY DEF Execute
<1>3. placed \in SUBSET Symbols
  BY <1>1 DEF Bought, GraphInv, GraphTypeOK, Decisions
<1>4. /\ cycle' \in [tier : Tiers, baseline : SUBSET Symbols, attempt : 0..(Attempts - 1), answer : Answers,
                     decisions : SUBSET Decisions, approved : SUBSET Decisions, opened : SUBSET Symbols, freed : BOOLEAN]
      /\ cycle'.tier = cycle.tier /\ cycle'.baseline = cycle.baseline /\ cycle'.opened = placed
      /\ cycle'.freed = cycle.freed
  BY <1>1, <1>3 DEF GraphInv, GraphTypeOK
<1>5. held' \in [Symbols -> {0} \cup Sizes]
  BY <1>1 DEF GraphInv, GraphTypeOK
<1>6. GraphTypeOK'
  BY <1>2, <1>4, <1>5 DEF GraphInv, GraphTypeOK, Nodes
<1>7. QuietOpensNoSignal'
  BY <1>1, <1>2, <1>4 DEF GraphInv, GateQuiet, AtRest, QuietOpensNoSignal
<1> QED
  BY <1>2, <1>6, <1>7 DEF GraphInv, StatusSettled, TierStands, GateQuiet, AtRest, OpenedLast

(* A row that is freed on the way to the gate ends the claim; later or     *)
(* before the classification it changes nothing the claim is about.        *)
LEMMA FreedKeeps ==
  ASSUME GraphInv, RowsFreed PROVE GraphInv'
<1>1. /\ held' \in Reconciled /\ UNCHANGED <<mode, cadence, node, run, beat, died>>
      /\ cycle' = [cycle EXCEPT !.freed = @ \/ node \in {"consult_agents", "parse_decision", "risk_gate"}]
  BY DEF RowsFreed
<1>2. PICK freed \in BOOLEAN : freed = (cycle.freed \/ node \in {"consult_agents", "parse_decision", "risk_gate"})
  OBVIOUS
<1>3. /\ cycle' = [cycle EXCEPT !.freed = freed]
      /\ cycle' \in [tier : Tiers, baseline : SUBSET Symbols, attempt : 0..(Attempts - 1), answer : Answers,
                     decisions : SUBSET Decisions, approved : SUBSET Decisions, opened : SUBSET Symbols, freed : BOOLEAN]
      /\ \A field \in {"tier", "baseline", "approved", "opened"} : cycle'[field] = cycle[field]
      /\ cycle'.freed = freed
  BY <1>1, <1>2 DEF GraphInv, GraphTypeOK
<1>4. GraphTypeOK'
  BY <1>1, <1>3, BookReconciled DEF GraphInv, GraphTypeOK
<1>5. (TierStands /\ GateQuiet)'
  BY <1>1, <1>2, <1>3 DEF GraphInv, TierStands, GateQuiet, AtRest, Bought
<1>6. (StatusSettled /\ OpenedLast /\ QuietOpensNoSignal)'
  BY <1>1, <1>2, <1>3 DEF GraphInv, StatusSettled, OpenedLast, QuietOpensNoSignal
<1> QED
  BY <1>4, <1>5, <1>6 DEF GraphInv

LEMMA EndsKeep ==
  ASSUME GraphInv, Report \/ Fails \/ Dies \/ StartCycle \/ WorldMoves PROVE GraphInv'
<1>1. /\ NoCycle \in [tier : Tiers, baseline : SUBSET Symbols, attempt : 0..(Attempts - 1), answer : Answers,
                      decisions : SUBSET Decisions, approved : SUBSET Decisions, opened : SUBSET Symbols, freed : BOOLEAN]
      /\ NoCycle.tier = "FULL" /\ NoCycle.opened = {}
  BY GraphAssumption DEF NoCycle, NoAnswer, Answers, Tiers, GraphAssumption
<1> HIDE DEF NoCycle
<1>2. CASE Report \/ Fails
  BY <1>1, <1>2 DEF Report, Fails, GraphInv, GraphTypeOK, StatusSettled, TierStands, GateQuiet, AtRest, OpenedLast,
                    QuietOpensNoSignal, Nodes, Statuses
<1>3. CASE Dies
  <2>1. died' \in BOOLEAN /\ died'
    BY <1>3, Zenon DEF Dies
  <2> QED
    BY <1>1, <1>3, <2>1 DEF Dies, GraphInv, GraphTypeOK, StatusSettled, TierStands, GateQuiet, AtRest, OpenedLast,
                            QuietOpensNoSignal, Nodes
<1>4. CASE StartCycle
  BY <1>4 DEF StartCycle, GraphInv, GraphTypeOK, StatusSettled, TierStands, GateQuiet, AtRest, OpenedLast,
              QuietOpensNoSignal, Nodes, Statuses
<1>5. CASE WorldMoves
  <2>1. cadence' \in [newDay : BOOLEAN, moved : BOOLEAN, due : BOOLEAN]
    BY <1>5 DEF WorldMoves, GraphInv, GraphTypeOK
  <2> QED
    BY <1>5, <2>1 DEF WorldMoves, GraphInv, GraphTypeOK, StatusSettled, TierStands, GateQuiet, AtRest, OpenedLast, QuietOpensNoSignal
<1> QED
  BY <1>2, <1>3, <1>4, <1>5

LEMMA NextGraph ==
  ASSUME IsFiniteSet(Symbols) PROVE GraphInv /\ [GraphNext]_graphVars => GraphInv'
<1> SUFFICES ASSUME GraphInv, [GraphNext]_graphVars PROVE GraphInv'
  OBVIOUS
<1>1. CASE GraphNodes
  BY <1>1, PrepareKeeps, MiddleKeeps, ExecuteKeeps, EndsKeep DEF GraphNodes
<1>2. CASE StartCycle \/ Fails \/ Dies \/ WorldMoves
  BY <1>2, EndsKeep
<1>3. CASE RowsFreed
  BY <1>3, FreedKeeps
<1>4. CASE UNCHANGED graphVars
  BY <1>4 DEF graphVars, Bought, GraphInv, GraphTypeOK, StatusSettled, TierStands, GateQuiet, AtRest, OpenedLast, QuietOpensNoSignal
<1> QED
  BY <1>1, <1>2, <1>3, <1>4 DEF GraphNext

(***************************************************************************)
(* A cycle that classify_cycle did not find worth the full supervisor      *)
(* opens none of what the baseline proposed, whatever the symbols, the     *)
(* caps, the sizes and the answers of the model, unless some row was freed *)
(* between the classifier and the gate, which reads the rows anew: what    *)
(* the classifier calls capacity is what a smallest order needs.           *)
(***************************************************************************)
THEOREM QuietHolds ==
  ASSUME IsFiniteSet(Symbols) PROVE GraphSpec => []QuietOpensNoSignal
<1>1. GraphInv => QuietOpensNoSignal
  BY DEF GraphInv
<1>2. GraphInv /\ [GraphNext]_graphVars => GraphInv'
  BY NextGraph
<1> QED
  BY <1>1, <1>2, InitGraph, PTL DEF GraphSpec

(***************************************************************************)
(* Between cycles the row of agent_runs and the heartbeat are settled and  *)
(* agree, however the last cycle ended, unless a process died in it.       *)
(***************************************************************************)
THEOREM StatusHolds == GraphSpec => []StatusSettled
<1>1. GraphInit => StatusSettled
  BY DEF GraphInit, StatusSettled
<1>2. ASSUME StatusSettled, [GraphNext]_graphVars PROVE StatusSettled'
  <2>1. CASE StartCycle \/ GraphNodes
    BY <1>2, <2>1 DEF StatusSettled, StartCycle, GraphNodes, PrepareContext, ConsultAgents, ParseDecision,
                      RiskGate, Execute, Report
  <2>2. CASE Fails
    BY <1>2, <2>2 DEF StatusSettled, Fails
  <2>3. CASE Dies
    BY <2>3, Zenon DEF StatusSettled, Dies
  <2>4. CASE WorldMoves \/ RowsFreed \/ UNCHANGED graphVars
    BY <1>2, <2>4 DEF StatusSettled, WorldMoves, RowsFreed, graphVars
  <2> QED
    BY <1>2, <2>1, <2>2, <2>3, <2>4 DEF GraphNext
<1> QED
  BY <1>1, <1>2, PTL DEF GraphSpec

=============================================================================
