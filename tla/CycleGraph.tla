------------------------------ MODULE CycleGraph ------------------------------
(***************************************************************************)
(* One decision cycle as a graph of nodes: prepare_context, the cost tier  *)
(* it classifies the cycle into, the consultation of the supervisor, what  *)
(* is made of its answer, the gate, the execution and the report           *)
(* (graph/nodes.py, graph/edges.py, graph/cadence.py, core/decision.py).   *)
(* DecisionCycle has the gate and the execution in detail.                 *)
(*                                                                         *)
(*   - mode: whether the LLM supervisor is enabled, whether the cost tiers *)
(*     are, and whether there is a model for REVIEW;                       *)
(*   - cadence: the settings of the classifier, as it reads them: whether  *)
(*     this is a new day, whether prices have moved since the last         *)
(*     supervised marks and whether a periodic review is due;              *)
(*   - held: the notional of the open rows of each symbol, 0 for none;     *)
(*   - node: the node that runs next; cycle: the state the nodes pass on,  *)
(*     and whether a row was freed between the classifier and the gate;    *)
(*   - run, beat: the status of the agent_runs row and of the heartbeat;   *)
(*     died: a process ended without settling its row.                     *)
(*                                                                         *)
(* The supervisor is a model: it may answer anything or fail.              *)
(***************************************************************************)
EXTENDS Naturals, FiniteSets, FiniteSetsExt

CONSTANTS
    Symbols,
    MaxOpen,                  \* RiskConfig.max_open_positions
    CorrelatedCap,            \* RiskConfig.max_correlated_notional_usd, 0 when disabled
    MinNotional,              \* SizingConfig.min_notional_usd
    Sizes,                    \* what conviction_size may give
    Attempts                  \* consult_agents: attempts at the supervisor

ASSUME GraphAssumption ==
    /\ {MaxOpen, CorrelatedCap, MinNotional, Attempts} \subseteq Nat
    /\ Attempts > 0
    /\ Sizes \subseteq Nat /\ \A size \in Sizes : size > 0 /\ size >= MinNotional

VARIABLES mode, cadence, held, node, cycle, run, beat, died

graphVars == <<mode, cadence, held, node, cycle, run, beat, died>>

Nodes == {"idle", "prepare_context", "consult_agents", "parse_decision", "risk_gate", "execute", "report"}
Tiers == {"FULL", "REVIEW", "SKIP"}
Statuses == {"none", "running", "completed", "failed"}
Actions == {"BUY", "CLOSE", "ADJUST", "WAIT"}
Decisions == [symbol : Symbols, action : Actions]

(***************************************************************************)
(* absent   no decision of the answer is about the symbol                  *)
(* invalid  one that the schema rejects, as a BUY that lacks consultations *)
(***************************************************************************)
Answers == [Symbols -> Actions \cup {"absent", "invalid"}]
NoAnswer == [s \in Symbols |-> "absent"]

NoCycle == [tier |-> "FULL", baseline |-> {}, attempt |-> 0, answer |-> NoAnswer,
            decisions |-> {}, approved |-> {}, opened |-> {}, freed |-> FALSE]

HeldIn(book) == {s \in Symbols : book[s] > 0}
Exposure(book) == MapThenSumSet(LAMBDA s : book[s], Symbols)

GraphInit ==
    /\ mode \in [supervised : BOOLEAN, tiers : BOOLEAN, quietModel : BOOLEAN]
    /\ cadence = [newDay |-> TRUE, moved |-> FALSE, due |-> TRUE]
    /\ held \in [Symbols -> {0}]
    /\ node = "idle" /\ cycle = NoCycle
    /\ run = "none" /\ beat = "none" /\ died = FALSE

-----------------------------------------------------------------------------

HasSpareCapacity(book) ==
    /\ Cardinality(HeldIn(book)) + 1 < MaxOpen
    /\ CorrelatedCap = 0 \/ Exposure(book) + MinNotional <= CorrelatedCap

(* has_entry_capacity: a slot and headroom for the smallest order.          *)
HasCapacity(book) ==
    /\ Cardinality(HeldIn(book)) < MaxOpen
    /\ CorrelatedCap = 0 \/ Exposure(book) + MinNotional <= CorrelatedCap

Tiered == mode.supervised /\ mode.tiers

TierOfUnreviewed(book, baseline, alert) ==
    IF ~Tiered THEN "FULL"
    ELSE IF baseline \ HeldIn(book) # {} /\ HasCapacity(book) THEN "FULL"
    ELSE IF cadence.newDay THEN "FULL"
    ELSE IF alert THEN (IF mode.quietModel THEN "REVIEW" ELSE "SKIP")
    ELSE IF cadence.moved THEN "FULL"
    ELSE "SKIP"

(* classify_cycle; alert: a held position is near its bracket or its PnL is *)
(* beyond the band.  Without the supervisor there is nothing to save.       *)
TierOf(book, baseline, alert) ==
    IF ~Tiered THEN "FULL"
    ELSE IF baseline \ HeldIn(book) # {} /\ HasCapacity(book) THEN "FULL"
    ELSE IF cadence.newDay THEN "FULL"
    ELSE IF alert THEN (IF mode.quietModel THEN "REVIEW" ELSE "SKIP")
    ELSE IF cadence.moved THEN "FULL"
    ELSE IF HeldIn(book) # {} /\ mode.quietModel /\ cadence.due THEN "REVIEW"
    ELSE "SKIP"

(* The settings are written before the supervisor is asked.                 *)
Marked(tier) ==
    IF tier = "SKIP" \/ ~Tiered THEN cadence
    ELSE [newDay |-> cadence.newDay /\ tier # "FULL", moved |-> FALSE, due |-> FALSE]

StartCycle ==
    /\ node = "idle"
    /\ node' = "prepare_context"
    /\ run' = "running" /\ beat' = "running"
    /\ UNCHANGED <<mode, cadence, held, cycle, died>>

(* A reconcile may close positions and discard entries.                     *)
Reconciled == {[s \in Symbols |-> IF s \in gone THEN 0 ELSE held[s]] : gone \in SUBSET HeldIn(held)}

(* Those outside the lock do so at any time: /orders, another process, the  *)
(* sync tool of the supervisor.                                             *)
RowsFreed ==
    /\ held' \in Reconciled \ {held}
    /\ cycle' = [cycle EXCEPT !.freed = @ \/ node \in {"consult_agents", "parse_decision", "risk_gate"}]
    /\ UNCHANGED <<mode, cadence, node, run, beat, died>>

PrepareContext ==
    /\ node = "prepare_context"
    /\ \E book \in Reconciled, baseline \in SUBSET Symbols, alert \in BOOLEAN :
         LET tier == TierOf(book, baseline, alert)
         IN  /\ alert => HeldIn(book) # {}
             /\ held' = book
             /\ cycle' = [cycle EXCEPT !.tier = tier, !.baseline = baseline]
             /\ cadence' = Marked(tier)
             /\ node' = IF tier = "SKIP" THEN "parse_decision" ELSE "consult_agents"
    /\ UNCHANGED <<mode, run, beat, died>>

(* An answer, a transient failure that is tried again, or a failure: an     *)
(* empty answer.                                                            *)
ConsultAgents ==
    /\ node = "consult_agents"
    /\ \/ /\ mode.supervised
          /\ \E answer \in Answers : cycle' = [cycle EXCEPT !.answer = answer]
          /\ node' = "parse_decision"
       \/ /\ mode.supervised /\ cycle.attempt + 1 < Attempts
          /\ cycle' = [cycle EXCEPT !.attempt = @ + 1]
          /\ UNCHANGED node
       \/ node' = "parse_decision" /\ UNCHANGED cycle
    /\ UNCHANGED <<mode, cadence, held, run, beat, died>>

WaitFor(symbols) == [symbol : symbols, action : {"WAIT"}]
FromBaseline == [symbol : cycle.baseline, action : {"BUY"}]       \* decisions_from_intents
Valid(answer) == {[symbol |-> s, action |-> answer[s]] : s \in {t \in Symbols : answer[t] \in Actions}}

(* parse_decision: no valid decision falls back to the baseline.  A node    *)
(* drops from the cycle what no later node reads.                           *)
Parsed ==
    IF mode.supervised /\ cycle.tier # "SKIP"
      THEN IF Valid(cycle.answer) # {} THEN Valid(cycle.answer)
           ELSE FromBaseline \cup WaitFor(Symbols \ cycle.baseline)
      ELSE IF cycle.baseline # {} THEN FromBaseline ELSE WaitFor(Symbols)

ParseDecision ==
    /\ node = "parse_decision"
    /\ cycle' = [cycle EXCEPT !.decisions = Parsed, !.answer = NoAnswer, !.attempt = 0]
    /\ node' = IF \E d \in Parsed : d.action # "WAIT" THEN "risk_gate" ELSE "report"
    /\ UNCHANGED <<mode, cadence, held, run, beat, died>>

(* What the gate may let through; each BUY is judged against the rows, and  *)
(* not against the tier: a REVIEW is only told not to open anything.        *)
Admissible(d, size) ==
    CASE d.action = "BUY" -> /\ d.symbol \notin HeldIn(held) /\ Cardinality(HeldIn(held)) < MaxOpen
                             /\ CorrelatedCap = 0 \/ Exposure(held) + size <= CorrelatedCap
      [] d.action \in {"CLOSE", "ADJUST"} -> d.symbol \in HeldIn(held)
      [] OTHER -> FALSE

RiskGate ==
    /\ node = "risk_gate"
    /\ \E approved \in SUBSET {d \in cycle.decisions : \E size \in Sizes : Admissible(d, size)} :
         /\ cycle' = [cycle EXCEPT !.approved = approved, !.decisions = {}]
         /\ node' = IF approved # {} THEN "execute" ELSE "report"
    /\ UNCHANGED <<mode, cadence, held, run, beat, died>>

(* Orders are placed or fail; a close may complete at the next reconcile.   *)
Bought == {d.symbol : d \in {e \in cycle.approved : e.action = "BUY"}}
Closed == {d.symbol : d \in {e \in cycle.approved : e.action = "CLOSE"}}
Execute ==
    /\ node = "execute" /\ node' = "report"
    /\ \E placed \in SUBSET Bought, sold \in SUBSET Closed, size \in Sizes :
         /\ \A s \in placed : Admissible([symbol |-> s, action |-> "BUY"], size)
         /\ held' = [s \in Symbols |-> IF s \in placed THEN size ELSE IF s \in sold THEN 0 ELSE held[s]]
         /\ cycle' = [cycle EXCEPT !.opened = placed, !.approved = {}]
    /\ UNCHANGED <<mode, cadence, run, beat, died>>

Report ==
    /\ node = "report" /\ node' = "idle"
    /\ run' = "completed" /\ beat' = "completed" /\ cycle' = NoCycle
    /\ UNCHANGED <<mode, cadence, held, died>>

FailsBeating ==
    /\ node # "idle" /\ node' = "idle"
    /\ run' = "failed" /\ cycle' = NoCycle
    /\ UNCHANGED <<mode, cadence, held, beat, died>>

(* A node raises: arun_once settles the row.                                *)
Fails ==
    /\ node # "idle" /\ node' = "idle"
    /\ run' = "failed" /\ beat' = "failed" /\ cycle' = NoCycle
    /\ UNCHANGED <<mode, cadence, held, died>>

(* The process dies, and another begins the next cycle.                     *)
Dies ==
    /\ node # "idle" /\ node' = "idle" /\ died' = TRUE /\ cycle' = NoCycle
    /\ UNCHANGED <<mode, cadence, held, run, beat>>

(* Between cycles the day turns, prices move, a review falls due.           *)
WorldMoves ==
    /\ node = "idle"
    /\ cadence' \in {[cadence EXCEPT !.newDay = TRUE], [cadence EXCEPT !.moved = ~@],
                     [cadence EXCEPT !.due = TRUE]}
    /\ UNCHANGED <<mode, held, node, cycle, run, beat, died>>

GraphNodes == PrepareContext \/ ConsultAgents \/ ParseDecision \/ RiskGate \/ Execute \/ Report
GraphNext == StartCycle \/ GraphNodes \/ RowsFreed \/ Fails \/ Dies \/ WorldMoves

(* A loop begins the next cycle, a node ends, and not every cycle fails     *)
(* before it has been classified.                                           *)
GraphFairness ==
    /\ WF_graphVars(StartCycle) /\ WF_graphVars(GraphNodes)
    /\ SF_graphVars(PrepareContext)

GraphSpec == GraphInit /\ [][GraphNext]_graphVars /\ GraphFairness

-----------------------------------------------------------------------------

GraphTypeOK ==
    /\ mode \in [supervised : BOOLEAN, tiers : BOOLEAN, quietModel : BOOLEAN]
    /\ cadence \in [newDay : BOOLEAN, moved : BOOLEAN, due : BOOLEAN]
    /\ held \in [Symbols -> {0} \cup Sizes]
    /\ node \in Nodes /\ run \in Statuses /\ beat \in Statuses /\ died \in BOOLEAN
    /\ cycle \in [tier : Tiers, baseline : SUBSET Symbols, attempt : 0..(Attempts - 1), answer : Answers,
                  decisions : SUBSET Decisions, approved : SUBSET Decisions, opened : SUBSET Symbols, freed : BOOLEAN]

(***************************************************************************)
(* A cycle that was not worth the full supervisor opens none of what the   *)
(* baseline proposed, even if it is the fallback of an answer that failed, *)
(* unless a row was freed meanwhile: on the same rows, what the classifier *)
(* calls capacity is what the gate grants.                                 *)
(***************************************************************************)
Quiet == {"SKIP", "REVIEW"}
QuietOpensNoSignal == (cycle.tier \in Quiet /\ ~cycle.freed) => cycle.opened \cap cycle.baseline = {}

(***************************************************************************)
(* When no cycle runs, the row of the last one and the heartbeat are       *)
(* settled and agree, unless a process died.                               *)
(***************************************************************************)
StatusSettled == (node = "idle" /\ ~died) => (run # "running" /\ beat = run)

(***************************************************************************)
(* With a model for it, a review that is due while a position is held is   *)
(* asked for, however many cycles fail before they are classified.         *)
(***************************************************************************)
HeldReviewed ==
    (mode.supervised /\ mode.quietModel /\ cadence.due /\ HeldIn(held) # {})
        ~> (node = "consult_agents" \/ HeldIn(held) = {})

=============================================================================
