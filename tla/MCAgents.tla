------------------------------- MODULE MCAgents -------------------------------
(***************************************************************************)
(* Instances for TLC of the parts that decide when the agent runs: the     *)
(* console of one process, the runners that share a store, and the graph   *)
(* of one cycle.  They share no state in these models, so a behaviour is   *)
(* one of the part in focus, the others resting in one initial state.  A   *)
(* mode of the cycle that is off makes those it would read next moot, so   *)
(* at most one is.                                                         *)
(***************************************************************************)
EXTENDS AgentRuntime, AgentProcesses, CycleGraph

VARIABLE focus

agentsVars == <<focus, runtimeVars, processVars, graphVars>>

AgentsInit ==
    /\ focus \in {"console", "runners", "cycle"}
    /\ RuntimeInit /\ ProcessInit /\ GraphInit
    /\ focus # "console" => positions = 0 /\ ~killed
    /\ focus # "runners" => \A r \in Runners : runner[r].left = Unlimited
    /\ focus # "cycle" => mode.supervised /\ mode.tiers /\ mode.quietModel
    /\ focus = "cycle" => Cardinality({f \in DOMAIN mode : ~mode[f]}) <= 1

AgentsNext ==
    /\ UNCHANGED focus
    /\ \/ focus = "console" /\ RuntimeNext /\ UNCHANGED <<processVars, graphVars>>
       \/ focus = "runners" /\ ProcessNext /\ UNCHANGED <<runtimeVars, graphVars>>
       \/ focus = "cycle" /\ GraphNext /\ UNCHANGED <<runtimeVars, processVars>>

(* GraphFairness obliges a cycle to begin: only when it is in focus.        *)
AgentsSpec ==
    /\ AgentsInit /\ [][AgentsNext]_agentsVars
    /\ RuntimeFairness /\ ProcessFairness
    /\ WF_graphVars(focus = "cycle" /\ StartCycle)
    /\ WF_graphVars(GraphNodes) /\ SF_graphVars(PrepareContext)

AgentsTypeOK == RuntimeTypeOK /\ ProcessTypeOK /\ GraphTypeOK

=============================================================================
