---------------------------- MODULE AgentProcesses ----------------------------
(***************************************************************************)
(* The runners of `agent run` and `agent daemon`: processes that share a   *)
(* store, where a lock should admit one of them and a flag asks it to stop *)
(* (cli.py, core/storage.py).                                              *)
(*                                                                         *)
(*   - lock: the setting agent_lock, its owner and its age; NoLock when    *)
(*     there is none.  It is read and then written, and never renewed;     *)
(*   - stopRequested: the setting agent_stop_requested;                    *)
(*   - runner: for each process where it is, what remains of its duration  *)
(*     (left), its consecutive failures and what is left of its sleep.     *)
(*                                                                         *)
(* One unit of time is a chunk of the sleep between cycles; a cycle takes  *)
(* as long as it likes.                                                    *)
(***************************************************************************)
EXTENDS Naturals

CONSTANTS
    Runners,
    StaleAfter,               \* try_acquire_agent_lock: age at which a lock is stale
    Interval,                 \* --interval-seconds
    Backoff, MaxBackoff,      \* --backoff-seconds, and the 300 seconds that bound it
    Durations,                \* --duration-hours, a set of lengths and Unlimited
    MaxFailures,              \* bound: consecutive failures told apart
    Unlimited, NoLock

ASSUME ProcessAssumption ==
    /\ {StaleAfter, Interval, Backoff, MaxBackoff, MaxFailures} \subseteq Nat
    /\ Durations \subseteq Nat \cup {Unlimited}
    /\ Unlimited \notin Nat

VARIABLES lock, stopRequested, runner

processVars == <<lock, stopRequested, runner>>

Locks == [owner : Runners, age : 0..StaleAfter]

(***************************************************************************)
(* looked     the lock was free or stale when it was read                  *)
(* refused    "agent runner lock is already held"                          *)
(* releasing  in the finally, the owner not yet read; deleting: read       *)
(***************************************************************************)
Places == {"new", "looked", "top", "cycle", "after", "asleep", "releasing", "deleting",
           "done", "refused", "crashed"}

InLoop == {"top", "cycle", "after", "asleep"}

ProcessInit ==
    /\ lock = NoLock /\ stopRequested = FALSE
    /\ runner \in [Runners -> [at : {"new"}, left : Durations, failures : {0}, nap : {0}]]

Move(r, place) == runner' = [runner EXCEPT ![r].at = place]

-----------------------------------------------------------------------------

(* try_acquire_agent_lock reads the lock ...                                *)
LooksAtLock(r) ==
    /\ runner[r].at = "new"
    /\ Move(r, IF lock = NoLock \/ lock.age >= StaleAfter THEN "looked" ELSE "refused")
    /\ UNCHANGED <<lock, stopRequested>>

(* ... and writes it; a runner that starts withdraws a stop request.        *)
TakesLock(r) ==
    /\ runner[r].at = "looked"
    /\ lock' = [owner |-> r, age |-> 0]
    /\ stopRequested' = FALSE
    /\ Move(r, "top")

Elapsed(r) == runner[r].left = 0
Least(a, b) == IF a <= b THEN a ELSE b

TopOfLoop(r) ==
    /\ runner[r].at = "top"
    /\ Move(r, IF Elapsed(r) \/ stopRequested THEN "releasing" ELSE "cycle")
    /\ UNCHANGED <<lock, stopRequested>>

(* A cycle gives a result or fails; a failure lengthens the sleep.          *)
RunsCycle(r) ==
    /\ runner[r].at = "cycle"
    /\ \E failures \in {0, runner[r].failures + 1} :
         runner' = [runner EXCEPT ![r].at = "after", ![r].failures = Least(failures, MaxFailures)]
    /\ UNCHANGED <<lock, stopRequested>>

PowerOfTwo(n) == LET twice[i \in Nat] == IF i = 0 THEN 1 ELSE 2 * twice[i - 1] IN twice[n]

OwnNap(r) ==
    IF runner[r].failures = 0 THEN Interval
    ELSE Least(Backoff * PowerOfTwo(runner[r].failures - 1), MaxBackoff)

NapOf(r) == IF runner[r].left = Unlimited THEN OwnNap(r) ELSE Least(OwnNap(r), runner[r].left)

(* Only results count toward --max-cycles, so only a result reaches it.     *)
AfterCycle(r) ==
    /\ runner[r].at = "after"
    /\ \/ (runner[r].failures = 0 \/ stopRequested \/ Elapsed(r)) /\ Move(r, "releasing")
       \/ /\ ~stopRequested /\ ~Elapsed(r)
          /\ runner' = [runner EXCEPT ![r].at = "asleep", ![r].nap = NapOf(r)]
    /\ UNCHANGED <<lock, stopRequested>>

WakesWhenUnstopped(r) ==
    /\ runner[r].at = "asleep" /\ runner[r].nap = 0 /\ ~stopRequested
    /\ runner' = [runner EXCEPT ![r].at = "top", ![r].nap = 0]
    /\ UNCHANGED <<lock, stopRequested>>

(* Each chunk of the sleep begins with a look at the stop flag.             *)
WakesUp(r) ==
    /\ runner[r].at = "asleep" /\ (runner[r].nap = 0 \/ stopRequested)
    /\ runner' = [runner EXCEPT ![r].at = "top", ![r].nap = 0]
    /\ UNCHANGED <<lock, stopRequested>>

ReleasesFresh(r) ==
    /\ \/ /\ runner[r].at = "releasing"
          /\ Move(r, IF lock # NoLock /\ (lock.owner # r \/ lock.age >= StaleAfter) THEN "done" ELSE "deleting")
          /\ UNCHANGED lock
       \/ runner[r].at = "deleting" /\ Move(r, "done") /\ lock' = NoLock
    /\ UNCHANGED stopRequested

(* release_agent_lock reads the owner, leaves another's lock and deletes    *)
(* its own.                                                                 *)
Releases(r) ==
    /\ \/ /\ runner[r].at = "releasing"
          /\ Move(r, IF lock # NoLock /\ lock.owner # r THEN "done" ELSE "deleting")
          /\ UNCHANGED lock
       \/ runner[r].at = "deleting" /\ Move(r, "done") /\ lock' = NoLock
    /\ UNCHANGED stopRequested

(* The process is killed: no finally runs.                                  *)
Crashes(r) ==
    /\ runner[r].at \in InLoop /\ Move(r, "crashed")
    /\ UNCHANGED <<lock, stopRequested>>

(* agent stop, from another process.                                        *)
AgentStop ==
    /\ ~stopRequested /\ stopRequested' = TRUE
    /\ UNCHANGED <<lock, runner>>

LessUnclamped(n) == n - 1

Less(n) == IF n = 0 THEN 0 ELSE n - 1

TimePasses ==
    /\ lock' = IF lock = NoLock THEN NoLock ELSE [lock EXCEPT !.age = Least(@ + 1, StaleAfter)]
    /\ runner' = [r \in Runners |->
                    IF runner[r].at \notin InLoop THEN runner[r]
                    ELSE [runner[r] EXCEPT !.left = IF @ = Unlimited THEN @ ELSE Less(@),
                                           !.nap = Less(@)]]
    /\ UNCHANGED stopRequested

Runs(r) == LooksAtLock(r) \/ TakesLock(r) \/ TopOfLoop(r) \/ RunsCycle(r) \/ AfterCycle(r)
           \/ WakesUp(r) \/ Releases(r)

ProcessNext ==
    \/ \E r \in Runners : Runs(r) \/ Crashes(r)
    \/ AgentStop
    \/ TimePasses

(* A process that runs goes on, a cycle returns, and time passes; nothing   *)
(* obliges a process to start, a stop to be asked for or a crash.           *)
ProcessFairness ==
    /\ \A r \in Runners : WF_processVars(runner[r].at # "new" /\ Runs(r))
    /\ WF_processVars(TimePasses)

ProcessSpec == ProcessInit /\ [][ProcessNext]_processVars /\ ProcessFairness

-----------------------------------------------------------------------------

ProcessTypeOK ==
    /\ lock \in Locks \cup {NoLock}
    /\ stopRequested \in BOOLEAN
    /\ runner \in [Runners -> [at : Places, left : Nat \cup {Unlimited},
                               failures : 0..MaxFailures, nap : Nat]]

(***************************************************************************)
(* However locks were raced for, taken over as stale and released, when    *)
(* every runner has ended by itself no lock is left to refuse the next.    *)
(***************************************************************************)
NoLockLeft ==
    (\A r \in Runners : runner[r].at \in {"done", "refused"}) => lock = NoLock

(***************************************************************************)
(* A stop request ends every runner in the loop, asleep, failing or in a   *)
(* cycle, unless a runner that starts withdraws it.                        *)
(***************************************************************************)
StopObeyed ==
    \A r \in Runners :
        (stopRequested /\ runner[r].at \in InLoop) ~> (runner[r].at \notin InLoop \/ ~stopRequested)

(***************************************************************************)
(* tests/test_agent_runtime.py:155, "daemon lock prevents duplicate agent  *)
(* runner": at most one runner is in its loop.                             *)
(***************************************************************************)
SingleRunner == \A r, q \in Runners : runner[r].at \in InLoop /\ runner[q].at \in InLoop => r = q

=============================================================================
