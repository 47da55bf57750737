----------------------------- MODULE ExchangeSync -----------------------------
(***************************************************************************)
(* One exchange order of the trading agent, from the row written before    *)
(* its entry is posted to the row closed after its last sale:              *)
(*                                                                         *)
(*   - row, fills, exited: what SQLite holds (core/storage.py);            *)
(*   - job[p]: the handler that process p is running, with the OrderRecord *)
(*     it loaded, changes in memory and eventually saves as a whole row    *)
(*     (core/exchange_sync.py, graph/runtime.py, graph/nodes.py);          *)
(*   - orders: the venue's own orders, which fill, are cancelled and       *)
(*     expire whether the program looks or not (external).                 *)
(*                                                                         *)
(* A handler is cut at its calls to the venue.  A query and the local code *)
(* that follows it are one step, since nothing they do is visible to the   *)
(* venue; a call that changes the venue is a step, and what the program    *)
(* does with the answer is the next one, so that the process may die, or   *)
(* the venue may move, in between.                                         *)
(***************************************************************************)
EXTENDS ExitLadder, Sequences, FiniteSets

CONSTANTS
    Procs,        \* threads and processes that run handlers
    Unlocked,     \* those that reconcile without SupervisorRuntime._invoke_lock
    Qty,          \* lots bought by the entry
    MinQty,       \* LOT_SIZE minimum of the symbol
    Marks,        \* prices a snapshot may show
    ExtraBase,    \* lots of the base asset the account holds besides this position
    Operator,     \* operator decisions that occur: a subset of {"close", "adjust"}
    Faults,       \* what may go wrong: a subset of FaultKinds
    TTLAge,       \* age at which a resting bid is past its TTL
    MaxAge, MaxOrders, MaxFails, MaxExpiries    \* bounds

(***************************************************************************)
(* race       the venue moves between two calls of a handler               *)
(* cancel     cancelling a leg fails with an error the code only logs      *)
(* malformed  an accepted sell is answered without an orderId              *)
(* trades     fetching the trades of an order fails                        *)
(* partial    an order dies at the venue after it has partly filled        *)
(***************************************************************************)
FaultKinds == {"race", "cancel", "malformed", "trades", "partial"}

ASSUME SyncAssumption ==
    /\ Unlocked \subseteq Procs
    /\ Qty \in Nat \ {0} /\ MinQty \in Nat \ {0}
    /\ Marks \subseteq Nat \ {0}
    /\ ExtraBase \in Nat
    /\ Operator \subseteq {"close", "adjust"}
    /\ Faults \subseteq FaultKinds
    /\ TTLAge \in Nat
    /\ {MaxAge, MaxOrders, MaxFails, MaxExpiries} \subseteq Nat

VARIABLES
    orders,    \* the venue's orders; an order's id is its position
    row,       \* the row of the order in the orders table
    fills,     \* fills[i]: lots of sell order i ingested into the fills table
    exited,    \* the sum of the exit fills in the table
    job,       \* job[p]: the handler process p runs
    age,       \* 0: in the submit grace, 1: past it, ... (opened_at against the clock)
    fails, expiries    \* how often the bounded faults have happened

vars == <<orders, row, fills, exited, job, age, fails, expiries>>
bounded == <<age, fails, expiries>>

-----------------------------------------------------------------------------
(* The venue's view of an order.  A client id is the order's purpose: the  *)
(* entry, a tier (whose id the code derives from the tier), or the exit.   *)

EntryCid == 0
ExitCid == NTiers + 1
Cids == 0..ExitCid
NoId == 0      \* a None order id
NoMark == 0    \* no usable snapshot: none given, or a simulated one

VenueOrders == [cid: Cids, qty: Nat, exec: Nat, live: BOOLEAN]

\* CANCELED stands for every terminal status but FILLED.
StatusOf(o) == IF o.live THEN IF o.exec = 0 THEN "NEW" ELSE "PARTIALLY_FILLED"
               ELSE IF o.exec = o.qty THEN "FILLED" ELSE "CANCELED"

IsLatest(i, cid) ==
    /\ i \in DOMAIN orders /\ orders[i].cid = cid
    /\ \A j \in DOMAIN orders : j > i => orders[j].cid # cid

\* Query by venue id when there is one, else by client id: at most one order.
Lookup(id, cid) == IF id # NoId THEN {id}
                   ELSE {i \in DOMAIN orders : IsLatest(i, cid)}

\* Still able to sell, or having sold: what a second order must not repeat.
Active(o) == o.live \/ o.exec > 0

Lots(S, Q(_)) == MapThenSumSet(LAMBDA i : Q(orders[i]), S)
Entries == {i \in DOMAIN orders : orders[i].cid = EntryCid}
Sells == DOMAIN orders \ Entries
LiveSells == {i \in Sells : orders[i].live}
Bought == Lots(Entries, LAMBDA o : o.exec)
Sold == Lots(Sells, LAMBDA o : o.exec)
Unsold(S) == Lots(S, LAMBDA o : o.qty - o.exec)
Committed == Unsold(LiveSells)
FreeBase == ExtraBase + Bought - Sold - Committed

AcceptsSell(cid, qty) ==
    /\ qty <= FreeBase
    /\ \A i \in DOMAIN orders : orders[i].cid = cid => ~orders[i].live

Placed(cid, qty) == Append(orders, [cid |-> cid, qty |-> qty, exec |-> 0, live |-> TRUE])

Cancelled(S) == [i \in DOMAIN orders |->
                    IF i \in S THEN [orders[i] EXCEPT !.live = FALSE] ELSE orders[i]]

-----------------------------------------------------------------------------
(* The stored row and the running handlers.                                *)

\* Mutant: open_positions without the submits in doubt.
SubmittedStatuses == {"ENTRY_OPEN", "POSITION_OPEN"}

OpenStatuses == {"PENDING_SUBMIT", "ENTRY_OPEN", "POSITION_OPEN"}
FinalStatuses == {"CLOSED", "CANCELED"}
Statuses == OpenStatuses \cup FinalStatuses \cup {"NONE"}
ExchangeStatuses == {"NONE", "UNKNOWN", "NEW", "PARTIALLY_FILLED", "FILLED", "CANCELED"}

Rows == [status: Statuses, exStatus: ExchangeStatuses, exec: Nat, xid: Nat,
         plan: Plans, exitXid: Nat, exitCid: BOOLEAN]

NoRow == [status |-> "NONE", exStatus |-> "NONE", exec |-> 0, xid |-> NoId,
          plan |-> FreshPlan, exitXid |-> NoId, exitCid |-> FALSE]

Points == {"idle", "entry_post", "entry_bind", "pending", "sync", "sync_exit",
           "cancel_entry", "cancel_saved", "cancel_partial", "cancel_legs",
           "legs", "leg_post", "leg_bind", "sync_legs", "exit", "exit_post", "exit_bind"}
Kinds == {"none", "submit", "reconcile", "adopt", "close"}

(***************************************************************************)
(* pc     where the handler is              kind   which handler it is     *)
(* mem    its OrderRecord                   mark   the snapshot's price    *)
(* tier   the loop over the legs            avail  lots that may still rest*)
(* want   quantity of the sell in flight    ref    venue id in its answer  *)
(* dirty  mem has changes a save is due for                                *)
(***************************************************************************)
Jobs == [pc: Points, kind: Kinds, mem: Rows, mark: Marks \cup {NoMark}, tier: Nat,
         avail: Int, want: Int, ref: Nat, dirty: BOOLEAN]

Idle == [pc |-> "idle", kind |-> "none", mem |-> NoRow, mark |-> NoMark, tier |-> 1,
         avail |-> 0, want |-> 0, ref |-> NoId, dirty |-> FALSE]

\* order.executed_qty or order.quantity
Held(m) == IF m.exec > 0 THEN m.exec ELSE Qty

\* Every variable has its type: the row, the records in memory and the venue's
\* orders are well formed (OrderRecord, ExitPlan) and no quantity is negative.
TypeOK ==
    /\ orders \in Seq(VenueOrders)
    /\ row \in Rows
    /\ fills \in [1..MaxOrders -> Nat]
    /\ exited \in Int
    /\ job \in [Procs -> Jobs]
    /\ age \in Nat /\ fails \in Nat /\ expiries \in Nat

Init ==
    /\ orders = <<>>
    /\ row = NoRow
    /\ fills = [i \in 1..MaxOrders |-> 0]
    /\ exited = 0
    /\ job = [p \in Procs |-> Idle]
    /\ age = 0 /\ fails = 0 /\ expiries = 0

At(p, pc) == job[p].pc = pc
Go(p, j) == job' = [job EXCEPT ![p] = j]
Finish(p) == Go(p, Idle)

\* Mutant: the invocation lock is not taken.
CanStartUnlocked(p) == At(p, "idle")

\* p may start a handler: every locked process takes the one _invoke_lock.
CanStart(p) ==
    /\ At(p, "idle")
    /\ p \in Unlocked \/ \A q \in Procs \ Unlocked : At(q, "idle")

\* Ingest the trades of sell order i: idempotent, the table keeps the total.
Ingest(i) ==
    \/ /\ fills' = [fills EXCEPT ![i] = orders[i].exec]
       /\ exited' = exited + orders[i].exec - fills[i]
    \/ /\ "trades" \in Faults
       /\ UNCHANGED <<fills, exited>>

-----------------------------------------------------------------------------
(* Submitting the entry: the row is saved before the order is posted.      *)

SubmitEntry(p) ==
    /\ CanStart(p) /\ p \notin Unlocked
    /\ row.status = "NONE"
    /\ row' = [NoRow EXCEPT !.status = "PENDING_SUBMIT"]
    /\ Go(p, [Idle EXCEPT !.pc = "entry_post", !.kind = "submit", !.mem = row'])
    /\ UNCHANGED <<orders, fills, exited, bounded>>

PostEntry(p) ==
    /\ At(p, "entry_post")
    /\ Len(orders) < MaxOrders    \* bound
    /\ orders' = Placed(EntryCid, Qty)
    /\ Go(p, [job[p] EXCEPT !.pc = "entry_bind", !.ref = Len(orders) + 1])
    /\ UNCHANGED <<row, fills, exited, bounded>>

\* An answer without an orderId raises and leaves the row PENDING_SUBMIT.
BindEntry(p) ==
    /\ At(p, "entry_bind")
    /\ LET o == orders[job[p].ref] IN
       \/ row' = [job[p].mem EXCEPT !.status = "ENTRY_OPEN", !.xid = job[p].ref,
                                    !.exStatus = StatusOf(o), !.exec = o.exec]
       \/ "malformed" \in Faults /\ row' = row
    /\ Finish(p)
    /\ UNCHANGED <<orders, fills, exited, bounded>>

-----------------------------------------------------------------------------
(* Reconcile and close: both begin by refreshing the order.                *)

StartReconcile(p, mark) ==
    /\ CanStart(p)
    /\ row.status \in OpenStatuses
    /\ p \in Unlocked => mark = NoMark
    /\ Go(p, [Idle EXCEPT !.pc = IF row.status = "PENDING_SUBMIT" THEN "pending" ELSE "sync",
                          !.kind = "reconcile", !.mem = row, !.mark = mark])
    /\ UNCHANGED <<orders, row, fills, exited, bounded>>

StartClose(p) ==
    /\ "close" \in Operator
    /\ CanStart(p) /\ p \notin Unlocked
    /\ row.status \in OpenStatuses
    /\ Go(p, [Idle EXCEPT !.pc = "sync", !.kind = "close", !.mem = row])
    /\ UNCHANGED <<orders, row, fills, exited, bounded>>

\* Load, change and save with no call to the venue in between.
Adjust(p, stop) ==
    /\ "adjust" \in Operator
    /\ CanStart(p) /\ p \notin Unlocked
    /\ row.status \in OpenStatuses
    /\ row' = [row EXCEPT !.plan.stop = stop]
    /\ UNCHANGED <<orders, fills, exited, job, bounded>>

\* Mutant: past the grace the venue is not asked.
ResolvePendingByAge(p) ==
    /\ At(p, "pending")
    /\ row' = IF age = 0 THEN row ELSE [job[p].mem EXCEPT !.status = "CANCELED"]
    /\ Finish(p)
    /\ UNCHANGED <<orders, fills, exited, bounded>>

\* Adopt a submit the venue knows, discard one it does not after the grace.
ResolvePending(p) ==
    /\ At(p, "pending")
    /\ LET m == job[p].mem
           known == Lookup(NoId, EntryCid)
       IN  \/ \E i \in known :
                 /\ row' = [m EXCEPT !.status = "ENTRY_OPEN", !.xid = i]
                 /\ Go(p, [job[p] EXCEPT !.pc = "sync", !.kind = "adopt", !.mem = row'])
           \/ /\ known = {}
              /\ row' = IF age = 0 THEN row ELSE [m EXCEPT !.status = "CANCELED"]
              /\ Finish(p)
    /\ UNCHANGED <<orders, fills, exited, bounded>>

\* The loop that rests the legs goes on while a leg is due and lots are left.
Placing(j) ==
    IF j.avail > 0 /\ \E t \in Unplaced(j.mem.plan) : t >= j.tier
    THEN [j EXCEPT !.pc = "legs"]
    ELSE [j EXCEPT !.pc = "sync_legs", !.tier = 1, !.avail = 0, !.want = 0, !.ref = NoId]

\* Mutant: a bid past its TTL expires even if it has bought some lots.
BidExpiredPartly(m) == m.status = "ENTRY_OPEN" /\ age >= TTLAge

BidExpired(m) == m.status = "ENTRY_OPEN" /\ m.exec = 0 /\ age >= TTLAge

\* What reconcile does with an order it has refreshed.
Reconciled(j, m, changed, sold) ==
    CASE BidExpired(m) -> [j EXCEPT !.pc = "cancel_entry", !.mem = m]
      [] m.status = "POSITION_OPEN" /\ m.exitXid = NoId /\ changed
         /\ j.mark # NoMark /\ j.mark < m.plan.stop ->       \* zone invalidated on fill
           [j EXCEPT !.pc = "sync", !.kind = "close", !.mem = m]
      [] m.status = "POSITION_OPEN" /\ m.exitXid = NoId
         /\ ~(changed /\ j.mark # NoMark /\ j.mark < m.plan.stop) ->
           Placing([j EXCEPT !.mem = m, !.tier = 1, !.avail = Held(m) - sold])
      [] OTHER -> Idle

\* What close_position does with an order it has refreshed.
Closing(j, m) ==
    CASE m.status = "ENTRY_OPEN" /\ m.exec = 0 -> [j EXCEPT !.pc = "cancel_entry", !.mem = m]
      [] m.status = "ENTRY_OPEN" /\ m.exec > 0 -> [j EXCEPT !.pc = "cancel_partial", !.mem = m]
      [] m.status = "POSITION_OPEN" -> [j EXCEPT !.pc = "cancel_legs", !.mem = m]
      [] OTHER -> Idle

Refreshed(j, m, changed, sold) ==
    LET next == CASE j.kind = "reconcile" -> Reconciled(j, m, changed, sold)
                  [] j.kind = "close" -> Closing(j, m)
                  [] OTHER -> Idle
    IN  IF next.pc = "idle" THEN Idle ELSE [next EXCEPT !.dirty = FALSE]

\* The fields whose change makes sync_order return True.
Observed(m) == <<m.status, m.exStatus, m.exec, m.exitXid>>

\* Mutant: the venue's status taken for the row's.
SyncedEntryRaw(m, i) ==
    [m EXCEPT !.xid = i, !.status = StatusOf(orders[i]), !.exec = orders[i].exec]

\* Mutant: an order that is filled opens the position from any status.
SyncedEntryAnyStatus(m, i) ==
    LET m2 == [m EXCEPT !.xid = i, !.exStatus = StatusOf(orders[i]), !.exec = orders[i].exec]
    IN  IF StatusOf(orders[i]) = "FILLED" THEN [m2 EXCEPT !.status = "POSITION_OPEN"] ELSE m2

SyncedEntry(m, i) ==
    LET o == orders[i]
        m2 == [m EXCEPT !.xid = i, !.exStatus = StatusOf(o), !.exec = o.exec]
    IN  IF m.status # "ENTRY_OPEN" THEN m2
        ELSE IF StatusOf(o) = "FILLED" THEN [m2 EXCEPT !.status = "POSITION_OPEN"]
        ELSE IF StatusOf(o) = "CANCELED" /\ o.exec = 0 THEN [m2 EXCEPT !.status = "CANCELED"]
        ELSE m2

SyncEntry(p) ==
    /\ At(p, "sync")
    /\ LET m == job[p].mem
           found == Lookup(m.xid, EntryCid)
           hasExit == m.exitXid # NoId \/ m.exitCid
       IN  \/ /\ found = {}
              /\ row' = [m EXCEPT !.exStatus = "UNKNOWN"]
              /\ Go(p, Refreshed(job[p], row', m.exStatus # "UNKNOWN", exited))
           \/ /\ ~hasExit
              /\ \E i \in found :
                   /\ row' = SyncedEntry(m, i)
                   /\ Go(p, Refreshed(job[p], row', Observed(row') # Observed(m), exited))
           \/ /\ hasExit
              /\ \E i \in found :
                   LET m2 == SyncedEntry(m, i) IN
                   /\ Go(p, [job[p] EXCEPT !.pc = "sync_exit", !.mem = m2,
                                           !.dirty = Observed(m2) # Observed(m)])
                   /\ UNCHANGED row
    /\ UNCHANGED <<orders, fills, exited, bounded>>

\* Mutant: an exit that died is taken for one that filled.
SyncedExitDead(m, o) == IF o.live THEN m ELSE [m EXCEPT !.status = "CLOSED"]

\* Mutant: the terminal statuses are handled before FILLED is told apart.
SyncedExitTerminal(m, o) ==
    IF o.live THEN m ELSE [m EXCEPT !.exitXid = NoId, !.exitCid = FALSE]

\* Settle the order-level exit.  Its fills are ingested only under its venue id.
SyncedExit(m, o) ==
    CASE StatusOf(o) = "FILLED" -> [m EXCEPT !.status = "CLOSED"]
      [] StatusOf(o) = "CANCELED" -> [m EXCEPT !.exitXid = NoId, !.exitCid = FALSE]
      [] OTHER -> m

SyncExit(p) ==
    /\ At(p, "sync_exit")
    /\ LET m == job[p].mem
           found == Lookup(m.exitXid, ExitCid)
       IN  /\ \/ /\ found = {}
                 /\ row' = m
              \/ \E i \in found : row' = SyncedExit(m, orders[i])
           /\ IF m.exitXid # NoId THEN Ingest(m.exitXid) ELSE UNCHANGED <<fills, exited>>
           /\ Go(p, Refreshed(job[p], row', job[p].dirty \/ Observed(row') # Observed(m),
                              exited'))
    /\ UNCHANGED <<orders, bounded>>

-----------------------------------------------------------------------------
(* Cancelling the entry.                                                   *)

CancelEntry(p) ==
    /\ At(p, "cancel_entry")
    /\ orders' = Cancelled(Lookup(job[p].mem.xid, EntryCid))
    /\ Go(p, [job[p] EXCEPT !.pc = "cancel_saved"])
    /\ UNCHANGED <<row, fills, exited, bounded>>

\* -2011, "already gone", counts as cancelled.
SaveCancelled(p) ==
    /\ At(p, "cancel_saved")
    /\ row' = [job[p].mem EXCEPT !.status = "CANCELED"]
    /\ Finish(p)
    /\ UNCHANGED <<orders, fills, exited, bounded>>

CancelPartialEntry(p) ==
    /\ At(p, "cancel_partial")
    /\ orders' = Cancelled(Lookup(job[p].mem.xid, EntryCid))
    /\ Go(p, [job[p] EXCEPT !.pc = "cancel_legs", !.mem.status = "POSITION_OPEN"])
    /\ UNCHANGED <<row, fills, exited, bounded>>

-----------------------------------------------------------------------------
(* Resting the take-profit legs (_place_resting_tps, _place_leg_order).    *)

NextUnplaced(j, t) ==
    /\ t \in Unplaced(j.mem.plan) /\ t >= j.tier
    /\ \A u \in Unplaced(j.mem.plan) : u >= j.tier => t <= u

LegQuantity(j, t) == LET share == TierQuantity(t, Held(j.mem))
                     IN  IF share < j.avail THEN share ELSE j.avail

\* quantize_order raises on a slice below the symbol's minimum: the pass ends here.
RefuseSmallLeg(p) ==
    /\ At(p, "legs")
    /\ \E t \in Tiers : NextUnplaced(job[p], t) /\ LegQuantity(job[p], t) < MinQty
    /\ Finish(p)
    /\ UNCHANGED <<orders, row, fills, exited, bounded>>

\* The tier's order is live, or sold something, under its client id: bind it.
AdoptLeg(p) ==
    /\ At(p, "legs")
    /\ \E t \in Tiers, i \in DOMAIN orders :
         /\ NextUnplaced(job[p], t) /\ LegQuantity(job[p], t) >= MinQty
         /\ IsLatest(i, t) /\ Active(orders[i])
         /\ row' = [job[p].mem EXCEPT !.plan = Bound(@, t, i)]
         /\ Go(p, Placing([job[p] EXCEPT !.mem = row', !.tier = t + 1,
                                         !.avail = @ - LegQuantity(job[p], t)]))
    /\ UNCHANGED <<orders, fills, exited, bounded>>

\* Mutant: only a resting order of the tier counts, not one that has sold.
PrepareLegOverSold(p) ==
    /\ At(p, "legs")
    /\ \E t \in Tiers :
         /\ NextUnplaced(job[p], t) /\ LegQuantity(job[p], t) >= MinQty
         /\ ~\E i \in DOMAIN orders : IsLatest(i, t) /\ orders[i].live
         /\ Go(p, [job[p] EXCEPT !.pc = "leg_post", !.tier = t,
                                 !.want = LegQuantity(job[p], t)])
    /\ UNCHANGED <<orders, row, fills, exited, bounded>>

PrepareLeg(p) ==
    /\ At(p, "legs")
    /\ \E t \in Tiers :
         /\ NextUnplaced(job[p], t) /\ LegQuantity(job[p], t) >= MinQty
         /\ ~\E i \in DOMAIN orders : IsLatest(i, t) /\ Active(orders[i])
         /\ Go(p, [job[p] EXCEPT !.pc = "leg_post", !.tier = t,
                                 !.want = LegQuantity(job[p], t)])
    /\ UNCHANGED <<orders, row, fills, exited, bounded>>

Cid(j) == IF j.pc = "leg_post" THEN j.tier ELSE ExitCid

PostSell(p) ==
    /\ job[p].pc \in {"leg_post", "exit_post"}
    /\ Len(orders) < MaxOrders    \* bound
    /\ AcceptsSell(Cid(job[p]), job[p].want)
    /\ orders' = Placed(Cid(job[p]), job[p].want)
    /\ Go(p, [job[p] EXCEPT !.pc = IF @ = "leg_post" THEN "leg_bind" ELSE "exit_bind",
                            !.ref = Len(orders) + 1])
    /\ UNCHANGED <<row, fills, exited, bounded>>

\* Insufficient balance or a duplicate client id: the exception ends the pass.
RejectSell(p) ==
    /\ job[p].pc \in {"leg_post", "exit_post"}
    /\ ~AcceptsSell(Cid(job[p]), job[p].want)
    /\ Finish(p)
    /\ UNCHANGED <<orders, row, fills, exited, bounded>>

\* The orderId in the answer, or None when the answer lacks it.
AnsweredIds(p) == {job[p].ref} \cup (IF "malformed" \in Faults THEN {NoId} ELSE {})

BindLeg(p) ==
    /\ At(p, "leg_bind")
    /\ \E id \in AnsweredIds(p) :
         row' = [job[p].mem EXCEPT !.plan = Bound(@, job[p].tier, id)]
    /\ Go(p, Placing([job[p] EXCEPT !.mem = row', !.tier = @ + 1, !.avail = @ - job[p].want]))
    /\ UNCHANGED <<orders, fills, exited, bounded>>

-----------------------------------------------------------------------------
(* Confirming the legs, then the virtual stop.                             *)

NextResting(j, t) ==
    /\ t \in Resting(j.mem.plan) /\ t >= j.tier
    /\ \A u \in Resting(j.mem.plan) : u >= j.tier => t <= u

\* Mutant: any execution banks the tier.
LegSyncedEarly(plan, t, o) == IF o.exec > 0 THEN TierFilled(plan, t, o.exec) ELSE plan

\* Mutant: any order that no longer rests banks the tier.
LegSyncedDead(plan, t, o) == IF o.live THEN plan ELSE TierFilled(plan, t, o.exec)

LegSynced(plan, t, o) ==
    IF o.live THEN plan
    ELSE IF o.exec > 0 THEN TierFilled(plan, t, o.exec)
    ELSE Unbound(plan, {t})

SyncLeg(p) ==
    /\ At(p, "sync_legs")
    /\ \E t \in Tiers :
         /\ NextResting(job[p], t)
         /\ LET plan == job[p].mem.plan
                i == plan.xid[t]
                plan2 == LegSynced(plan, t, orders[i])
            IN  /\ Ingest(i)
                /\ Go(p, [job[p] EXCEPT !.mem.plan = plan2, !.tier = t + 1,
                                        !.dirty = @ \/ plan2 # plan])
    /\ UNCHANGED <<orders, row, bounded>>

\* Every leg asked: close a sold-out ladder, trail the stop, act on it.
FinishLegs(p) ==
    /\ At(p, "sync_legs")
    /\ ~\E t \in Tiers : NextResting(job[p], t)
    /\ LET m == job[p].mem
           soldOut == /\ \A t \in Tiers : m.plan.filled[t]
                      /\ RemainingQuantity(m.plan, Held(m)) <= 0
           m2 == IF soldOut THEN [m EXCEPT !.status = "CLOSED"] ELSE m
           stops == m2.status = "POSITION_OPEN" /\ job[p].mark # NoMark
           m3 == IF stops THEN [m2 EXCEPT !.plan = Trailed(@, job[p].mark)] ELSE m2
       IN  IF stops /\ job[p].mark <= m3.plan.stop /\ Held(m3) - exited > 0
           THEN /\ row' = IF job[p].dirty THEN m2 ELSE row
                /\ Go(p, [job[p] EXCEPT !.pc = "cancel_legs", !.mem = m3,
                                        !.tier = 1, !.dirty = FALSE])
           ELSE /\ row' = IF job[p].dirty \/ m3 # m THEN m3 ELSE row
                /\ Finish(p)
    /\ UNCHANGED <<orders, fills, exited, bounded>>

-----------------------------------------------------------------------------
(* Selling out: cancel the resting legs, then sell what the fills leave.   *)

CancelLegs(p) ==
    /\ At(p, "cancel_legs")
    /\ LET m == job[p].mem IN
       /\ \E S \in SUBSET Resting(m.plan) :
            /\ "cancel" \in Faults \/ S = Resting(m.plan)
            /\ orders' = Cancelled({m.plan.xid[t] : t \in S})
       /\ Go(p, [job[p] EXCEPT !.pc = "exit", !.mem.plan = Unbound(@, Resting(@))])
    /\ UNCHANGED <<row, fills, exited, bounded>>

\* Mutant: the lots the tiers have sold are not deducted.
LotsBought(p) == Held(job[p].mem)

LotsLeft(p) == Held(job[p].mem) - exited

CloseSoldOut(p) ==
    /\ At(p, "exit") /\ LotsLeft(p) <= 0
    /\ row' = [job[p].mem EXCEPT !.status = "CLOSED"]
    /\ Finish(p)
    /\ UNCHANGED <<orders, fills, exited, bounded>>

RefuseSmallExit(p) ==
    /\ At(p, "exit") /\ LotsLeft(p) > 0 /\ LotsLeft(p) < MinQty
    /\ Finish(p)
    /\ UNCHANGED <<orders, row, fills, exited, bounded>>

LiveExit(i) == IsLatest(i, ExitCid) /\ orders[i].live

AdoptExit(p) ==
    /\ At(p, "exit") /\ LotsLeft(p) >= MinQty
    /\ \E i \in DOMAIN orders :
         /\ LiveExit(i)
         /\ row' = [job[p].mem EXCEPT !.exitXid = i, !.exitCid = TRUE]
    /\ Finish(p)
    /\ UNCHANGED <<orders, fills, exited, bounded>>

PrepareExit(p) ==
    /\ At(p, "exit") /\ LotsLeft(p) >= MinQty
    /\ ~\E i \in DOMAIN orders : LiveExit(i)
    /\ Go(p, [job[p] EXCEPT !.pc = "exit_post", !.want = LotsLeft(p)])
    /\ UNCHANGED <<orders, row, fills, exited, bounded>>

BindExit(p) ==
    /\ At(p, "exit_bind")
    /\ \E id \in AnsweredIds(p) :
         row' = [job[p].mem EXCEPT !.exitXid = id, !.exitCid = TRUE]
    /\ Finish(p)
    /\ UNCHANGED <<orders, fills, exited, bounded>>

-----------------------------------------------------------------------------
(* The venue, the clock, and a handler that ends in an exception or with   *)
(* its process: a refused call, a lost answer or a crash all leave the row *)
(* as last saved and drop the record in memory.                            *)

Quiet == "race" \in Faults \/ \A p \in Procs : At(p, "idle")

Fill(i) ==
    /\ Quiet
    /\ orders[i].live
    /\ LET got == orders[i].exec + 1 IN
       orders' = [orders EXCEPT ![i].exec = got, ![i].live = got < orders[i].qty]
    /\ UNCHANGED <<row, fills, exited, job, bounded>>

Expire(i) ==
    /\ Quiet
    /\ expiries < MaxExpiries
    /\ orders[i].live
    /\ orders[i].exec > 0 => "partial" \in Faults
    /\ orders' = Cancelled({i})
    /\ expiries' = expiries + 1
    /\ UNCHANGED <<row, fills, exited, job, age, fails>>

GetOlder ==
    /\ row.status # "NONE" /\ age < MaxAge
    /\ age' = age + 1
    /\ UNCHANGED <<orders, row, fills, exited, job, fails, expiries>>

Fail(p) ==
    /\ ~At(p, "idle") /\ fails < MaxFails
    /\ Finish(p)
    /\ fails' = fails + 1
    /\ UNCHANGED <<orders, row, fills, exited, age, expiries>>

-----------------------------------------------------------------------------
Tick(p) == \E mark \in Marks \cup {NoMark} : StartReconcile(p, mark)

Start(p) ==
    \/ SubmitEntry(p)
    \/ Tick(p)
    \/ StartClose(p)
    \/ \E stop \in Marks : Adjust(p, stop)

Continue(p) ==
    \/ PostEntry(p) \/ BindEntry(p) \/ ResolvePending(p)
    \/ SyncEntry(p) \/ SyncExit(p)
    \/ CancelEntry(p) \/ SaveCancelled(p) \/ CancelPartialEntry(p)
    \/ RefuseSmallLeg(p) \/ AdoptLeg(p) \/ PrepareLeg(p) \/ BindLeg(p)
    \/ PostSell(p) \/ RejectSell(p)
    \/ SyncLeg(p) \/ FinishLegs(p) \/ CancelLegs(p)
    \/ CloseSoldOut(p) \/ RefuseSmallExit(p) \/ AdoptExit(p) \/ PrepareExit(p) \/ BindExit(p)

Venue == \E i \in DOMAIN orders : Fill(i) \/ Expire(i)

Next ==
    \/ \E p \in Procs : Start(p) \/ Continue(p) \/ Fail(p)
    \/ Venue
    \/ GetOlder

Spec == Init /\ [][Next]_vars

\* Handlers run to their end and the fast monitor reconciles again every minute;
\* neither the venue nor the operator owes the program anything.
FairSpec ==
    /\ Spec
    /\ WF_vars(GetOlder)
    /\ \A p \in Procs : WF_vars(Continue(p)) /\ WF_vars(Tick(p))

-----------------------------------------------------------------------------
(* Properties.                                                             *)

\* A tier's slice is sold once: of the orders ever posted under one tier's
\* client id at most one rests or has sold, across crashes, lost answers and
\* answers without an order id (_place_leg_order, "instead of stacking a
\* duplicate sell").
TierSoldAtMostOnce ==
    \A i, j \in DOMAIN orders :
        /\ i # j /\ orders[i].cid = orders[j].cid /\ orders[i].cid \in Tiers
        => ~(Active(orders[i]) /\ Active(orders[j]))

\* An entry that can still buy is always known to a row that reconcile visits.
LiveEntryTracked ==
    (\E i \in Entries : orders[i].live) => row.status \in {"PENDING_SUBMIT", "ENTRY_OPEN"}

\* A banked tier is backed by a sale: no order of that tier rests any more, and
\* the plan records the lots the venue sold for it.
BankedTierSold ==
    \A t \in Tiers : row.plan.filled[t] =>
        /\ row.plan.sold[t] > 0
        /\ \A i \in Sells : orders[i].cid = t => ~orders[i].live
        /\ row.plan.sold[t] = Lots({i \in Sells : orders[i].cid = t}, LAMBDA o : o.exec)

\* The stop never sits below the floor a banked tier has locked in.
BankedTierLocksStop ==
    \A t \in Tiers : row.plan.filled[t] => row.plan.stop >= RatchetTo(t)

\* The program never sells, or offers to sell, more than the entry bought.
NeverOversold == Sold + Committed <= Bought

\* The resting tiers alone never exceed what is held (_place_resting_tps,
\* "resting tiers can never over-commit the balance").
LegsWithinHeld == Unsold({i \in LiveSells : orders[i].cid \in Tiers}) <= Bought - Sold

\* Nor does the order that closes the position (close_position, "never orphan
\* resting sells or over-commit the close").
CloseWithinHeld == Unsold({i \in LiveSells : orders[i].cid = ExitCid}) <= Bought - Sold

\* A closed row leaves nothing behind at the venue.
ClosedIsFlat == row.status = "CLOSED" => Bought = Sold /\ LiveSells = {}

\* A cancelled row leaves nothing behind at the venue.
CanceledIsFlat ==
    row.status = "CANCELED" => Bought = 0 /\ \A i \in DOMAIN orders : ~orders[i].live

Tracked == row.status \in {"POSITION_OPEN", "CLOSED"}

\* A submit whose answer was lost does not stay undecided: reconcile adopts it or,
\* after the grace, discards it (_resolve_pending_submit).
SubmitResolved == row.status = "PENDING_SUBMIT" ~> row.status # "PENDING_SUBMIT"

\* An entry that filled becomes a position with exits, whatever was lost on the way.
FilledEntryManaged ==
    (\E i \in Entries : StatusOf(orders[i]) = "FILLED") ~> Tracked

\* So does an entry that bought some of its lots and then died at the venue.
DeadEntryManaged ==
    (\E i \in Entries : StatusOf(orders[i]) = "CANCELED" /\ orders[i].exec > 0) ~> Tracked

\* A position whose last lot is sold gets closed.
SoldOutCloses == (Bought = Qty /\ Sold = Bought) ~> row.status = "CLOSED"

\* A closed or cancelled row is final.
FinalRowFrozen == [][row.status \in FinalStatuses => row' = row]_vars

\* The stored stop only ever moves up.
StopOnlyRises == [][row.status # "NONE" => row'.plan.stop >= row.plan.stop]_vars

-----------------------------------------------------------------------------
(* The detailed specification implements the lifecycle of the documents.   *)

TierState(t) ==
    LET own == {i \in DOMAIN orders : orders[i].cid = t}
    IN  CASE \E i \in own : orders[i].live -> "resting"
          [] \A i \in own : ~Active(orders[i]) -> "unsold"
          [] OTHER -> "sold"

Lifecycle == INSTANCE PositionLifecycle WITH
    status <- row.status,
    tier <- [t \in Tiers |-> TierState(t)],
    stop <- row.plan.stop

\* The row follows the diagram, a tier rests only while unsold and for an open
\* position, and the stop only moves up (docs/architecture.md, section 7).
RefinesLifecycle == Lifecycle!Spec

=============================================================================
