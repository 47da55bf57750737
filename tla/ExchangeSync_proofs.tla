-------------------------- MODULE ExchangeSync_proofs --------------------------
(***************************************************************************)
(* Theorems about ExchangeSync for every ladder, quantity, bound and set   *)
(* of processes.  Part 1 proves the types, part 2 that a tier is sold at   *)
(* most once when every handler runs under the invocation lock.            *)
(***************************************************************************)
EXTENDS ExchangeSync, TLAPS, SequenceTheorems

LEMMA LadderConstants ==
    /\ NTiers \in Nat \ {0} /\ SizePct \in [Tiers -> 1..100] /\ Target \in [Tiers -> Nat]
    /\ EntryPrice \in Nat /\ InitialStop \in Nat /\ BreakevenTier \in Nat
    /\ LockTier \in Nat /\ TrailDistance \in Nat
  BY LadderAssumption DEF LadderAssumption

LEMMA SyncConstants ==
    /\ Qty \in Nat /\ MinQty \in Nat \ {0} /\ MaxOrders \in Nat
    /\ (\A m \in Marks : m \in Nat) /\ Unlocked \subseteq Procs
  BY SyncAssumption DEF SyncAssumption

-----------------------------------------------------------------------------
(* Part 1.  A pointer names an order the venue has seen, so what a handler *)
(* reads through it is a quantity.                                         *)

Known(m, n) ==
    /\ m.xid <= n /\ m.exitXid <= n
    /\ \A t \in Tiers : m.plan.xid[t] <= n

RowOK(m, n) == m \in Rows /\ Known(m, n)

JobOK(j, n) ==
    /\ j \in Jobs /\ Known(j.mem, n) /\ j.ref <= n
    /\ j.pc = "entry_bind" => j.ref # NoId
    /\ j.pc \in {"leg_post", "exit_post"} => j.want \in Nat
    /\ j.pc = "leg_post" => j.tier \in Tiers

TypeInv ==
    /\ TypeOK
    /\ Len(orders) <= MaxOrders
    /\ RowOK(row, Len(orders))
    /\ \A p \in Procs : JobOK(job[p], Len(orders))

\* What the operators of the model return, given arguments of the right type.
LEMMA FreshPlanOK == FreshPlan \in Plans /\ \A t \in Tiers : FreshPlan.xid[t] = 0
  BY LadderConstants DEF FreshPlan, Plans

LEMMA NoRowOK == ASSUME NEW n \in Nat PROVE RowOK(NoRow, n)
  BY FreshPlanOK DEF RowOK, Known, NoRow, Rows, Statuses, OpenStatuses, FinalStatuses,
                     ExchangeStatuses, NoId

LEMMA IdleOK == ASSUME NEW n \in Nat PROVE JobOK(Idle, n)
  <1>1. NoRow \in Rows /\ Known(NoRow, n)
    BY NoRowOK DEF RowOK
  <1>2. Idle \in Jobs
    BY <1>1 DEF Idle, Jobs, Points, Kinds, NoMark, NoId
  <1> QED
    BY <1>1, <1>2 DEF JobOK, Idle, NoId

LEMMA HeldOK == ASSUME NEW m \in Rows PROVE Held(m) \in Nat
  BY SyncConstants DEF Held, Rows

LEMMA LegQuantityOK ==
    ASSUME NEW j \in Jobs, NEW t \in Tiers PROVE LegQuantity(j, t) \in Int
  <1>1. Held(j.mem) \in Nat
    BY HeldOK DEF Jobs
  <1>2. SizePct[t] \in Nat
    BY LadderConstants
  <1>3. (Held(j.mem) * SizePct[t]) \div 100 \in Int
    BY <1>1, <1>2
  <1> QED
    BY <1>3 DEF LegQuantity, TierQuantity, Jobs

LEMMA RatchetOK == ASSUME NEW t \in Tiers PROVE RatchetTo(t) \in Nat
  <1>1. t # 1 => Target[t - 1] \in Nat
    BY LadderConstants DEF Tiers
  <1> QED
    BY <1>1, LadderConstants DEF RatchetTo, Higher, Tiers

LEMMA TierFilledOK ==
    ASSUME NEW plan \in Plans, NEW t \in Tiers, NEW q \in Nat
    PROVE  TierFilled(plan, t, q) \in Plans /\ TierFilled(plan, t, q).xid = plan.xid
  BY RatchetOK DEF TierFilled, Plans, Higher

LEMMA TrailedOK ==
    ASSUME NEW plan \in Plans, NEW mark \in Nat
    PROVE  Trailed(plan, mark) \in Plans /\ Trailed(plan, mark).xid = plan.xid
  <1> DEFINE high == Higher(plan.high, mark)
             trails == RunnerActive(plan) /\ TrailDistance > 0 /\ high >= TrailDistance
             stop == IF trails THEN Higher(plan.stop, high - TrailDistance) ELSE plan.stop
  <1>1. high \in Nat
    BY DEF Higher, Plans
  <1>2. stop \in Nat
    <2>1. CASE trails
      BY <1>1, <2>1, LadderConstants DEF Higher, Plans
    <2>2. CASE ~trails
      BY <2>2 DEF Plans
    <2> QED
      BY <2>1, <2>2
  <1>3. Trailed(plan, mark) = [plan EXCEPT !.high = high, !.stop = stop]
    BY DEF Trailed
  <1> HIDE DEF high, stop
  <1> QED
    BY <1>1, <1>2, <1>3 DEF Plans

LEMMA BoundOK ==
    ASSUME NEW plan \in Plans, NEW t, NEW id \in Nat
    PROVE  /\ Bound(plan, t, id) \in Plans
           /\ \A u \in Tiers : Bound(plan, t, id).xid[u] \in {plan.xid[u], id}
  BY DEF Bound, Plans

LEMMA UnboundOK ==
    ASSUME NEW plan \in Plans, NEW S
    PROVE  /\ Unbound(plan, S) \in Plans
           /\ \A u \in Tiers : Unbound(plan, S).xid[u] \in {plan.xid[u], 0}
  BY DEF Unbound, Plans

LEMMA MarkOK == ASSUME NEW j \in Jobs PROVE j.mark \in Nat
  BY SyncConstants DEF Jobs, NoMark

LEMMA PlacingOK ==
    ASSUME NEW n \in Nat, NEW j \in Jobs, Known(j.mem, n), j.ref <= n
    PROVE  JobOK(Placing(j), n)
  <1>1. [j EXCEPT !.pc = "legs"] \in Jobs
    BY DEF Jobs, Points
  <1>2. [j EXCEPT !.pc = "sync_legs", !.tier = 1, !.avail = 0, !.want = 0, !.ref = NoId] \in Jobs
    <2>1. ASSUME NEW t \in Nat, NEW a \in Int, NEW w \in Int, NEW r \in Nat
          PROVE  [j EXCEPT !.pc = "sync_legs", !.tier = t, !.avail = a, !.want = w, !.ref = r]
                   \in Jobs
      BY <2>1 DEF Jobs, Points
    <2>2. 1 \in Nat /\ 0 \in Int /\ NoId \in Nat
      BY DEF NoId
    <2> QED
      BY <2>1, <2>2, Zenon
  <1>3. Placing(j) \in Jobs /\ Placing(j).mem = j.mem /\ Placing(j).ref <= n
        /\ Placing(j).pc \in {"legs", "sync_legs"}
    BY <1>1, <1>2 DEF Placing, Jobs, NoId
  <1> QED
    BY <1>3 DEF JobOK

LEMMA ReconciledOK ==
    ASSUME NEW n \in Nat, NEW j \in Jobs, j.ref <= n, NEW m, RowOK(m, n),
           NEW changed, NEW sold \in Int
    PROVE  JobOK(Reconciled(j, m, changed, sold), n)
  <1> DEFINE expired == [j EXCEPT !.pc = "cancel_entry", !.mem = m]
             broken == [j EXCEPT !.pc = "sync", !.kind = "close", !.mem = m]
             armed == [j EXCEPT !.mem = m, !.tier = 1, !.avail = Held(m) - sold]
  <1>1. JobOK(expired, n)
    BY DEF JobOK, RowOK, Jobs, Points
  <1>2. JobOK(broken, n)
    BY DEF JobOK, RowOK, Jobs, Points, Kinds
  <1>3. JobOK(Placing(armed), n)
    <2>1. Held(m) - sold \in Int
      BY HeldOK DEF RowOK
    <2>2. armed \in Jobs /\ armed.mem = m /\ armed.ref = j.ref
      BY <2>1 DEF RowOK, Jobs
    <2> QED
      BY <2>2, PlacingOK DEF RowOK
  <1>4. JobOK(Idle, n)
    BY IdleOK
  <1> HIDE DEF expired, broken, armed
  <1>5. Reconciled(j, m, changed, sold) \in {expired, broken, Placing(armed), Idle}
    BY DEF Reconciled, expired, broken, armed
  <1> QED
    BY <1>1, <1>2, <1>3, <1>4, <1>5

LEMMA ClosingOK ==
    ASSUME NEW n \in Nat, NEW j \in Jobs, j.ref <= n, NEW m, RowOK(m, n)
    PROVE  JobOK(Closing(j, m), n)
  <1> DEFINE to(pc) == [j EXCEPT !.pc = pc, !.mem = m]
  <1>1. ASSUME NEW pc \in {"cancel_entry", "cancel_partial", "cancel_legs"}
        PROVE  JobOK(to(pc), n)
    BY <1>1 DEF JobOK, RowOK, Jobs, Points
  <1>2. JobOK(Idle, n)
    BY IdleOK
  <1> HIDE DEF to
  <1>3. Closing(j, m) \in {to("cancel_entry"), to("cancel_partial"), to("cancel_legs"), Idle}
    BY DEF Closing, to
  <1> QED
    BY <1>1, <1>2, <1>3

LEMMA RefreshedOK ==
    ASSUME NEW n \in Nat, NEW j \in Jobs, j.ref <= n, NEW m, RowOK(m, n),
           NEW changed, NEW sold \in Int
    PROVE  JobOK(Refreshed(j, m, changed, sold), n)
  <1> DEFINE next == CASE j.kind = "reconcile" -> Reconciled(j, m, changed, sold)
                       [] j.kind = "close" -> Closing(j, m)
                       [] OTHER -> Idle
  <1>1. JobOK(Idle, n)
    BY IdleOK
  <1>2. JobOK(next, n)
    BY <1>1, ReconciledOK, ClosingOK
  <1>3. Refreshed(j, m, changed, sold) = IF next.pc = "idle" THEN Idle ELSE [next EXCEPT !.dirty = FALSE]
    BY DEF Refreshed
  <1> HIDE DEF next
  <1>4. JobOK([next EXCEPT !.dirty = FALSE], n)
    BY <1>2 DEF JobOK, Jobs
  <1> QED
    BY <1>1, <1>3, <1>4

LEMMA StatusOK == ASSUME NEW o PROVE StatusOf(o) \in ExchangeStatuses
  BY DEF StatusOf, ExchangeStatuses

LEMMA OrderOK ==
    ASSUME orders \in Seq(VenueOrders), NEW i \in DOMAIN orders
    PROVE  i \in Nat /\ i <= Len(orders) /\ orders[i] \in VenueOrders
  <1>1. DOMAIN orders = 1..Len(orders) /\ Len(orders) \in Nat
    BY LenProperties
  <1> QED
    BY <1>1, ElementOfSeq

LEMMA SyncedEntryOK ==
    ASSUME NEW n \in Nat, NEW m, RowOK(m, n), orders \in Seq(VenueOrders),
           NEW i \in DOMAIN orders, i <= n
    PROVE  RowOK(SyncedEntry(m, i), n)
  <1> DEFINE m2 == [m EXCEPT !.xid = i, !.exStatus = StatusOf(orders[i]), !.exec = orders[i].exec]
  <1>1. i \in Nat /\ orders[i].exec \in Nat
    BY OrderOK DEF VenueOrders
  <1>2. RowOK(m2, n)
    BY <1>1, StatusOK DEF RowOK, Known, Rows
  <1>3. ASSUME NEW s \in {"POSITION_OPEN", "CANCELED"} PROVE RowOK([m2 EXCEPT !.status = s], n)
    <2> HIDE DEF m2
    <2> QED
      BY <1>2, <1>3 DEF RowOK, Known, Rows, Statuses, OpenStatuses, FinalStatuses
  <1>4. SyncedEntry(m, i) \in {m2, [m2 EXCEPT !.status = "POSITION_OPEN"],
                               [m2 EXCEPT !.status = "CANCELED"]}
    BY DEF SyncedEntry
  <1> HIDE DEF m2
  <1> QED
    BY <1>2, <1>3, <1>4

LEMMA SyncedExitOK ==
    ASSUME NEW n \in Nat, NEW m, RowOK(m, n), NEW o
    PROVE  RowOK(SyncedExit(m, o), n)
  <1>1. RowOK([m EXCEPT !.status = "CLOSED"], n)
    BY DEF RowOK, Known, Rows, Statuses, FinalStatuses
  <1>2. RowOK([m EXCEPT !.exitXid = NoId, !.exitCid = FALSE], n)
    <2>1. ASSUME NEW x \in Nat, x <= n, NEW c \in BOOLEAN
          PROVE  RowOK([m EXCEPT !.exitXid = x, !.exitCid = c], n)
      BY <2>1 DEF RowOK, Known, Rows
    <2>2. NoId \in Nat /\ NoId <= n /\ FALSE \in BOOLEAN
      BY DEF NoId
    <2> QED
      BY <2>1, <2>2, Zenon
  <1> QED
    BY <1>1, <1>2 DEF SyncedExit

LEMMA LegSyncedOK ==
    ASSUME NEW plan \in Plans, NEW t \in Tiers, NEW o \in VenueOrders
    PROVE  /\ LegSynced(plan, t, o) \in Plans
           /\ \A u \in Tiers : LegSynced(plan, t, o).xid[u] \in {plan.xid[u], 0}
  <1>1. o.exec \in Nat
    BY DEF VenueOrders
  <1> QED
    BY <1>1, TierFilledOK, UnboundOK DEF LegSynced

LEMMA MoreOrders ==
    ASSUME NEW n \in Nat, NEW k \in Nat, n <= k
    PROVE  /\ \A m : RowOK(m, n) => RowOK(m, k)
           /\ \A j : JobOK(j, n) => JobOK(j, k)
  <1>1. ASSUME NEW m, m \in Rows, Known(m, n) PROVE Known(m, k)
    BY <1>1 DEF Known, Rows, Plans
  <1>2. ASSUME NEW j, JobOK(j, n) PROVE JobOK(j, k)
    BY <1>1, <1>2 DEF JobOK, Jobs
  <1> QED
    BY <1>1, <1>2 DEF RowOK

\* The step of a handler: its job is replaced, the others keep theirs.
LEMMA HandlerStep ==
    ASSUME TypeInv, NEW p \in Procs, NEW j, Go(p, j),
           orders' \in Seq(VenueOrders), Len(orders) <= Len(orders'), Len(orders') <= MaxOrders,
           JobOK(j, Len(orders')), RowOK(row', Len(orders')),
           fills' \in [1..MaxOrders -> Nat], exited' \in Int,
           age' \in Nat, fails' \in Nat, expiries' \in Nat
    PROVE  TypeInv'
  <1>1. Len(orders) \in Nat /\ Len(orders') \in Nat
    BY LenProperties DEF TypeInv, TypeOK
  <1>2. job' \in [Procs -> Jobs] /\ \A q \in Procs : JobOK(job'[q], Len(orders'))
    <2>1. job \in [Procs -> Jobs] /\ job' = [job EXCEPT ![p] = j] /\ j \in Jobs
      BY DEF TypeInv, TypeOK, Go, JobOK
    <2>2. \A q \in Procs : JobOK(job[q], Len(orders'))
      BY <1>1, MoreOrders DEF TypeInv
    <2> QED
      BY <2>1, <2>2
  <1> QED
    BY <1>2 DEF TypeInv, TypeOK, RowOK

\* A step that leaves the venue alone.
LEMMA LocalStep ==
    ASSUME TypeInv, NEW p \in Procs, NEW j, Go(p, j), UNCHANGED <<orders, bounded>>,
           JobOK(j, Len(orders)), RowOK(row', Len(orders)),
           fills' \in [1..MaxOrders -> Nat], exited' \in Int
    PROVE  TypeInv'
  BY HandlerStep DEF TypeInv, TypeOK, bounded

\* One that only changes the row and the handler.
LEMMA SaveStep ==
    ASSUME TypeInv, NEW p \in Procs, NEW j, Go(p, j), UNCHANGED <<orders, fills, exited, bounded>>,
           JobOK(j, Len(orders)), RowOK(row', Len(orders))
    PROVE  TypeInv'
  BY LocalStep DEF TypeInv, TypeOK

\* One that only sends the handler on its way.
LEMMA MoveStep ==
    ASSUME TypeInv, NEW p \in Procs, NEW j, Go(p, j),
           UNCHANGED <<orders, row, fills, exited, bounded>>, JobOK(j, Len(orders))
    PROVE  TypeInv'
  BY SaveStep DEF TypeInv

LEMMA VenueCount == TypeInv => Len(orders) \in Nat /\ orders \in Seq(VenueOrders)
  BY LenProperties DEF TypeInv, TypeOK

LEMMA IngestOK ==
    ASSUME TypeInv, NEW i \in DOMAIN orders, Ingest(i)
    PROVE  fills' \in [1..MaxOrders -> Nat] /\ exited' \in Int
  <1>1. i \in 1..MaxOrders /\ orders[i].exec \in Nat
    BY OrderOK, SyncConstants DEF TypeInv, TypeOK, VenueOrders
  <1>2. fills \in [1..MaxOrders -> Nat] /\ exited \in Int
    BY DEF TypeInv, TypeOK
  <1> QED
    BY <1>1, <1>2 DEF Ingest

LEMMA InitTypeInv == Init => TypeInv
  <1> SUFFICES ASSUME Init PROVE TypeInv
    OBVIOUS
  <1>1. orders \in Seq(VenueOrders) /\ Len(orders) = 0
    BY EmptySeq DEF Init
  <1>2. RowOK(NoRow, 0) /\ JobOK(Idle, 0) /\ NoRow \in Rows /\ Idle \in Jobs
    BY NoRowOK, IdleOK DEF RowOK, JobOK
  <1> QED
    BY <1>1, <1>2, SyncConstants DEF Init, TypeInv, TypeOK

\* What a running handler may be taken to have.
LEMMA JobFacts ==
    ASSUME TypeInv, NEW p \in Procs
    PROVE  /\ job[p] \in Jobs /\ job[p].mem \in Rows /\ job[p].mark \in Nat
           /\ RowOK(job[p].mem, Len(orders)) /\ JobOK(job[p], Len(orders))
           /\ Known(job[p].mem, Len(orders)) /\ job[p].ref \in Nat /\ job[p].ref <= Len(orders)
  <1>1. JobOK(job[p], Len(orders)) /\ job[p] \in Jobs
    BY DEF TypeInv, JobOK
  <1>2. job[p].mem \in Rows /\ job[p].ref \in Nat
    BY <1>1 DEF Jobs
  <1> QED
    BY <1>1, <1>2, MarkOK DEF JobOK, RowOK

LEMMA RunPreserves ==
    ASSUME TypeInv, NEW p \in Procs, NEW pc \in Points \ {"entry_bind", "leg_post", "exit_post"}
    PROVE  JobOK([job[p] EXCEPT !.pc = pc], Len(orders))
  BY JobFacts DEF JobOK, Jobs

\* Every action keeps TypeInv: one lemma each, named for the action, with the
\* lemmas on what the action's operators return before it.
LEMMA SubmitEntryType ==
    ASSUME TypeInv, NEW p \in Procs, SubmitEntry(p) PROVE TypeInv'
  <1> DEFINE r == [NoRow EXCEPT !.status = "PENDING_SUBMIT"]
             j == [Idle EXCEPT !.pc = "entry_post", !.kind = "submit", !.mem = r]
  <1>1. RowOK(r, Len(orders))
    BY NoRowOK, VenueCount DEF RowOK, Known, Rows, Statuses, OpenStatuses
  <1>2. JobOK(j, Len(orders))
    <2> HIDE DEF r
    <2> QED
      BY <1>1, IdleOK, VenueCount DEF JobOK, RowOK, Jobs, Points, Kinds
  <1>3. Go(p, j) /\ row' = r /\ UNCHANGED <<orders, fills, exited, bounded>>
    BY DEF SubmitEntry
  <1> HIDE DEF r, j
  <1> QED
    BY <1>1, <1>2, <1>3, SaveStep

\* An order appended to the venue's.
LEMMA PlacedOK ==
    ASSUME TypeInv, NEW cid \in Cids, NEW qty \in Nat
    PROVE  /\ Placed(cid, qty) \in Seq(VenueOrders)
           /\ Len(Placed(cid, qty)) = Len(orders) + 1
  BY VenueCount, AppendProperties DEF Placed, VenueOrders

\* The answer to a post names the order it created.
LEMMA AnswerKnown ==
    ASSUME NEW n \in Nat, NEW j, JobOK(j, n + 1),
           NEW pc \in {"entry_bind", "leg_bind", "exit_bind"}
    PROVE  JobOK([j EXCEPT !.pc = pc, !.ref = n + 1], n + 1)
  <1> DEFINE r == n + 1
  <1>1. r \in Nat /\ r # NoId /\ r <= n + 1
    BY DEF NoId
  <1> HIDE DEF r
  <1>2. JobOK([j EXCEPT !.pc = pc, !.ref = r], n + 1)
    BY <1>1 DEF JobOK, Jobs, Points
  <1> QED
    BY <1>2 DEF r

LEMMA PostEntryType ==
    ASSUME TypeInv, NEW p \in Procs, PostEntry(p) PROVE TypeInv'
  <1> DEFINE j == [job[p] EXCEPT !.pc = "entry_bind", !.ref = Len(orders) + 1]
  <1>1. EntryCid \in Cids
    BY LadderConstants DEF EntryCid, Cids, ExitCid
  <1>2. orders' \in Seq(VenueOrders) /\ Len(orders') = Len(orders) + 1
    BY <1>1, PlacedOK, SyncConstants DEF PostEntry
  <1>3. Len(orders) \in Nat /\ Len(orders) < MaxOrders
    BY VenueCount DEF PostEntry
  <1>4. JobOK(job[p], Len(orders')) /\ RowOK(row', Len(orders'))
    BY <1>2, <1>3, MoreOrders, JobFacts DEF TypeInv, PostEntry
  <1>5. JobOK(j, Len(orders'))
    BY <1>2, <1>3, <1>4, AnswerKnown
  <1>6. Go(p, j) /\ UNCHANGED <<fills, exited, bounded>>
    BY DEF PostEntry
  <1> HIDE DEF j
  <1> QED
    BY <1>2, <1>3, <1>4, <1>5, <1>6, SyncConstants, HandlerStep DEF TypeInv, TypeOK, bounded

LEMMA BindEntryType ==
    ASSUME TypeInv, NEW p \in Procs, BindEntry(p) PROVE TypeInv'
  <1> DEFINE i == job[p].ref
             m == job[p].mem
             r == [m EXCEPT !.status = "ENTRY_OPEN", !.xid = i,
                            !.exStatus = StatusOf(orders[i]), !.exec = orders[i].exec]
  <1>1. i \in DOMAIN orders
    BY JobFacts, VenueCount DEF JobOK, BindEntry, At, NoId
  <1>2. i \in Nat /\ i <= Len(orders) /\ orders[i].exec \in Nat
    BY <1>1, OrderOK, VenueCount DEF VenueOrders
  <1>3. m \in Rows /\ Known(m, Len(orders))
    BY JobFacts
  <1>4. RowOK(r, Len(orders))
    <2> HIDE DEF i, m
    <2> QED
      BY <1>2, <1>3, StatusOK DEF RowOK, Known, Rows, Statuses, OpenStatuses
  <1>5. row' = r \/ row' = row
    BY DEF BindEntry
  <1>6. RowOK(row', Len(orders))
    BY <1>4, <1>5 DEF TypeInv
  <1>7. Go(p, Idle) /\ UNCHANGED <<orders, fills, exited, bounded>>
    BY DEF BindEntry, Finish
  <1> QED
    BY <1>6, <1>7, IdleOK, VenueCount, SaveStep

LEMMA StartReconcileType ==
    ASSUME TypeInv, NEW p \in Procs, NEW mark \in Marks \cup {NoMark}, StartReconcile(p, mark)
    PROVE  TypeInv'
  <1> DEFINE pc == IF row.status = "PENDING_SUBMIT" THEN "pending" ELSE "sync"
             j == [Idle EXCEPT !.pc = pc, !.kind = "reconcile", !.mem = row, !.mark = mark]
  <1>1. pc \in {"pending", "sync"}
    OBVIOUS
  <1> HIDE DEF pc
  <1>2. JobOK(j, Len(orders))
    BY <1>1, IdleOK, VenueCount DEF JobOK, TypeInv, RowOK, Jobs, Points, Kinds
  <1>3. Go(p, j) /\ UNCHANGED <<orders, row, fills, exited, bounded>>
    BY DEF StartReconcile, pc
  <1> HIDE DEF j
  <1> QED
    BY <1>2, <1>3, MoveStep

LEMMA StartCloseType ==
    ASSUME TypeInv, NEW p \in Procs, StartClose(p) PROVE TypeInv'
  <1> DEFINE j == [Idle EXCEPT !.pc = "sync", !.kind = "close", !.mem = row]
  <1>1. JobOK(j, Len(orders))
    BY IdleOK, VenueCount DEF JobOK, TypeInv, RowOK, Jobs, Points, Kinds
  <1>2. Go(p, j) /\ UNCHANGED <<orders, row, fills, exited, bounded>>
    BY DEF StartClose
  <1> HIDE DEF j
  <1> QED
    BY <1>1, <1>2, MoveStep

LEMMA AdjustType ==
    ASSUME TypeInv, NEW p \in Procs, NEW stop \in Marks, Adjust(p, stop) PROVE TypeInv'
  <1>1. RowOK(row', Len(orders)) /\ row' \in Rows
    BY SyncConstants DEF Adjust, TypeInv, RowOK, Known, Rows, Plans
  <1> QED
    BY <1>1 DEF Adjust, TypeInv, TypeOK, bounded

LEMMA LookupOK ==
    ASSUME TypeInv, NEW id \in Nat, id <= Len(orders), NEW cid, NEW i \in Lookup(id, cid)
    PROVE  i \in DOMAIN orders /\ i \in Nat /\ i <= Len(orders)
  <1>1. i \in DOMAIN orders
    BY VenueCount DEF Lookup, IsLatest, NoId
  <1> QED
    BY <1>1, OrderOK, VenueCount

LEMMA ResolvePendingType ==
    ASSUME TypeInv, NEW p \in Procs, ResolvePending(p) PROVE TypeInv'
  <1> DEFINE m == job[p].mem
             n == Len(orders)
  <1>1. m \in Rows /\ Known(m, n) /\ n \in Nat
    BY JobFacts, VenueCount
  <1>2. CASE \E i \in Lookup(NoId, EntryCid) :
               /\ row' = [m EXCEPT !.status = "ENTRY_OPEN", !.xid = i]
               /\ Go(p, [job[p] EXCEPT !.pc = "sync", !.kind = "adopt", !.mem = row'])
    <2>1. PICK i \in Lookup(NoId, EntryCid) :
               /\ row' = [m EXCEPT !.status = "ENTRY_OPEN", !.xid = i]
               /\ Go(p, [job[p] EXCEPT !.pc = "sync", !.kind = "adopt", !.mem = row'])
      BY <1>2
    <2>2. i \in Nat /\ i <= n
      BY <1>1, LookupOK DEF NoId
    <2>3. RowOK(row', n)
      <3> HIDE DEF m, n
      <3> QED
        BY <1>1, <2>1, <2>2 DEF RowOK, Known, Rows, Statuses, OpenStatuses
    <2>4. JobOK([job[p] EXCEPT !.pc = "sync", !.kind = "adopt", !.mem = row'], n)
      BY <2>3, JobFacts DEF JobOK, RowOK, Jobs, Points, Kinds
    <2> QED
      BY <2>1, <2>3, <2>4, SaveStep DEF ResolvePending
  <1>3. CASE /\ row' = IF age = 0 THEN row ELSE [m EXCEPT !.status = "CANCELED"]
             /\ Finish(p)
    <2>1. RowOK([m EXCEPT !.status = "CANCELED"], n)
      <3> HIDE DEF m, n
      <3> QED
        BY <1>1 DEF RowOK, Known, Rows, Statuses, FinalStatuses
    <2>2. RowOK(row', n)
      BY <1>3, <2>1 DEF TypeInv
    <2> QED
      BY <1>1, <1>3, <2>2, IdleOK, SaveStep DEF ResolvePending, Finish
  <1> QED
    BY <1>2, <1>3 DEF ResolvePending

\* Sending on a refreshed order.
LEMMA RefreshStep ==
    ASSUME TypeInv, NEW p \in Procs, NEW m, RowOK(m, Len(orders)), NEW changed, NEW sold \in Int
    PROVE  JobOK(Refreshed(job[p], m, changed, sold), Len(orders))
  BY JobFacts, VenueCount, RefreshedOK

LEMMA SyncEntryType ==
    ASSUME TypeInv, NEW p \in Procs, SyncEntry(p) PROVE TypeInv'
  <1> DEFINE m == job[p].mem
             n == Len(orders)
             found == Lookup(m.xid, EntryCid)
  <1>1. RowOK(m, n) /\ m \in Rows /\ m.xid \in Nat /\ m.xid <= n /\ n \in Nat /\ exited \in Int
    BY JobFacts, VenueCount DEF Known, Rows, TypeInv, TypeOK
  <1>2. \A i \in found : RowOK(SyncedEntry(m, i), n)
    BY <1>1, LookupOK, SyncedEntryOK, VenueCount
  <1>3. UNCHANGED <<orders, fills, exited, bounded>>
    BY DEF SyncEntry
  <1>4. CASE /\ row' = [m EXCEPT !.exStatus = "UNKNOWN"]
             /\ Go(p, Refreshed(job[p], row', m.exStatus # "UNKNOWN", exited))
    <2>1. RowOK(row', n)
      <3> HIDE DEF m, n
      <3> QED
        BY <1>1, <1>4 DEF RowOK, Known, Rows, ExchangeStatuses
    <2> QED
      BY <1>1, <1>3, <1>4, <2>1, RefreshStep, SaveStep
  <1>5. CASE \E i \in found :
               /\ row' = SyncedEntry(m, i)
               /\ Go(p, Refreshed(job[p], row', Observed(row') # Observed(m), exited))
    <2>1. RowOK(row', n)
      BY <1>2, <1>5
    <2> QED
      BY <1>1, <1>3, <1>5, <2>1, RefreshStep, SaveStep
  <1>6. CASE \E i \in found :
               /\ Go(p, [job[p] EXCEPT !.pc = "sync_exit", !.mem = SyncedEntry(m, i),
                                       !.dirty = Observed(SyncedEntry(m, i)) # Observed(m)])
               /\ UNCHANGED row
    <2>1. PICK i \in found :
               /\ Go(p, [job[p] EXCEPT !.pc = "sync_exit", !.mem = SyncedEntry(m, i),
                                       !.dirty = Observed(SyncedEntry(m, i)) # Observed(m)])
               /\ UNCHANGED row
      BY <1>6
    <2>2. ASSUME NEW r, RowOK(r, n), NEW d \in BOOLEAN
          PROVE  JobOK([job[p] EXCEPT !.pc = "sync_exit", !.mem = r, !.dirty = d], n)
      BY <2>2, JobFacts DEF JobOK, RowOK, Jobs, Points
    <2> HIDE DEF m, n, found
    <2>3. JobOK([job[p] EXCEPT !.pc = "sync_exit", !.mem = SyncedEntry(m, i),
                               !.dirty = Observed(SyncedEntry(m, i)) # Observed(m)], n)
      BY <1>2, <2>1, <2>2
    <2> QED
      BY <1>3, <2>1, <2>3, MoveStep DEF n
  <1> QED
    BY <1>4, <1>5, <1>6 DEF SyncEntry

LEMMA SyncExitType ==
    ASSUME TypeInv, NEW p \in Procs, SyncExit(p) PROVE TypeInv'
  <1> DEFINE m == job[p].mem
             n == Len(orders)
  <1>1. RowOK(m, n) /\ m.exitXid \in Nat /\ m.exitXid <= n /\ n \in Nat
    BY JobFacts, VenueCount DEF Known, Rows
  <1>2. RowOK(row', n)
    BY <1>1, SyncedExitOK DEF SyncExit
  <1>3. fills' \in [1..MaxOrders -> Nat] /\ exited' \in Int
    <2>1. CASE m.exitXid # NoId
      BY <1>1, <2>1, IngestOK, VenueCount DEF SyncExit, NoId
    <2>2. CASE m.exitXid = NoId
      BY <2>2 DEF SyncExit, TypeInv, TypeOK
    <2> QED
      BY <2>1, <2>2
  <1>4. PICK changed : Go(p, Refreshed(job[p], row', changed, exited'))
    BY DEF SyncExit
  <1>5. JobOK(Refreshed(job[p], row', changed, exited'), n)
    BY <1>2, <1>3, RefreshStep
  <1>6. UNCHANGED <<orders, bounded>>
    BY DEF SyncExit
  <1> QED
    BY <1>2, <1>3, <1>4, <1>5, <1>6, LocalStep

LEMMA CancelledOK ==
    ASSUME TypeInv, NEW S
    PROVE  Cancelled(S) \in Seq(VenueOrders) /\ Len(Cancelled(S)) = Len(orders)
  <1>1. \A i \in DOMAIN orders : orders[i] \in VenueOrders
    BY OrderOK, VenueCount
  <1>2. \A i \in DOMAIN orders : Cancelled(S)[i] \in VenueOrders
    BY <1>1 DEF Cancelled, VenueOrders
  <1>3. DOMAIN orders = 1..Len(orders) /\ Len(orders) \in Nat
    BY VenueCount, LenProperties
  <1>4. Cancelled(S) \in [1..Len(orders) -> VenueOrders]
    BY <1>2, <1>3 DEF Cancelled
  <1> HIDE DEF Cancelled
  <1> QED
    BY <1>3, <1>4, SeqDef

\* A handler's step that cancels at the venue.
LEMMA CancelStep ==
    ASSUME TypeInv, NEW p \in Procs, NEW j, Go(p, j), NEW S, orders' = Cancelled(S),
           UNCHANGED <<row, fills, exited, bounded>>, JobOK(j, Len(orders))
    PROVE  TypeInv'
  <1>1. orders' \in Seq(VenueOrders) /\ Len(orders') = Len(orders) /\ Len(orders) \in Nat
    BY CancelledOK, VenueCount
  <1> QED
    BY <1>1, HandlerStep DEF TypeInv, TypeOK, bounded

LEMMA CancelEntryType ==
    ASSUME TypeInv, NEW p \in Procs, CancelEntry(p) PROVE TypeInv'
  <1>1. JobOK([job[p] EXCEPT !.pc = "cancel_saved"], Len(orders))
    BY RunPreserves DEF Points
  <1> QED
    BY <1>1, CancelStep DEF CancelEntry

LEMMA SaveCancelledType ==
    ASSUME TypeInv, NEW p \in Procs, SaveCancelled(p) PROVE TypeInv'
  <1>1. RowOK(row', Len(orders))
    BY JobFacts DEF SaveCancelled, RowOK, Known, Rows, Statuses, FinalStatuses
  <1> QED
    BY <1>1, IdleOK, VenueCount, SaveStep DEF SaveCancelled, Finish

LEMMA CancelPartialEntryType ==
    ASSUME TypeInv, NEW p \in Procs, CancelPartialEntry(p) PROVE TypeInv'
  <1> DEFINE r == [job[p].mem EXCEPT !.status = "POSITION_OPEN"]
             j == [job[p] EXCEPT !.pc = "cancel_legs", !.mem.status = "POSITION_OPEN"]
  <1>1. RowOK(r, Len(orders))
    BY JobFacts DEF RowOK, Known, Rows, Statuses, OpenStatuses
  <1>2. j = [job[p] EXCEPT !.pc = "cancel_legs", !.mem = r]
    BY JobFacts DEF Jobs
  <1>3. JobOK(j, Len(orders))
    <2> HIDE DEF r, j
    <2> QED
      BY <1>1, <1>2, JobFacts DEF JobOK, RowOK, Jobs, Points
  <1>4. Go(p, j)
    BY DEF CancelPartialEntry
  <1> HIDE DEF j
  <1> QED
    BY <1>3, <1>4, CancelStep DEF CancelPartialEntry

LEMMA FinishType ==
    ASSUME TypeInv, NEW p \in Procs, Finish(p), UNCHANGED <<orders, row, fills, exited, bounded>>
    PROVE  TypeInv'
  BY IdleOK, VenueCount, MoveStep DEF Finish

\* Saving the row with a leg bound, and going on with the next one.
LEMMA BindType ==
    ASSUME TypeInv, NEW p \in Procs, NEW t, NEW next, NEW left \in Int,
           NEW id \in Nat, id <= Len(orders), next \in Nat,
           row' = [job[p].mem EXCEPT !.plan = Bound(job[p].mem.plan, t, id)],
           Go(p, Placing([job[p] EXCEPT !.mem = row', !.tier = next, !.avail = left])),
           UNCHANGED <<orders, fills, exited, bounded>>
    PROVE  TypeInv'
  <1> DEFINE m == job[p].mem
             n == Len(orders)
             j == [job[p] EXCEPT !.mem = row', !.tier = next, !.avail = left]
  <1>1. m \in Rows /\ Known(m, n) /\ m.plan \in Plans /\ n \in Nat
    BY JobFacts, VenueCount DEF Rows
  <1>2. RowOK(row', n)
    <2>1. /\ Bound(m.plan, t, id) \in Plans
          /\ \A u \in Tiers : Bound(m.plan, t, id).xid[u] <= n
      BY <1>1, BoundOK DEF Known
    <2> HIDE DEF m, n
    <2> QED
      BY <1>1, <2>1 DEF RowOK, Known, Rows, m
  <1>3. j \in Jobs /\ Known(j.mem, n) /\ j.ref <= n
    BY <1>2, JobFacts DEF RowOK, Jobs
  <1>4. JobOK(Placing(j), n)
    BY <1>1, <1>3, PlacingOK
  <1> HIDE DEF j
  <1>5. Go(p, Placing(j))
    BY DEF j
  <1> QED
    BY <1>2, <1>4, <1>5, SaveStep

LEMMA AdoptLegType ==
    ASSUME TypeInv, NEW p \in Procs, AdoptLeg(p) PROVE TypeInv'
  <1>1. PICK t \in Tiers, i \in DOMAIN orders :
          /\ row' = [job[p].mem EXCEPT !.plan = Bound(job[p].mem.plan, t, i)]
          /\ Go(p, Placing([job[p] EXCEPT !.mem = row', !.tier = t + 1,
                                          !.avail = job[p].avail - LegQuantity(job[p], t)]))
    BY DEF AdoptLeg
  <1>2. i \in Nat /\ i <= Len(orders)
    BY OrderOK, VenueCount
  <1>3. t + 1 \in Nat /\ job[p].avail - LegQuantity(job[p], t) \in Int
    BY LegQuantityOK, JobFacts DEF Tiers, Jobs
  <1> QED
    BY <1>1, <1>2, <1>3, BindType DEF AdoptLeg

LEMMA PrepareLegType ==
    ASSUME TypeInv, NEW p \in Procs, PrepareLeg(p) PROVE TypeInv'
  <1>1. PICK t \in Tiers :
          /\ LegQuantity(job[p], t) >= MinQty
          /\ Go(p, [job[p] EXCEPT !.pc = "leg_post", !.tier = t, !.want = LegQuantity(job[p], t)])
    BY DEF PrepareLeg
  <1> DEFINE q == LegQuantity(job[p], t)
  <1>2. q \in Nat /\ q \in Int /\ t \in Nat
    BY <1>1, LegQuantityOK, JobFacts, SyncConstants DEF Tiers
  <1> HIDE DEF q
  <1>3. JobOK([job[p] EXCEPT !.pc = "leg_post", !.tier = t, !.want = q], Len(orders))
    <2> DEFINE j == [job[p] EXCEPT !.pc = "leg_post", !.tier = t, !.want = q]
    <2>1. j \in Jobs
      <3>1. job[p] \in Jobs
        BY JobFacts
      <3> QED
        BY <1>2, <3>1 DEF Jobs, Points
    <2>2. /\ j.mem = job[p].mem /\ j.ref = job[p].ref
          /\ j.pc = "leg_post" /\ j.want = q /\ j.tier = t
      BY JobFacts DEF Jobs
    <2>3. Known(job[p].mem, Len(orders)) /\ job[p].ref <= Len(orders)
      BY JobFacts
    <2> HIDE DEF j
    <2>4. JobOK(j, Len(orders))
      BY <1>2, <2>1, <2>2, <2>3 DEF JobOK
    <2> QED
      BY <2>4 DEF j
  <1> QED
    BY <1>1, <1>3, MoveStep DEF PrepareLeg, q

LEMMA PostSellType ==
    ASSUME TypeInv, NEW p \in Procs, PostSell(p) PROVE TypeInv'
  <1>1. job[p].want \in Nat /\ job[p].pc \in {"leg_post", "exit_post"}
    BY JobFacts DEF PostSell, JobOK
  <1>2. Cid(job[p]) \in Cids
    BY <1>1, JobFacts, LadderConstants DEF Cid, Cids, ExitCid, Tiers, JobOK
  <1>3. orders' \in Seq(VenueOrders) /\ Len(orders') = Len(orders) + 1
    BY <1>1, <1>2, PlacedOK DEF PostSell
  <1>4. Len(orders) \in Nat /\ Len(orders) < MaxOrders
    BY VenueCount DEF PostSell
  <1>5. JobOK(job[p], Len(orders')) /\ RowOK(row', Len(orders'))
    BY <1>3, <1>4, MoreOrders, JobFacts DEF TypeInv, PostSell
  <1>6. PICK pc \in {"leg_bind", "exit_bind"} :
            Go(p, [job[p] EXCEPT !.pc = pc, !.ref = Len(orders) + 1])
    BY DEF PostSell
  <1> DEFINE j == [job[p] EXCEPT !.pc = pc, !.ref = Len(orders) + 1]
  <1>7. JobOK(j, Len(orders'))
    BY <1>3, <1>4, <1>5, AnswerKnown
  <1>8. Go(p, j) /\ UNCHANGED <<fills, exited, bounded>>
    BY <1>6 DEF PostSell
  <1>9. /\ fills' \in [1..MaxOrders -> Nat] /\ exited' \in Int
        /\ age' \in Nat /\ fails' \in Nat /\ expiries' \in Nat
    BY <1>8 DEF TypeInv, TypeOK, bounded
  <1>10. Len(orders) <= Len(orders') /\ Len(orders') <= MaxOrders
    BY <1>3, <1>4, SyncConstants
  <1> HIDE DEF j
  <1> QED
    BY <1>3, <1>5, <1>7, <1>8, <1>9, <1>10, HandlerStep

LEMMA BindLegType ==
    ASSUME TypeInv, NEW p \in Procs, BindLeg(p) PROVE TypeInv'
  <1>1. PICK id \in AnsweredIds(p) :
          row' = [job[p].mem EXCEPT !.plan = Bound(job[p].mem.plan, job[p].tier, id)]
    BY DEF BindLeg
  <1>2. id \in Nat /\ id <= Len(orders)
    BY JobFacts, VenueCount DEF AnsweredIds, NoId
  <1>3. job[p].tier + 1 \in Nat /\ job[p].avail - job[p].want \in Int
    BY JobFacts DEF Jobs
  <1> QED
    BY <1>1, <1>2, <1>3, BindType DEF BindLeg

\* A handler that has its plan replaced by one that names no further orders.
LEMMA PlanOK ==
    ASSUME NEW n \in Nat, NEW m, RowOK(m, n), NEW plan \in Plans,
           \A u \in Tiers : plan.xid[u] <= n
    PROVE  RowOK([m EXCEPT !.plan = plan], n)
  BY DEF RowOK, Known, Rows

LEMMA SyncLegType ==
    ASSUME TypeInv, NEW p \in Procs, SyncLeg(p) PROVE TypeInv'
  <1> DEFINE m == job[p].mem
             n == Len(orders)
             plan == m.plan
  <1>1. PICK t \in Tiers :
          /\ NextResting(job[p], t)
          /\ Ingest(plan.xid[t])
          /\ Go(p, [job[p] EXCEPT !.mem.plan = LegSynced(plan, t, orders[plan.xid[t]]),
                                  !.tier = t + 1,
                                  !.dirty = job[p].dirty
                                            \/ LegSynced(plan, t, orders[plan.xid[t]]) # plan])
    BY DEF SyncLeg
  <1> DEFINE i == plan.xid[t]
             plan2 == LegSynced(plan, t, orders[i])
             d == job[p].dirty \/ plan2 # plan
             j == [job[p] EXCEPT !.mem.plan = plan2, !.tier = t + 1, !.dirty = d]
  <1>2. RowOK(m, n) /\ m \in Rows /\ Known(m, n) /\ plan \in Plans /\ n \in Nat /\ job[p] \in Jobs
    BY JobFacts, VenueCount DEF Rows
  <1>3. i \in DOMAIN orders /\ orders[i] \in VenueOrders
    <2>1. i \in Nat /\ i <= n /\ i # 0
      BY <1>1, <1>2 DEF NextResting, Resting, Known, Plans
    <2>2. DOMAIN orders = 1..n
      BY VenueCount, LenProperties
    <2> QED
      BY <1>2, <2>1, <2>2, OrderOK, VenueCount
  <1>4. fills' \in [1..MaxOrders -> Nat] /\ exited' \in Int
    BY <1>1, <1>3, IngestOK
  <1>5. plan2 \in Plans /\ \A u \in Tiers : plan2.xid[u] <= n
    <2>1. \A u \in Tiers : plan.xid[u] <= n
      BY <1>2 DEF Known
    <2> HIDE DEF plan, i, n
    <2> QED
      BY <1>2, <1>3, <2>1, LegSyncedOK
  <1>6. d \in BOOLEAN /\ t + 1 \in Nat
    BY <1>2 DEF Jobs, Tiers
  <1>7. j = [job[p] EXCEPT !.mem = [m EXCEPT !.plan = plan2], !.tier = t + 1, !.dirty = d]
    <2> HIDE DEF plan2, d
    <2> QED
      BY <1>2 DEF Jobs, Rows
  <1>8. Go(p, j) /\ UNCHANGED <<orders, row, bounded>>
    BY <1>1 DEF SyncLeg
  <1> HIDE DEF plan2, d, j, plan
  <1>9. RowOK([m EXCEPT !.plan = plan2], n)
    BY <1>2, <1>5, PlanOK
  <1>10. JobOK(j, n)
    <2> DEFINE r == [m EXCEPT !.plan = plan2]
    <2>1. r \in Rows /\ Known(r, n)
      BY <1>9 DEF RowOK
    <2> HIDE DEF r
    <2>2. JobOK([job[p] EXCEPT !.mem = r, !.tier = t + 1, !.dirty = d], n)
      <3>1. job[p].pc = "sync_legs"
        BY DEF SyncLeg, At
      <3> QED
        BY <1>2, <1>6, <2>1, <3>1, JobFacts DEF JobOK, Jobs
    <2> QED
      BY <1>7, <2>2 DEF r
  <1> QED
    BY <1>4, <1>8, <1>10, LocalStep DEF TypeInv

\* RowOK is kept by closing the position and by trailing its plan.
LEMMA ClosedOK ==
    ASSUME NEW n \in Nat, NEW m, RowOK(m, n) PROVE RowOK([m EXCEPT !.status = "CLOSED"], n)
  BY DEF RowOK, Known, Rows, Statuses, FinalStatuses

LEMMA TrailedRowOK ==
    ASSUME NEW n \in Nat, NEW m, RowOK(m, n), NEW mark \in Nat
    PROVE  RowOK([m EXCEPT !.plan = Trailed(m.plan, mark)], n)
  <1>1. m.plan \in Plans /\ \A u \in Tiers : m.plan.xid[u] <= n
    BY DEF RowOK, Known, Rows
  <1> QED
    BY <1>1, TrailedOK, PlanOK

LEMMA FinishLegsType ==
    ASSUME TypeInv, NEW p \in Procs, FinishLegs(p) PROVE TypeInv'
  <1> DEFINE n == Len(orders)
             m == job[p].mem
             soldOut == /\ \A t \in Tiers : m.plan.filled[t]
                        /\ RemainingQuantity(m.plan, Held(m)) <= 0
             m2 == IF soldOut THEN [m EXCEPT !.status = "CLOSED"] ELSE m
             stops == m2.status = "POSITION_OPEN" /\ job[p].mark # NoMark
             m3 == IF stops THEN [m2 EXCEPT !.plan = Trailed(m2.plan, job[p].mark)] ELSE m2
             j == [job[p] EXCEPT !.pc = "cancel_legs", !.mem = m3, !.tier = 1, !.dirty = FALSE]
  <1>1. n \in Nat /\ RowOK(m, n) /\ job[p].mark \in Nat
    BY JobFacts, VenueCount
  <1>2. RowOK(m2, n)
    BY <1>1, ClosedOK
  <1>3. RowOK(m3, n)
    <2> HIDE DEF m2
    <2> QED
      BY <1>1, <1>2, TrailedRowOK
  <1>4. UNCHANGED <<orders, fills, exited, bounded>>
    BY DEF FinishLegs
  <1>5. CASE /\ row' = IF job[p].dirty THEN m2 ELSE row
             /\ Go(p, j)
    <2>1. RowOK(row', n)
      BY <1>2, <1>5 DEF TypeInv
    <2>2. JobOK(j, n)
      <3> HIDE DEF m3
      <3>1. ASSUME NEW t \in Nat, NEW d \in BOOLEAN
            PROVE  JobOK([job[p] EXCEPT !.pc = "cancel_legs", !.mem = m3, !.tier = t, !.dirty = d], n)
        BY <1>3, JobFacts DEF JobOK, RowOK, Jobs, Points
      <3>2. 1 \in Nat /\ FALSE \in BOOLEAN
        OBVIOUS
      <3> QED
        BY <3>1, <3>2, Zenon
    <2> HIDE DEF j
    <2> QED
      BY <1>4, <1>5, <2>1, <2>2, SaveStep
  <1>6. CASE /\ row' = IF job[p].dirty \/ m3 # m THEN m3 ELSE row
             /\ Finish(p)
    <2>1. RowOK(row', n)
      BY <1>3, <1>6 DEF TypeInv
    <2> QED
      BY <1>1, <1>4, <1>6, <2>1, IdleOK, SaveStep DEF Finish
  <1> QED
    BY <1>5, <1>6 DEF FinishLegs

LEMMA CancelLegsType ==
    ASSUME TypeInv, NEW p \in Procs, CancelLegs(p) PROVE TypeInv'
  <1> DEFINE m == job[p].mem
             plan2 == Unbound(m.plan, Resting(m.plan))
             r == [m EXCEPT !.plan = plan2]
             j == [job[p] EXCEPT !.pc = "exit", !.mem.plan = plan2]
  <1>1. m \in Rows /\ m.plan \in Plans /\ RowOK(m, Len(orders)) /\ Len(orders) \in Nat
        /\ job[p] \in Jobs /\ \A u \in Tiers : m.plan.xid[u] <= Len(orders)
    BY JobFacts, VenueCount DEF Rows, Known
  <1>2. plan2 \in Plans /\ \A u \in Tiers : plan2.xid[u] <= Len(orders)
    <2>1. /\ plan2 \in Plans
          /\ \A u \in Tiers : plan2.xid[u] \in {m.plan.xid[u], 0}
      BY <1>1, UnboundOK
    <2> HIDE DEF plan2
    <2> QED
      BY <1>1, <2>1
  <1> HIDE DEF plan2
  <1>3. RowOK(r, Len(orders))
    BY <1>1, <1>2, PlanOK
  <1>4. j = [job[p] EXCEPT !.pc = "exit", !.mem = r]
    BY <1>1 DEF Jobs, Rows
  <1>5. JobOK(j, Len(orders))
    <2> HIDE DEF r, j
    <2> QED
      BY <1>3, <1>4, JobFacts DEF JobOK, RowOK, Jobs, Points
  <1>6. Go(p, j) /\ \E S : orders' = Cancelled(S)
    BY DEF CancelLegs, plan2
  <1> HIDE DEF j
  <1> QED
    BY <1>5, <1>6, CancelStep DEF CancelLegs

LEMMA CloseSoldOutType ==
    ASSUME TypeInv, NEW p \in Procs, CloseSoldOut(p) PROVE TypeInv'
  <1>1. RowOK(row', Len(orders))
    BY JobFacts, VenueCount, ClosedOK DEF CloseSoldOut
  <1> QED
    BY <1>1, IdleOK, VenueCount, SaveStep DEF CloseSoldOut, Finish

\* Saving the row with an exit bound.
LEMMA ExitType ==
    ASSUME TypeInv, NEW p \in Procs, NEW id \in Nat, id <= Len(orders),
           row' = [job[p].mem EXCEPT !.exitXid = id, !.exitCid = TRUE],
           Finish(p), UNCHANGED <<orders, fills, exited, bounded>>
    PROVE  TypeInv'
  <1>1. RowOK(row', Len(orders))
    BY JobFacts DEF RowOK, Known, Rows
  <1> QED
    BY <1>1, IdleOK, VenueCount, SaveStep DEF Finish

LEMMA AdoptExitType ==
    ASSUME TypeInv, NEW p \in Procs, AdoptExit(p) PROVE TypeInv'
  BY OrderOK, VenueCount, ExitType DEF AdoptExit

LEMMA PrepareExitType ==
    ASSUME TypeInv, NEW p \in Procs, PrepareExit(p) PROVE TypeInv'
  <1> DEFINE q == LotsLeft(p)
             j == [job[p] EXCEPT !.pc = "exit_post", !.want = q]
  <1>1. q \in Nat /\ q \in Int
    BY HeldOK, JobFacts, SyncConstants DEF PrepareExit, LotsLeft, TypeInv, TypeOK
  <1>2. Go(p, j)
    BY DEF PrepareExit
  <1> HIDE DEF q
  <1>3. JobOK(j, Len(orders))
    <2>1. job[p] \in Jobs /\ Known(job[p].mem, Len(orders)) /\ job[p].ref <= Len(orders)
      BY JobFacts
    <2>2. j \in Jobs
      BY <1>1, <2>1 DEF Jobs, Points
    <2> QED
      BY <1>1, <2>1, <2>2 DEF JobOK, Jobs
  <1> HIDE DEF j
  <1> QED
    BY <1>2, <1>3, MoveStep DEF PrepareExit

LEMMA BindExitType ==
    ASSUME TypeInv, NEW p \in Procs, BindExit(p) PROVE TypeInv'
  <1>1. PICK id \in AnsweredIds(p) :
          row' = [job[p].mem EXCEPT !.exitXid = id, !.exitCid = TRUE]
    BY DEF BindExit
  <1>2. id \in Nat /\ id <= Len(orders)
    BY JobFacts, VenueCount DEF AnsweredIds, NoId
  <1> QED
    BY <1>1, <1>2, ExitType DEF BindExit

LEMMA FillType ==
    ASSUME TypeInv, NEW i \in DOMAIN orders, Fill(i) PROVE TypeInv'
  <1> DEFINE got == orders[i].exec + 1
             o == [orders[i] EXCEPT !.exec = got, !.live = got < orders[i].qty]
  <1>1. orders[i] \in VenueOrders /\ i \in 1..Len(orders)
    BY VenueCount, OrderOK, LenProperties
  <1>2. o \in VenueOrders
    <2>1. got \in Nat /\ (got < orders[i].qty) \in BOOLEAN
      BY <1>1 DEF VenueOrders
    <2>2. ASSUME NEW g \in Nat, NEW b \in BOOLEAN
          PROVE  [orders[i] EXCEPT !.exec = g, !.live = b] \in VenueOrders
      BY <1>1 DEF VenueOrders
    <2> HIDE DEF got
    <2> QED
      BY <2>1, <2>2, Zenon
  <1>3. orders' = [orders EXCEPT ![i] = o]
    BY <1>1 DEF Fill, VenueOrders
  <1> HIDE DEF o
  <1>4. orders' \in Seq(VenueOrders) /\ Len(orders') = Len(orders)
    BY <1>1, <1>2, <1>3, ExceptSeq, VenueCount
  <1> QED
    BY <1>4 DEF TypeInv, TypeOK, Fill, bounded

LEMMA ExpireType ==
    ASSUME TypeInv, NEW i \in DOMAIN orders, Expire(i) PROVE TypeInv'
  BY CancelledOK DEF Expire, TypeInv, TypeOK

LEMMA GetOlderType ==
    ASSUME TypeInv, GetOlder PROVE TypeInv'
  BY DEF GetOlder, TypeInv, TypeOK

LEMMA FailType ==
    ASSUME TypeInv, NEW p \in Procs, Fail(p) PROVE TypeInv'
  <1>1. JobOK(Idle, Len(orders)) /\ Len(orders) \in Nat
    BY IdleOK, VenueCount
  <1> QED
    BY <1>1, HandlerStep DEF Fail, Finish, TypeInv, TypeOK

LEMMA StutterType == ASSUME TypeInv, UNCHANGED vars PROVE TypeInv'
  BY DEF vars, bounded, TypeInv, TypeOK

LEMMA NextTypeInv == TypeInv /\ [Next]_vars => TypeInv'
  <1> SUFFICES ASSUME TypeInv, [Next]_vars PROVE TypeInv'
    OBVIOUS
  <1>1. ASSUME NEW p \in Procs, Start(p) PROVE TypeInv'
    BY <1>1, SubmitEntryType, StartReconcileType, StartCloseType, AdjustType DEF Start, Tick
  <1>2. ASSUME NEW p \in Procs, Continue(p) PROVE TypeInv'
    <2>1. CASE RefuseSmallLeg(p) \/ RejectSell(p) \/ RefuseSmallExit(p)
      BY <2>1, FinishType DEF RefuseSmallLeg, RejectSell, RefuseSmallExit
    <2>2. CASE PostEntry(p) \/ BindEntry(p) \/ ResolvePending(p) \/ SyncEntry(p) \/ SyncExit(p)
      BY <2>2, PostEntryType, BindEntryType, ResolvePendingType, SyncEntryType, SyncExitType
    <2>3. CASE CancelEntry(p) \/ SaveCancelled(p) \/ CancelPartialEntry(p) \/ CancelLegs(p)
      BY <2>3, CancelEntryType, SaveCancelledType, CancelPartialEntryType, CancelLegsType
    <2>4. CASE AdoptLeg(p) \/ PrepareLeg(p) \/ BindLeg(p) \/ PostSell(p)
      BY <2>4, AdoptLegType, PrepareLegType, BindLegType, PostSellType
    <2>5. CASE SyncLeg(p) \/ FinishLegs(p) \/ CloseSoldOut(p)
      BY <2>5, SyncLegType, FinishLegsType, CloseSoldOutType
    <2>6. CASE AdoptExit(p) \/ PrepareExit(p) \/ BindExit(p)
      BY <2>6, AdoptExitType, PrepareExitType, BindExitType
    <2> QED
      BY <1>2, <2>1, <2>2, <2>3, <2>4, <2>5, <2>6 DEF Continue
  <1>3. CASE Venue
    BY <1>3, FillType, ExpireType DEF Venue
  <1> QED
    BY <1>1, <1>2, <1>3, FailType, GetOlderType, StutterType DEF Next

\* Every variable keeps its type, whatever handlers, faults and crashes interleave.
THEOREM TypeCorrect == Spec => []TypeOK
  <1>1. TypeInv => TypeOK
    BY DEF TypeInv
  <1> QED
    BY <1>1, InitTypeInv, NextTypeInv, PTL DEF Spec

-----------------------------------------------------------------------------
(* Part 2.  A tier is sold at most once.  That at most one of a tier's     *)
(* orders is active is not inductive: nothing would keep the handler from  *)
(* posting again.  What is: only the latest order of a tier may be active, *)
(* which makes the query by client id conclusive; the tier a handler is    *)
(* about to post for stays free; and the lock admits one handler.          *)

OnlyLatestActive ==
    \A i, j \in DOMAIN orders :
        i < j /\ orders[i].cid = orders[j].cid /\ orders[i].cid \in Tiers => ~Active(orders[i])

TierFree(t) == \A i \in DOMAIN orders : orders[i].cid = t => ~Active(orders[i])

PostingInv == \A p \in Procs : At(p, "leg_post") => TierFree(job[p].tier)

Mutex == \A p, q \in Procs : ~At(p, "idle") /\ ~At(q, "idle") => p = q

LedgerInv == OnlyLatestActive /\ PostingInv /\ Mutex

\* The venue's orders may fill further, be cancelled or expire: none wakes up.
NoneWakes ==
    /\ DOMAIN orders' = DOMAIN orders
    /\ \A i \in DOMAIN orders :
         orders'[i].cid = orders[i].cid /\ (Active(orders'[i]) => Active(orders[i]))

\* p's handler is running, or begins and holds the lock.
Admitted(p) == ~At(p, "idle") \/ (Unlocked = {} /\ CanStart(p))

LEMMA MutexKept ==
    ASSUME TypeInv, Mutex, NEW p \in Procs, NEW j, Go(p, j), Admitted(p)
    PROVE  Mutex' /\ \A q \in Procs : q # p => At(q, "idle") /\ job'[q] = job[q]
  <1>1. job' = [job EXCEPT ![p] = j] /\ DOMAIN job = Procs
    BY DEF Go, TypeInv, TypeOK
  <1>2. \A q \in Procs : q # p => At(q, "idle") /\ job'[q] = job[q]
    BY <1>1 DEF Admitted, Mutex, CanStart
  <1> QED
    BY <1>2 DEF Mutex, At

LEMMA QuietStep ==
    ASSUME TypeInv, LedgerInv, NEW p \in Procs, NEW j, Go(p, j), Admitted(p),
           j.pc # "leg_post", NoneWakes
    PROVE  LedgerInv'
  <1>1. Mutex' /\ \A q \in Procs : q # p => At(q, "idle") /\ job'[q] = job[q]
    BY MutexKept DEF LedgerInv
  <1>2. job'[p] = j
    BY DEF Go, TypeInv, TypeOK
  <1>3. PostingInv'
    BY <1>1, <1>2 DEF PostingInv, At
  <1>4. OnlyLatestActive'
    BY DEF LedgerInv, OnlyLatestActive, NoneWakes
  <1> QED
    BY <1>1, <1>3, <1>4 DEF LedgerInv

LEMMA SameOrders == UNCHANGED orders => NoneWakes
  BY DEF NoneWakes

LEMMA CancelWakesNone == ASSUME TypeInv, NEW S, orders' = Cancelled(S) PROVE NoneWakes
  <1>1. \A i \in DOMAIN orders :
          orders'[i] = IF i \in S THEN [orders[i] EXCEPT !.live = FALSE] ELSE orders[i]
    BY DEF Cancelled
  <1>2. DOMAIN orders' = DOMAIN orders
    BY DEF Cancelled
  <1>3. \A i \in DOMAIN orders : orders[i] \in VenueOrders
    BY OrderOK, VenueCount
  <1> QED
    BY <1>1, <1>2, <1>3 DEF NoneWakes, Active, VenueOrders

\* An order is posted: a sale of a tier only if the tier is free.
LEMMA PostStep ==
    ASSUME TypeInv, LedgerInv, NEW p \in Procs, NEW j, Go(p, j), Admitted(p), j.pc # "leg_post",
           NEW cid \in Cids, NEW qty \in Nat, orders' = Placed(cid, qty),
           cid \in Tiers => TierFree(cid)
    PROVE  LedgerInv'
  <1> DEFINE n == Len(orders)
             o == [cid |-> cid, qty |-> qty, exec |-> 0, live |-> TRUE]
  <1>1. Mutex' /\ \A q \in Procs : q # p => At(q, "idle") /\ job'[q] = job[q]
    BY MutexKept DEF LedgerInv
  <1>2. job'[p] = j
    BY DEF Go, TypeInv, TypeOK
  <1>3. PostingInv'
    BY <1>1, <1>2 DEF PostingInv, At
  <1>4. n \in Nat /\ DOMAIN orders = 1..n /\ orders \in Seq(VenueOrders)
    BY VenueCount, LenProperties
  <1>5. o \in VenueOrders
    BY DEF VenueOrders
  <1>6. /\ DOMAIN orders' = 1..(n + 1)
        /\ \A i \in 1..n : orders'[i] = orders[i]
        /\ orders'[n + 1].cid = cid
    <2>1. orders' = Append(orders, o)
      BY DEF Placed
    <2>2. /\ Append(orders, o) \in Seq(VenueOrders) /\ Len(Append(orders, o)) = n + 1
          /\ \A i \in 1..n : Append(orders, o)[i] = orders[i]
          /\ Append(orders, o)[n + 1] = o
      BY <1>4, <1>5, AppendProperties
    <2> QED
      BY <2>1, <2>2, LenProperties
  <1>7. OnlyLatestActive'
    <2> SUFFICES ASSUME NEW i \in DOMAIN orders', NEW k \in DOMAIN orders', i < k,
                        orders'[i].cid = orders'[k].cid, orders'[i].cid \in Tiers
                 PROVE  ~Active(orders'[i])
      BY DEF OnlyLatestActive
    <2>1. i \in 1..n /\ orders'[i] = orders[i]
      BY <1>4, <1>6
    <2>2. CASE k \in 1..n
      BY <1>4, <1>6, <2>1, <2>2 DEF LedgerInv, OnlyLatestActive
    <2>3. CASE k = n + 1
      BY <1>4, <1>6, <2>1, <2>3 DEF TierFree
    <2> QED
      BY <1>4, <1>6, <2>2, <2>3
  <1> QED
    BY <1>1, <1>3, <1>7 DEF LedgerInv

\* The query by client id is conclusive: no active latest order, no active one.
LEMMA QueryConclusive ==
    ASSUME OnlyLatestActive, NEW t \in Tiers,
           ~\E i \in DOMAIN orders : IsLatest(i, t) /\ Active(orders[i]), TypeInv
    PROVE  TierFree(t)
  <1> SUFFICES ASSUME NEW i \in DOMAIN orders, orders[i].cid = t, Active(orders[i]) PROVE FALSE
    BY DEF TierFree
  <1>1. \A j \in DOMAIN orders : j > i => orders[j].cid # t
    BY OrderOK, VenueCount DEF OnlyLatestActive
  <1> QED
    BY <1>1 DEF IsLatest

\* Every action keeps LedgerInv: one lemma for each kind of action.
LEMMA PrepareLegLedger ==
    ASSUME TypeInv, LedgerInv, NEW p \in Procs, PrepareLeg(p) PROVE LedgerInv'
  <1>1. PICK t \in Tiers :
          /\ ~\E i \in DOMAIN orders : IsLatest(i, t) /\ Active(orders[i])
          /\ Go(p, [job[p] EXCEPT !.pc = "leg_post", !.tier = t, !.want = LegQuantity(job[p], t)])
    BY DEF PrepareLeg
  <1> DEFINE j == [job[p] EXCEPT !.pc = "leg_post", !.tier = t, !.want = LegQuantity(job[p], t)]
  <1>2. TierFree(t)
    BY <1>1, QueryConclusive DEF LedgerInv
  <1>3. Admitted(p) /\ UNCHANGED orders
    BY DEF PrepareLeg, Admitted, At
  <1>4. j.tier = t
    BY JobFacts DEF Jobs
  <1> HIDE DEF j
  <1>5. Go(p, j)
    BY <1>1 DEF j
  <1>6. job'[p] = j
    BY <1>5 DEF Go, TypeInv, TypeOK
  <1>7. Mutex' /\ \A q \in Procs : q # p => At(q, "idle") /\ job'[q] = job[q]
    BY <1>3, <1>5, MutexKept DEF LedgerInv
  <1>8. TierFree(t)'
    BY <1>2, <1>3 DEF TierFree
  <1>9. PostingInv'
    BY <1>4, <1>6, <1>7, <1>8 DEF PostingInv, At
  <1> QED
    BY <1>3, <1>7, <1>9 DEF LedgerInv, OnlyLatestActive

LEMMA PostEntryLedger ==
    ASSUME TypeInv, LedgerInv, NEW p \in Procs, PostEntry(p) PROVE LedgerInv'
  <1> DEFINE j == [job[p] EXCEPT !.pc = "entry_bind", !.ref = Len(orders) + 1]
  <1>1. EntryCid \in Cids /\ EntryCid \notin Tiers
    BY LadderConstants DEF EntryCid, Cids, ExitCid, Tiers
  <1>2. Go(p, j) /\ orders' = Placed(EntryCid, Qty) /\ Admitted(p)
    BY DEF PostEntry, Admitted, At
  <1>3. j.pc = "entry_bind"
    BY JobFacts DEF Jobs
  <1> HIDE DEF j
  <1> QED
    BY <1>1, <1>2, <1>3, SyncConstants, PostStep

LEMMA PostSellLedger ==
    ASSUME TypeInv, LedgerInv, NEW p \in Procs, PostSell(p) PROVE LedgerInv'
  <1>1. job[p].want \in Nat /\ job[p].pc \in {"leg_post", "exit_post"}
    BY JobFacts DEF PostSell, JobOK
  <1>2. Cid(job[p]) \in Cids
    BY <1>1, JobFacts, LadderConstants DEF Cid, Cids, ExitCid, Tiers, JobOK
  <1>3. Cid(job[p]) \in Tiers => TierFree(Cid(job[p]))
    BY <1>1, LadderConstants DEF Cid, ExitCid, Tiers, LedgerInv, PostingInv, At
  <1>4. PICK pc \in {"leg_bind", "exit_bind"} :
            Go(p, [job[p] EXCEPT !.pc = pc, !.ref = Len(orders) + 1])
    BY DEF PostSell
  <1> DEFINE j == [job[p] EXCEPT !.pc = pc, !.ref = Len(orders) + 1]
  <1>5. j.pc # "leg_post"
    BY JobFacts DEF Jobs
  <1>6. Go(p, j) /\ Admitted(p) /\ orders' = Placed(Cid(job[p]), job[p].want)
    BY <1>1, <1>4 DEF PostSell, Admitted, At
  <1> HIDE DEF j
  <1> QED
    BY <1>1, <1>2, <1>3, <1>5, <1>6, PostStep

LEMMA PlacingAway == ASSUME NEW j \in Jobs PROVE Placing(j).pc # "leg_post"
  BY DEF Placing, Jobs

LEMMA RefreshedAway ==
    ASSUME NEW j \in Jobs, j.pc # "leg_post", NEW m \in Rows, NEW changed, NEW sold \in Int
    PROVE  Refreshed(j, m, changed, sold).pc # "leg_post"
  <1> DEFINE armed == [j EXCEPT !.mem = m, !.tier = 1, !.avail = Held(m) - sold]
             next == CASE j.kind = "reconcile" -> Reconciled(j, m, changed, sold)
                       [] j.kind = "close" -> Closing(j, m)
                       [] OTHER -> Idle
  <1>1. Held(m) - sold \in Int
    BY HeldOK
  <1>2. armed \in Jobs
    BY <1>1 DEF Jobs
  <1>3. Placing(armed).pc # "leg_post" /\ Idle.pc = "idle"
    BY <1>2, PlacingAway DEF Idle
  <1>4. Reconciled(j, m, changed, sold).pc # "leg_post"
    <2> HIDE DEF armed
    <2>1. [j EXCEPT !.pc = "cancel_entry", !.mem = m].pc = "cancel_entry"
      BY DEF Jobs
    <2>2. [j EXCEPT !.pc = "sync", !.kind = "close", !.mem = m].pc = "sync"
      BY DEF Jobs
    <2>3. Reconciled(j, m, changed, sold) \in
            {[j EXCEPT !.pc = "cancel_entry", !.mem = m],
             [j EXCEPT !.pc = "sync", !.kind = "close", !.mem = m], Placing(armed), Idle}
      BY DEF Reconciled, armed
    <2> QED
      BY <1>3, <2>1, <2>2, <2>3
  <1>5. Closing(j, m).pc # "leg_post"
    BY <1>3 DEF Closing, Jobs
  <1>6. next.pc # "leg_post"
    BY <1>3, <1>4, <1>5
  <1>7. Refreshed(j, m, changed, sold)
          = IF next.pc = "idle" THEN Idle ELSE [next EXCEPT !.dirty = FALSE]
    BY DEF Refreshed
  <1> HIDE DEF next
  <1> QED
    BY <1>3, <1>6, <1>7

\* A running handler goes on, and the venue at most has orders cancelled.
LEMMA AwayStep ==
    ASSUME TypeInv, LedgerInv, NEW p \in Procs, ~At(p, "idle"),
           NEW j, Go(p, j), j.pc # "leg_post",
           UNCHANGED orders \/ \E S : orders' = Cancelled(S)
    PROVE  LedgerInv'
  <1>1. NoneWakes
    BY SameOrders, CancelWakesNone
  <1>2. Admitted(p)
    BY DEF Admitted
  <1> QED
    BY <1>1, <1>2, QuietStep

LEMMA FinishLedger ==
    ASSUME TypeInv, LedgerInv, NEW p \in Procs, ~At(p, "idle"), Finish(p), UNCHANGED orders
    PROVE  LedgerInv'
  <1>1. Idle.pc # "leg_post"
    BY DEF Idle
  <1> QED
    BY <1>1, AwayStep DEF Finish

\* A handler begins: without unlocked processes it holds the lock.
LEMMA StartLedger ==
    ASSUME TypeInv, LedgerInv, Unlocked = {}, NEW p \in Procs, Start(p)
    PROVE  LedgerInv'
  <1>1. ASSUME CanStart(p), UNCHANGED orders, NEW j, Go(p, j), j.pc # "leg_post"
        PROVE  LedgerInv'
    BY <1>1, SameOrders, QuietStep DEF Admitted
  <1>2. CASE SubmitEntry(p)
    <2> DEFINE j == [Idle EXCEPT !.pc = "entry_post", !.kind = "submit", !.mem = row']
    <2>1. j.pc # "leg_post"
      BY DEF Idle
    <2>2. Go(p, j) /\ CanStart(p) /\ UNCHANGED orders
      BY <1>2 DEF SubmitEntry
    <2> HIDE DEF j
    <2> QED
      BY <1>1, <2>1, <2>2
  <1>3. ASSUME NEW mark, StartReconcile(p, mark) PROVE LedgerInv'
    <2> DEFINE pc == IF row.status = "PENDING_SUBMIT" THEN "pending" ELSE "sync"
               j == [Idle EXCEPT !.pc = pc, !.kind = "reconcile", !.mem = row, !.mark = mark]
    <2>1. j.pc # "leg_post"
      BY DEF Idle
    <2>2. Go(p, j) /\ CanStart(p) /\ UNCHANGED orders
      BY <1>3 DEF StartReconcile
    <2> HIDE DEF j
    <2> QED
      BY <1>1, <2>1, <2>2
  <1>4. CASE StartClose(p)
    <2> DEFINE j == [Idle EXCEPT !.pc = "sync", !.kind = "close", !.mem = row]
    <2>1. j.pc # "leg_post"
      BY DEF Idle
    <2>2. Go(p, j) /\ CanStart(p) /\ UNCHANGED orders
      BY <1>4 DEF StartClose
    <2> HIDE DEF j
    <2> QED
      BY <1>1, <2>1, <2>2
  <1>5. ASSUME NEW stop, Adjust(p, stop) PROVE LedgerInv'
    BY <1>5 DEF Adjust, LedgerInv, OnlyLatestActive, PostingInv, TierFree, Mutex, At
  <1> QED
    BY <1>2, <1>3, <1>4, <1>5 DEF Start, Tick

LEMMA ResolvePendingLedger ==
    ASSUME TypeInv, LedgerInv, NEW p \in Procs, ResolvePending(p) PROVE LedgerInv'
  <1>1. ~At(p, "idle") /\ UNCHANGED orders
    BY DEF ResolvePending, At
  <1>2. CASE Finish(p)
    BY <1>1, <1>2, FinishLedger
  <1>3. CASE Go(p, [job[p] EXCEPT !.pc = "sync", !.kind = "adopt", !.mem = row'])
    <2> DEFINE j == [job[p] EXCEPT !.pc = "sync", !.kind = "adopt", !.mem = row']
    <2>1. j.pc # "leg_post"
      BY JobFacts DEF Jobs
    <2> HIDE DEF j
    <2>2. Go(p, j)
      BY <1>3 DEF j
    <2> QED
      BY <1>1, <2>1, <2>2, AwayStep
  <1> QED
    BY <1>2, <1>3 DEF ResolvePending

\* A refreshed order sends its handler anywhere but to a post.
LEMMA RefreshLedger ==
    ASSUME TypeInv, LedgerInv, NEW p \in Procs, job[p].pc \in {"sync", "sync_exit"},
           UNCHANGED orders, NEW m \in Rows, NEW changed, NEW sold \in Int,
           Go(p, Refreshed(job[p], m, changed, sold))
    PROVE  LedgerInv'
  <1>1. Refreshed(job[p], m, changed, sold).pc # "leg_post"
    BY JobFacts, RefreshedAway
  <1>2. ~At(p, "idle")
    BY DEF At
  <1> QED
    BY <1>1, <1>2, AwayStep

LEMMA SyncEntryLedger ==
    ASSUME TypeInv, LedgerInv, NEW p \in Procs, SyncEntry(p) PROVE LedgerInv'
  <1> DEFINE m == job[p].mem
             found == Lookup(m.xid, EntryCid)
  <1>1. UNCHANGED orders /\ job[p].pc = "sync" /\ exited \in Int
    BY DEF SyncEntry, At, TypeInv, TypeOK
  <1>2. row' \in Rows
    BY SyncEntryType DEF TypeInv, TypeOK
  <1>3. CASE \E changed : Go(p, Refreshed(job[p], row', changed, exited))
    BY <1>1, <1>2, <1>3, RefreshLedger
  <1>4. CASE \E r, d : Go(p, [job[p] EXCEPT !.pc = "sync_exit", !.mem = r, !.dirty = d])
    <2>1. PICK r, d : Go(p, [job[p] EXCEPT !.pc = "sync_exit", !.mem = r, !.dirty = d])
      BY <1>4
    <2> DEFINE j == [job[p] EXCEPT !.pc = "sync_exit", !.mem = r, !.dirty = d]
    <2>2. j.pc # "leg_post" /\ ~At(p, "idle")
      BY <1>1, JobFacts DEF Jobs, At
    <2> HIDE DEF j
    <2>3. Go(p, j)
      BY <2>1 DEF j
    <2> QED
      BY <1>1, <2>2, <2>3, AwayStep
  <1> QED
    BY <1>3, <1>4 DEF SyncEntry

LEMMA SyncExitLedger ==
    ASSUME TypeInv, LedgerInv, NEW p \in Procs, SyncExit(p) PROVE LedgerInv'
  <1>1. UNCHANGED orders /\ job[p].pc = "sync_exit"
    BY DEF SyncExit, At
  <1>2. row' \in Rows /\ exited' \in Int
    BY SyncExitType DEF TypeInv, TypeOK
  <1>3. PICK changed : Go(p, Refreshed(job[p], row', changed, exited'))
    BY DEF SyncExit
  <1> QED
    BY <1>1, <1>2, <1>3, RefreshLedger

\* Cancelling the entry, in full or for what it has not bought, and the legs.
LEMMA CancelLedger ==
    ASSUME TypeInv, LedgerInv, NEW p \in Procs,
           CancelEntry(p) \/ CancelPartialEntry(p) \/ CancelLegs(p)
    PROVE  LedgerInv'
  <1>1. ~At(p, "idle") /\ \E S : orders' = Cancelled(S)
    BY DEF CancelEntry, CancelPartialEntry, CancelLegs, At
  <1>2. CASE CancelEntry(p)
    <2>1. [job[p] EXCEPT !.pc = "cancel_saved"].pc # "leg_post"
      BY JobFacts DEF Jobs
    <2> QED
      BY <1>1, <1>2, <2>1, AwayStep DEF CancelEntry
  <1>3. CASE CancelPartialEntry(p)
    <2>1. [job[p] EXCEPT !.pc = "cancel_legs", !.mem.status = "POSITION_OPEN"].pc # "leg_post"
      BY JobFacts DEF Jobs
    <2> QED
      BY <1>1, <1>3, <2>1, AwayStep DEF CancelPartialEntry
  <1>4. CASE CancelLegs(p)
    <2> DEFINE plan2 == Unbound(job[p].mem.plan, Resting(job[p].mem.plan))
               j == [job[p] EXCEPT !.pc = "exit", !.mem.plan = plan2]
    <2>1. Go(p, j)
      BY <1>4 DEF CancelLegs
    <2> HIDE DEF plan2
    <2>2. j.pc # "leg_post"
      BY JobFacts DEF Jobs
    <2> HIDE DEF j
    <2> QED
      BY <1>1, <2>1, <2>2, AwayStep
  <1> QED
    BY <1>2, <1>3, <1>4

\* A leg is bound and the loop goes on to the next, which it queries first.
LEMMA BoundLedger ==
    ASSUME TypeInv, LedgerInv, NEW p \in Procs, AdoptLeg(p) \/ BindLeg(p) PROVE LedgerInv'
  <1>1. ~At(p, "idle") /\ UNCHANGED orders
    BY DEF AdoptLeg, BindLeg, At
  <1>2. row' \in Rows
    BY AdoptLegType, BindLegType DEF TypeInv, TypeOK
  <1>3. \E next \in Nat, left \in Int :
          Go(p, Placing([job[p] EXCEPT !.mem = row', !.tier = next, !.avail = left]))
    <2>1. CASE AdoptLeg(p)
      <3>1. PICK t \in Tiers :
              Go(p, Placing([job[p] EXCEPT !.mem = row', !.tier = t + 1,
                                           !.avail = job[p].avail - LegQuantity(job[p], t)]))
        BY <2>1 DEF AdoptLeg
      <3>2. t + 1 \in Nat /\ job[p].avail - LegQuantity(job[p], t) \in Int
        BY LegQuantityOK, JobFacts DEF Tiers, Jobs
      <3> QED
        BY <3>1, <3>2
    <2>2. CASE BindLeg(p)
      <3>1. job[p].tier + 1 \in Nat /\ job[p].avail - job[p].want \in Int
        BY JobFacts DEF Jobs
      <3> QED
        BY <2>2, <3>1 DEF BindLeg
    <2> QED
      BY <2>1, <2>2
  <1>4. PICK next \in Nat, left \in Int :
          Go(p, Placing([job[p] EXCEPT !.mem = row', !.tier = next, !.avail = left]))
    BY <1>3
  <1>5. [job[p] EXCEPT !.mem = row', !.tier = next, !.avail = left] \in Jobs
    BY <1>2, JobFacts DEF Jobs
  <1> QED
    BY <1>1, <1>4, <1>5, PlacingAway, AwayStep

LEMMA LegsLedger ==
    ASSUME TypeInv, LedgerInv, NEW p \in Procs, SyncLeg(p) \/ FinishLegs(p) PROVE LedgerInv'
  <1>1. job[p].pc = "sync_legs" /\ ~At(p, "idle") /\ UNCHANGED orders
    BY DEF SyncLeg, FinishLegs, At
  <1>2. CASE SyncLeg(p)
    <2>1. PICK plan, t, d : Go(p, [job[p] EXCEPT !.mem.plan = plan, !.tier = t, !.dirty = d])
      BY <1>2 DEF SyncLeg
    <2> DEFINE j == [job[p] EXCEPT !.mem.plan = plan, !.tier = t, !.dirty = d]
    <2>2. j.pc # "leg_post"
      BY <1>1, JobFacts DEF Jobs
    <2> HIDE DEF j
    <2>3. Go(p, j)
      BY <2>1 DEF j
    <2> QED
      BY <1>1, <2>2, <2>3, AwayStep
  <1>3. CASE Finish(p)
    BY <1>1, <1>3, FinishLedger
  <1>4. CASE \E m, t, d : Go(p, [job[p] EXCEPT !.pc = "cancel_legs", !.mem = m,
                                               !.tier = t, !.dirty = d])
    <2>1. PICK m, t, d : Go(p, [job[p] EXCEPT !.pc = "cancel_legs", !.mem = m,
                                              !.tier = t, !.dirty = d])
      BY <1>4
    <2> DEFINE j == [job[p] EXCEPT !.pc = "cancel_legs", !.mem = m, !.tier = t, !.dirty = d]
    <2>2. j.pc # "leg_post"
      BY JobFacts DEF Jobs
    <2> HIDE DEF j
    <2>3. Go(p, j)
      BY <2>1 DEF j
    <2> QED
      BY <1>1, <2>2, <2>3, AwayStep
  <1> QED
    BY <1>2, <1>3, <1>4 DEF FinishLegs

LEMMA PrepareExitLedger ==
    ASSUME TypeInv, LedgerInv, NEW p \in Procs, PrepareExit(p) PROVE LedgerInv'
  <1> DEFINE j == [job[p] EXCEPT !.pc = "exit_post", !.want = LotsLeft(p)]
  <1>1. ~At(p, "idle") /\ UNCHANGED orders /\ Go(p, j)
    BY DEF PrepareExit, At
  <1>2. j.pc # "leg_post"
    BY JobFacts DEF Jobs
  <1> HIDE DEF j
  <1> QED
    BY <1>1, <1>2, AwayStep

\* The other steps of a handler are its last.
LEMMA LastStepLedger ==
    ASSUME TypeInv, LedgerInv, NEW p \in Procs,
           \/ BindEntry(p) \/ SaveCancelled(p) \/ RefuseSmallLeg(p) \/ RejectSell(p)
           \/ CloseSoldOut(p) \/ RefuseSmallExit(p) \/ AdoptExit(p) \/ BindExit(p) \/ Fail(p)
    PROVE  LedgerInv'
  <1>1. ~At(p, "idle") /\ Finish(p) /\ UNCHANGED orders
    BY DEF BindEntry, SaveCancelled, RefuseSmallLeg, RejectSell, CloseSoldOut,
           RefuseSmallExit, AdoptExit, BindExit, Fail, At
  <1> QED
    BY <1>1, FinishLedger

\* The venue moves on its own: a fill is of an order that was live already.
LEMMA VenueLedger ==
    ASSUME TypeInv, LedgerInv, NoneWakes, UNCHANGED job PROVE LedgerInv'
  <1>1. PostingInv'
    BY DEF NoneWakes, LedgerInv, PostingInv, TierFree, At
  <1>2. OnlyLatestActive'
    BY DEF NoneWakes, LedgerInv, OnlyLatestActive
  <1> QED
    BY <1>1, <1>2 DEF LedgerInv, Mutex, At

LEMMA FillWakesNone == ASSUME TypeInv, NEW i \in DOMAIN orders, Fill(i) PROVE NoneWakes
  <1>1. orders[i] \in VenueOrders /\ orders[i].live
    BY OrderOK, VenueCount DEF Fill
  <1>2. PICK got, live :
          orders' = [orders EXCEPT ![i] = [orders[i] EXCEPT !.exec = got, !.live = live]]
    BY <1>1 DEF Fill, VenueOrders
  <1>3. DOMAIN orders' = DOMAIN orders
    BY <1>2
  <1>4. orders'[i].cid = orders[i].cid
    BY <1>1, <1>2 DEF VenueOrders
  <1>5. \A k \in DOMAIN orders : k # i => orders'[k] = orders[k]
    BY <1>2
  <1> QED
    BY <1>1, <1>3, <1>4, <1>5 DEF NoneWakes, Active

LEMMA InitLedger == Init => LedgerInv
  <1> SUFFICES ASSUME Init PROVE LedgerInv
    OBVIOUS
  <1>1. DOMAIN orders = {}
    BY DEF Init
  <1>2. \A p \in Procs : At(p, "idle")
    BY DEF Init, At, Idle
  <1> QED
    BY <1>1, <1>2 DEF LedgerInv, OnlyLatestActive, PostingInv, Mutex, At

LEMMA NextLedger ==
    ASSUME TypeInv, LedgerInv, Unlocked = {}, [Next]_vars PROVE LedgerInv'
  <1>1. ASSUME NEW p \in Procs, Continue(p) PROVE LedgerInv'
    <2>1. CASE PostEntry(p) \/ PostSell(p) \/ PrepareLeg(p) \/ PrepareExit(p)
      BY <2>1, PostEntryLedger, PostSellLedger, PrepareLegLedger, PrepareExitLedger
    <2>2. CASE ResolvePending(p) \/ SyncEntry(p) \/ SyncExit(p)
      BY <2>2, ResolvePendingLedger, SyncEntryLedger, SyncExitLedger
    <2>3. CASE CancelEntry(p) \/ CancelPartialEntry(p) \/ CancelLegs(p)
      BY <2>3, CancelLedger
    <2>4. CASE AdoptLeg(p) \/ BindLeg(p) \/ SyncLeg(p) \/ FinishLegs(p)
      BY <2>4, BoundLedger, LegsLedger
    <2>5. CASE \/ BindEntry(p) \/ SaveCancelled(p) \/ RefuseSmallLeg(p) \/ RejectSell(p)
               \/ CloseSoldOut(p) \/ RefuseSmallExit(p) \/ AdoptExit(p) \/ BindExit(p)
      BY <2>5, LastStepLedger
    <2> QED
      BY <1>1, <2>1, <2>2, <2>3, <2>4, <2>5 DEF Continue
  <1>2. CASE Venue
    <2>1. ASSUME NEW i \in DOMAIN orders, Fill(i) PROVE LedgerInv'
      BY <2>1, FillWakesNone, VenueLedger DEF Fill
    <2>2. ASSUME NEW i \in DOMAIN orders, Expire(i) PROVE LedgerInv'
      BY <2>2, CancelWakesNone, VenueLedger DEF Expire
    <2> QED
      BY <1>2, <2>1, <2>2 DEF Venue
  <1>3. CASE GetOlder \/ UNCHANGED vars
    BY <1>3, SameOrders, VenueLedger DEF GetOlder, vars
  <1>4. ASSUME NEW p \in Procs, Fail(p) PROVE LedgerInv'
    BY <1>4, LastStepLedger
  <1> QED
    BY <1>1, <1>2, <1>3, <1>4, StartLedger DEF Next

\* With every handler under the invocation lock, whatever fails or is lost in
\* between and however often the agent restarts, no tier's slice is sold twice.
THEOREM TierSoldOnce ==
    ASSUME Unlocked = {} PROVE Spec => []TierSoldAtMostOnce
  <1>1. ASSUME TypeInv, LedgerInv PROVE TierSoldAtMostOnce
    <2> SUFFICES ASSUME NEW i \in DOMAIN orders, NEW j \in DOMAIN orders, i # j,
                        orders[i].cid = orders[j].cid, orders[i].cid \in Tiers
                 PROVE  ~(Active(orders[i]) /\ Active(orders[j]))
      BY DEF TierSoldAtMostOnce
    <2>1. i < j \/ j < i
      BY <1>1, OrderOK, VenueCount
    <2> QED
      BY <1>1, <2>1 DEF LedgerInv, OnlyLatestActive
  <1>2. Init => TypeInv /\ LedgerInv
    BY InitTypeInv, InitLedger
  <1>3. TypeInv /\ LedgerInv /\ [Next]_vars => TypeInv' /\ LedgerInv'
    BY NextTypeInv, NextLedger
  <1> QED
    BY <1>1, <1>2, <1>3, PTL DEF Spec

=============================================================================
