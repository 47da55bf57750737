------------------------ MODULE ExchangeLifecycle_proofs ------------------------
(***************************************************************************)
(* Theorems about the life of an exchange order, on top of the types and   *)
(* the ledger of ExchangeSync_proofs.  Part 1 ties a running handler to    *)
(* the row it will save: what it holds in memory, and the status it counts *)
(* on, at every point where the venue or a crash may come in between.      *)
(* Part 2 follows the plans, part 3 proves the ladder's floor, part 4 that *)
(* a banked tier is sold, part 5 the entry that is never lost, part 6 the  *)
(* final rows, the rising stop and the refinement of the documented        *)
(* lifecycle, part 7 what a cancelled row leaves at the venue.             *)
(***************************************************************************)
EXTENDS ExchangeSync_proofs, SumLemmas

(* Part 1.  The row and its handler.  A handler that has not talked to the *)
(* venue since it saved holds the row as stored; one that is selling out   *)
(* may be ahead of it by the status, the pointers and a higher stop.       *)

Stage(r, j) ==
    /\ j.pc \in {"entry_post", "entry_bind", "pending"} =>
         j.mem = r /\ r.status = "PENDING_SUBMIT"
    /\ j.pc = "sync" => j.mem = r /\ r.status \in OpenStatuses
    /\ j.pc \in {"cancel_entry", "cancel_saved", "cancel_partial"} =>
         j.mem = r /\ r.status = "ENTRY_OPEN"
    /\ j.pc \in {"legs", "leg_post", "leg_bind"} =>
         j.mem = r /\ r.status = "POSITION_OPEN"
    /\ j.pc \in {"sync_exit", "sync_legs"} => r.status = "POSITION_OPEN"
    /\ j.pc \in {"cancel_legs", "exit", "exit_post", "exit_bind"} =>
         r.status \in {"ENTRY_OPEN", "POSITION_OPEN"}
    /\ j.pc \in {"sync_exit", "sync_legs", "cancel_legs", "exit", "exit_post", "exit_bind"} =>
         j.mem.status = "POSITION_OPEN" /\ j.mem.plan.stop >= r.plan.stop

\* Before a row is a position nothing has been sold for it, and none is being.
Unopened == {"NONE", "PENDING_SUBMIT", "ENTRY_OPEN", "CANCELED"}

NoExit(r, sold) ==
    r.status \in Unopened => r.exitXid = NoId /\ ~r.exitCid /\ sold = 0

StageInv ==
    /\ \A p \in Procs : Stage(row, job[p])
    /\ NoExit(row, exited)
    /\ row.status = "NONE" => row = NoRow

\* What a save may do to the row: one edge of the diagram, the stop no lower.
Edges == {<<"NONE", "PENDING_SUBMIT">>,
          <<"PENDING_SUBMIT", "ENTRY_OPEN">>, <<"PENDING_SUBMIT", "CANCELED">>,
          <<"ENTRY_OPEN", "POSITION_OPEN">>, <<"ENTRY_OPEN", "CANCELED">>,
          <<"POSITION_OPEN", "CLOSED">>}

Follows(r, r2) ==
    /\ r2.status = r.status \/ <<r.status, r2.status>> \in Edges
    /\ r2.plan.stop >= r.plan.stop
    /\ r.status \in FinalStatuses => r2 = r

LEMMA IdleStage == ASSUME NEW r, NEW j, j.pc = "idle" PROVE Stage(r, j)
  BY DEF Stage

LEMMA SameFollows == ASSUME NEW r \in Rows PROVE Follows(r, r)
  BY DEF Follows, Rows, Plans

\* One handler moves; under the lock the others are idle.
LEMMA StageStep ==
    ASSUME TypeInv, LedgerInv, StageInv, NEW p \in Procs, NEW j, Go(p, j), Admitted(p),
           Stage(row', j), NoExit(row', exited'), row'.status # "NONE"
    PROVE  StageInv'
  <1>1. \A q \in Procs : q # p => At(q, "idle") /\ job'[q] = job[q]
    BY MutexKept DEF LedgerInv
  <1>2. job'[p] = j
    BY DEF Go, TypeInv, TypeOK
  <1>3. \A q \in Procs : Stage(row', job'[q])
    BY <1>1, <1>2, IdleStage DEF At
  <1> QED
    BY <1>3 DEF StageInv

\* It stops, having saved a row or none.
LEMMA StageFinish ==
    ASSUME TypeInv, LedgerInv, StageInv, NEW p \in Procs, Finish(p), ~At(p, "idle"),
           NoExit(row', exited'), row'.status # "NONE"
    PROVE  StageInv'
  <1>1. Stage(row', Idle)
    BY IdleStage DEF Idle
  <1> QED
    BY <1>1, StageStep DEF Finish, Admitted

\* A running handler works on an open row.
LEMMA RunningOpen ==
    ASSUME TypeInv, StageInv, NEW p \in Procs, ~At(p, "idle")
    PROVE  row.status \in OpenStatuses /\ row.status # "NONE" /\ row.status \notin FinalStatuses
  <1>1. job[p].pc \in Points /\ job[p].pc # "idle" /\ Stage(row, job[p])
    BY JobFacts DEF At, Jobs, StageInv
  <1> QED
    BY <1>1 DEF Stage, Points, OpenStatuses, FinalStatuses

\* It stops without saving.
LEMMA StageQuit ==
    ASSUME TypeInv, LedgerInv, StageInv, NEW p \in Procs, Finish(p), ~At(p, "idle"),
           UNCHANGED <<row, exited>>
    PROVE  StageInv' /\ Follows(row, row')
  <1>1. NoExit(row', exited') /\ row'.status # "NONE"
    BY RunningOpen DEF StageInv
  <1> QED
    BY <1>1, StageFinish, SameFollows DEF TypeInv, TypeOK

\* It goes on without saving.
LEMMA StageMove ==
    ASSUME TypeInv, LedgerInv, StageInv, NEW p \in Procs, ~At(p, "idle"), NEW j, Go(p, j),
           UNCHANGED <<row, exited>>, Stage(row, j)
    PROVE  StageInv' /\ Follows(row, row')
  <1>1. NoExit(row', exited') /\ row'.status # "NONE"
    BY RunningOpen DEF StageInv
  <1> QED
    BY <1>1, StageStep, SameFollows DEF TypeInv, TypeOK, Admitted

LEMMA PlacingShape ==
    ASSUME NEW j \in Jobs
    PROVE  /\ Placing(j) \in Jobs /\ Placing(j).mem = j.mem
           /\ Placing(j).pc \in {"legs", "sync_legs"}
  <1>1. ASSUME NEW t \in Nat, NEW a \in Int, NEW w \in Int, NEW r \in Nat
        PROVE  [j EXCEPT !.pc = "sync_legs", !.tier = t, !.avail = a, !.want = w, !.ref = r]
                 \in {k \in Jobs : k.mem = j.mem /\ k.pc = "sync_legs"}
    BY <1>1 DEF Jobs, Points
  <1>2. LET k == [j EXCEPT !.pc = "legs"] IN k \in Jobs /\ k.mem = j.mem /\ k.pc = "legs"
    BY DEF Jobs, Points
  <1> DEFINE rest == [j EXCEPT !.pc = "sync_legs", !.tier = 1, !.avail = 0, !.want = 0, !.ref = NoId]
  <1>3. rest \in Jobs /\ rest.mem = j.mem /\ rest.pc = "sync_legs"
    <2>1. 1 \in Nat /\ 0 \in Int /\ NoId \in Nat
      BY DEF NoId
    <2>2. rest \in {k \in Jobs : k.mem = j.mem /\ k.pc = "sync_legs"}
      BY <1>1, <2>1, Zenon
    <2> HIDE DEF rest
    <2> QED
      BY <2>2
  <1>4. Placing(j) = [j EXCEPT !.pc = "legs"] \/ Placing(j) = rest
    BY DEF Placing
  <1> HIDE DEF rest
  <1> QED
    BY <1>2, <1>3, <1>4

\* Where a refreshed order sends its handler.
LEMMA RefreshedShape ==
    ASSUME NEW j \in Jobs, NEW m \in Rows, NEW changed, NEW sold \in Int
    PROVE  LET j2 == Refreshed(j, m, changed, sold) IN
           \/ j2 = Idle
           \/ j2.mem = m /\ \/ /\ j2.pc = IF m.exec = 0 THEN "cancel_entry" ELSE "cancel_partial"
                               /\ m.status = "ENTRY_OPEN"
                            \/ /\ j2.pc \in {"sync", "legs", "sync_legs", "cancel_legs"}
                               /\ m.status = "POSITION_OPEN"
  <1> DEFINE armed == [j EXCEPT !.mem = m, !.tier = 1, !.avail = Held(m) - sold]
             next == CASE j.kind = "reconcile" -> Reconciled(j, m, changed, sold)
                       [] j.kind = "close" -> Closing(j, m)
                       [] OTHER -> Idle
             Fine(n) == \/ n = Idle
                        \/ /\ n \in Jobs /\ n.mem = m
                           /\ \/ /\ n.pc = IF m.exec = 0 THEN "cancel_entry" ELSE "cancel_partial"
                                 /\ m.status = "ENTRY_OPEN"
                              \/ /\ n.pc \in {"sync", "legs", "sync_legs", "cancel_legs"}
                                 /\ m.status = "POSITION_OPEN"
  <1>1. armed \in Jobs /\ armed.mem = m
    <2>1. Held(m) - sold \in Int
      BY HeldOK
    <2> QED
      BY <2>1 DEF Jobs
  <1>2. Placing(armed) \in Jobs /\ Placing(armed).mem = m
        /\ Placing(armed).pc \in {"legs", "sync_legs"}
    <2> HIDE DEF armed
    <2> QED
      BY <1>1, PlacingShape
  <1>3. \A pc \in Points : [j EXCEPT !.pc = pc, !.mem = m] \in Jobs
          /\ [j EXCEPT !.pc = pc, !.mem = m].mem = m /\ [j EXCEPT !.pc = pc, !.mem = m].pc = pc
    BY DEF Jobs
  <1>4. Fine(Reconciled(j, m, changed, sold))
    <2> DEFINE closing == [j EXCEPT !.pc = "sync", !.kind = "close", !.mem = m]
    <2>1. closing \in Jobs /\ closing.mem = m /\ closing.pc = "sync"
      BY DEF Jobs, Points, Kinds
    <2> DEFINE fell == changed /\ j.mark # NoMark /\ j.mark < m.plan.stop
               open == m.status = "POSITION_OPEN" /\ m.exitXid = NoId
               expired == [j EXCEPT !.pc = "cancel_entry", !.mem = m]
               a == Placing(armed)
    <2>2. Reconciled(j, m, changed, sold)
            = CASE BidExpired(m) -> expired
                [] open /\ fell -> closing
                [] open /\ ~fell -> a
                [] OTHER -> Idle
      BY DEF Reconciled
    <2>3. expired \in Jobs /\ expired.mem = m /\ expired.pc = "cancel_entry"
      BY <1>3 DEF Points
    <2>4. a \in Jobs /\ a.mem = m /\ a.pc \in {"legs", "sync_legs"}
      BY <1>2
    <2> HIDE DEF closing, armed, a, fell, expired
    <2> QED
      BY <2>1, <2>2, <2>3, <2>4 DEF BidExpired
  <1>5. Fine(Closing(j, m))
    BY <1>3 DEF Closing, Points
  <1>6. Fine(next)
    <2> HIDE DEF Fine
    <2>1. Fine(Idle)
      BY DEF Fine
    <2> QED
      BY <1>4, <1>5, <2>1
  <1>7. Refreshed(j, m, changed, sold) = IF next.pc = "idle" THEN Idle ELSE [next EXCEPT !.dirty = FALSE]
    BY DEF Refreshed
  <1> HIDE DEF next
  <1> QED
    BY <1>6, <1>7 DEF Jobs, Idle

\* What asking the venue about the entry does to the record.
LEMMA SyncedEntryShape ==
    ASSUME orders \in Seq(VenueOrders), NEW i \in DOMAIN orders, NEW m \in Rows
    PROVE  LET r == SyncedEntry(m, i) IN
           /\ r \in Rows /\ r.xid = i /\ r.plan = m.plan
           /\ r.exitXid = m.exitXid /\ r.exitCid = m.exitCid
           /\ \/ r.status = m.status
              \/ /\ m.status = "ENTRY_OPEN" /\ ~orders[i].live
                 /\ r.status \in {"POSITION_OPEN", "CANCELED"}
  <1> DEFINE o == orders[i]
             m2 == [m EXCEPT !.xid = i, !.exStatus = StatusOf(o), !.exec = o.exec]
  <1>1. i \in Nat /\ o.exec \in Nat
    BY OrderOK DEF VenueOrders
  <1>2. m2 \in Rows /\ m2.xid = i /\ m2.plan = m.plan /\ m2.status = m.status
        /\ m2.exitXid = m.exitXid /\ m2.exitCid = m.exitCid
    BY <1>1, StatusOK DEF Rows
  <1>3. StatusOf(o) \in {"FILLED", "CANCELED"} => ~o.live
    BY DEF StatusOf
  <1>4. SyncedEntry(m, i) =
          IF m.status # "ENTRY_OPEN" THEN m2
          ELSE IF StatusOf(o) = "FILLED" THEN [m2 EXCEPT !.status = "POSITION_OPEN"]
          ELSE IF StatusOf(o) = "CANCELED" /\ o.exec = 0 THEN [m2 EXCEPT !.status = "CANCELED"]
          ELSE m2
    BY DEF SyncedEntry
  <1> HIDE DEF m2
  <1> QED
    BY <1>2, <1>3, <1>4 DEF Rows, Statuses, OpenStatuses, FinalStatuses

\* And asking about the exit.
LEMMA SyncedExitShape ==
    ASSUME NEW m \in Rows, NEW o
    PROVE  LET r == SyncedExit(m, o) IN
           r \in Rows /\ r.plan = m.plan /\ r.xid = m.xid /\ r.status \in {m.status, "CLOSED"}
  BY DEF SyncedExit, Rows, Statuses, FinalStatuses, NoId

LEMMA RowFacts ==
    ASSUME TypeInv
    PROVE  /\ row \in Rows /\ row.plan \in Plans /\ row.plan.stop \in Nat
           /\ exited \in Int /\ orders \in Seq(VenueOrders)
           /\ \A p \in Procs : /\ job[p] \in Jobs /\ job[p].mem \in Rows
                               /\ job[p].mem.plan \in Plans /\ job[p].mem.plan.stop \in Nat
  BY JobFacts DEF TypeInv, TypeOK, Rows, Plans

\* A leg the plan calls resting points at an order of the venue.
LEMMA RestingKnown ==
    ASSUME TypeInv, NEW p \in Procs, NEW t \in Resting(job[p].mem.plan)
    PROVE  job[p].mem.plan.xid[t] \in DOMAIN orders
  <1> DEFINE i == job[p].mem.plan.xid[t]
  <1>1. i \in Nat /\ i <= Len(orders) /\ i # 0
    BY JobFacts, RowFacts DEF Resting, Known, Plans
  <1>2. DOMAIN orders = 1..Len(orders)
    BY VenueCount, LenProperties
  <1> QED
    BY <1>1, <1>2, VenueCount

\* A refreshed order is saved and its handler goes where the order sends it.
LEMMA RefreshStage ==
    ASSUME TypeInv, LedgerInv, StageInv, NEW p \in Procs, ~At(p, "idle"),
           row' \in Rows, NEW changed, NEW sold \in Int,
           Go(p, Refreshed(job[p], row', changed, sold)),
           NoExit(row', exited'), row'.status # "NONE"
    PROVE  StageInv'
  <1> DEFINE j == Refreshed(job[p], row', changed, sold)
  <1>1. \/ j = Idle
        \/ j.mem = row' /\ \/ j.pc \in {"cancel_entry", "cancel_partial"} /\ row'.status = "ENTRY_OPEN"
                           \/ /\ j.pc \in {"sync", "legs", "sync_legs", "cancel_legs"}
                              /\ row'.status = "POSITION_OPEN"
    BY RefreshedShape, RowFacts
  <1>2. row'.plan.stop \in Nat /\ Idle.pc = "idle"
    BY DEF Rows, Plans, Idle
  <1>3. Stage(row', j)
    <2> HIDE DEF j
    <2> QED
      BY <1>1, <1>2 DEF Stage, OpenStatuses
  <1> QED
    BY <1>3, StageStep DEF Admitted

LEMMA SubmitEntryStage ==
    ASSUME TypeInv, LedgerInv, StageInv, NEW p \in Procs, SubmitEntry(p), Unlocked = {}
    PROVE  StageInv' /\ Follows(row, row')
  <1> DEFINE j == [Idle EXCEPT !.pc = "entry_post", !.kind = "submit", !.mem = row']
  <1>1. row = NoRow /\ row' = [NoRow EXCEPT !.status = "PENDING_SUBMIT"] /\ exited' = exited
        /\ NoExit(row, exited)
    BY DEF SubmitEntry, StageInv
  <1>2. j.pc = "entry_post" /\ j.mem = row'
    BY DEF Idle
  <1>3. Go(p, j) /\ Admitted(p)
    BY DEF SubmitEntry, Admitted
  <1> HIDE DEF j
  <1>4. /\ row'.status = "PENDING_SUBMIT" /\ row'.plan = row.plan /\ row.status = "NONE"
        /\ row'.exitXid = row.exitXid /\ row'.exitCid = row.exitCid
    BY <1>1 DEF NoRow
  <1>5. Stage(row', j) /\ NoExit(row', exited')
    BY <1>1, <1>2, <1>4 DEF Stage, NoExit, Unopened
  <1>6. Follows(row, row')
    BY <1>4, RowFacts DEF Follows, Edges, FinalStatuses
  <1> QED
    BY <1>3, <1>4, <1>5, <1>6, StageStep

\* A handler begins with the row as stored.
LEMMA StartStage ==
    ASSUME TypeInv, LedgerInv, StageInv, Unlocked = {}, NEW p \in Procs,
           StartClose(p) \/ \E mark : StartReconcile(p, mark)
    PROVE  StageInv' /\ Follows(row, row')
  <1>1. /\ CanStart(p) /\ row.status \in OpenStatuses
        /\ UNCHANGED <<row, exited>>
    BY DEF StartClose, StartReconcile
  <1>2. ASSUME NEW j, Go(p, j), j.mem = row,
               (j.pc = "pending" /\ row.status = "PENDING_SUBMIT") \/ j.pc = "sync"
        PROVE  StageInv'
    <2>1. Stage(row', j)
      BY <1>1, <1>2 DEF Stage
    <2>2. NoExit(row', exited') /\ row'.status # "NONE"
      BY <1>1 DEF StageInv, OpenStatuses
    <2> QED
      BY <1>1, <1>2, <2>1, <2>2, StageStep DEF Admitted
  <1>3. CASE StartClose(p)
    <2> DEFINE j == [Idle EXCEPT !.pc = "sync", !.kind = "close", !.mem = row]
    <2>1. j.mem = row /\ j.pc = "sync"
      BY DEF Idle
    <2>2. Go(p, j)
      BY <1>3 DEF StartClose
    <2> HIDE DEF j
    <2> QED
      BY <1>1, <1>2, <2>1, <2>2, SameFollows, RowFacts
  <1>4. ASSUME NEW mark, StartReconcile(p, mark) PROVE StageInv' /\ Follows(row, row')
    <2> DEFINE pc == IF row.status = "PENDING_SUBMIT" THEN "pending" ELSE "sync"
               j == [Idle EXCEPT !.pc = pc, !.kind = "reconcile", !.mem = row, !.mark = mark]
    <2>1. j.mem = row /\ j.pc = pc
      BY DEF Idle
    <2>2. Go(p, j)
      BY <1>4 DEF StartReconcile
    <2> HIDE DEF j
    <2> QED
      BY <1>1, <1>2, <2>1, <2>2, SameFollows, RowFacts
  <1> QED
    BY <1>3, <1>4

LEMMA AdjustStage ==
    ASSUME TypeInv, LedgerInv, StageInv, Unlocked = {}, NEW p \in Procs, NEW stop, Adjust(p, stop)
    PROVE  StageInv' /\ row.status \notin FinalStatuses
  <1>1. \A q \in Procs : At(q, "idle") /\ job'[q] = job[q]
    BY DEF Adjust, CanStart
  <1>2. /\ row'.status = row.status /\ row'.exitXid = row.exitXid /\ row'.exitCid = row.exitCid
        /\ row.status \in OpenStatuses /\ exited' = exited
    BY RowFacts DEF Adjust, Rows
  <1> QED
    BY <1>1, <1>2, IdleStage DEF StageInv, NoExit, At, OpenStatuses, FinalStatuses

LEMMA PostEntryStage ==
    ASSUME TypeInv, LedgerInv, StageInv, NEW p \in Procs, PostEntry(p)
    PROVE  StageInv' /\ Follows(row, row')
  <1> DEFINE j == [job[p] EXCEPT !.pc = "entry_bind", !.ref = Len(orders) + 1]
  <1>1. j.pc = "entry_bind" /\ j.mem = job[p].mem
    BY RowFacts DEF Jobs
  <1>2. Go(p, j) /\ ~At(p, "idle") /\ UNCHANGED <<row, exited>>
    BY DEF PostEntry, At
  <1> HIDE DEF j
  <1>3. Stage(row, j)
    BY <1>1 DEF Stage, StageInv, PostEntry, At
  <1> QED
    BY <1>2, <1>3, StageMove

LEMMA BindEntryStage ==
    ASSUME TypeInv, LedgerInv, StageInv, NEW p \in Procs, BindEntry(p)
    PROVE  StageInv' /\ Follows(row, row')
  <1>1. Finish(p) /\ ~At(p, "idle") /\ UNCHANGED exited
    BY DEF BindEntry, At
  <1>2. job[p].mem = row /\ row.status = "PENDING_SUBMIT" /\ NoExit(row, exited)
    BY DEF BindEntry, At, StageInv, Stage
  <1>3. CASE row' = row
    BY <1>1, <1>3, StageQuit
  <1>4. CASE row' = [job[p].mem EXCEPT !.status = "ENTRY_OPEN", !.xid = job[p].ref,
                                       !.exStatus = StatusOf(orders[job[p].ref]),
                                       !.exec = orders[job[p].ref].exec]
    <2>1. /\ row'.status = "ENTRY_OPEN" /\ row'.plan = row.plan
          /\ row'.exitXid = row.exitXid /\ row'.exitCid = row.exitCid
      BY <1>2, <1>4, RowFacts DEF Rows
    <2>2. NoExit(row', exited') /\ Follows(row, row')
      BY <1>1, <1>2, <2>1, RowFacts DEF NoExit, Unopened, Follows, Edges, FinalStatuses
    <2> QED
      BY <1>1, <2>1, <2>2, StageFinish
  <1> QED
    BY <1>3, <1>4 DEF BindEntry

LEMMA ResolvePendingStage ==
    ASSUME TypeInv, LedgerInv, StageInv, NEW p \in Procs, ResolvePending(p)
    PROVE  StageInv' /\ Follows(row, row')
  <1>1. ~At(p, "idle") /\ UNCHANGED exited
    BY DEF ResolvePending, At
  <1>2. job[p].mem = row /\ row.status = "PENDING_SUBMIT" /\ NoExit(row, exited)
    BY DEF ResolvePending, At, StageInv, Stage
  <1>3. ASSUME NEW i, row' = [row EXCEPT !.status = "ENTRY_OPEN", !.xid = i],
               Go(p, [job[p] EXCEPT !.pc = "sync", !.kind = "adopt", !.mem = row'])
        PROVE  StageInv' /\ Follows(row, row')
    <2> DEFINE j == [job[p] EXCEPT !.pc = "sync", !.kind = "adopt", !.mem = row']
    <2>1. /\ row'.status = "ENTRY_OPEN" /\ row'.plan = row.plan
          /\ row'.exitXid = row.exitXid /\ row'.exitCid = row.exitCid
      BY <1>3, RowFacts DEF Rows
    <2>2. NoExit(row', exited') /\ Follows(row, row')
      BY <1>1, <1>2, <2>1, RowFacts DEF NoExit, Unopened, Follows, Edges, FinalStatuses
    <2>3. j.pc = "sync" /\ j.mem = row'
      BY RowFacts DEF Jobs
    <2>4. Go(p, j)
      BY <1>3
    <2> HIDE DEF j
    <2>5. Stage(row', j)
      BY <2>1, <2>3 DEF Stage, OpenStatuses
    <2> QED
      BY <1>1, <2>1, <2>2, <2>4, <2>5, StageStep DEF Admitted
  <1>4. CASE Finish(p) /\ row' = row
    BY <1>1, <1>4, StageQuit
  <1>5. CASE Finish(p) /\ row' = [row EXCEPT !.status = "CANCELED"]
    <2>1. /\ row'.status = "CANCELED" /\ row'.plan = row.plan
          /\ row'.exitXid = row.exitXid /\ row'.exitCid = row.exitCid
      BY <1>5, RowFacts DEF Rows
    <2>2. NoExit(row', exited') /\ Follows(row, row')
      BY <1>1, <1>2, <2>1, RowFacts DEF NoExit, Unopened, Follows, Edges, FinalStatuses
    <2> QED
      BY <1>1, <1>5, <2>1, <2>2, StageFinish
  <1> QED
    BY <1>2, <1>3, <1>4, <1>5 DEF ResolvePending

LEMMA SyncEntryStage ==
    ASSUME TypeInv, LedgerInv, StageInv, NEW p \in Procs, SyncEntry(p)
    PROVE  StageInv' /\ Follows(row, row')
  <1> DEFINE m == job[p].mem
             found == Lookup(m.xid, EntryCid)
  <1>1. ~At(p, "idle") /\ UNCHANGED <<exited, orders>>
    BY DEF SyncEntry, At
  <1>2. m = row /\ row.status \in OpenStatuses /\ NoExit(row, exited)
    BY DEF SyncEntry, At, StageInv, Stage
  <1>3. found \subseteq DOMAIN orders
    <2>1. m.xid \in Nat /\ m.xid <= Len(orders)
      BY JobFacts DEF Known, Rows
    <2> QED
      BY <2>1, LookupOK
  <1>4. row' \in Rows
    BY SyncEntryType DEF TypeInv, TypeOK
  <1>5. \A i \in found : LET r == SyncedEntry(row, i) IN
          /\ r \in Rows /\ r.xid = i /\ r.plan = row.plan
          /\ r.exitXid = row.exitXid /\ r.exitCid = row.exitCid
          /\ \/ r.status = row.status
             \/ row.status = "ENTRY_OPEN" /\ r.status \in {"POSITION_OPEN", "CANCELED"}
    BY <1>3, RowFacts, SyncedEntryShape
  <1>6. ASSUME NEW changed, Go(p, Refreshed(job[p], row', changed, exited)),
               row'.plan = row.plan, row'.exitXid = row.exitXid, row'.exitCid = row.exitCid,
               \/ row'.status = row.status
               \/ row.status = "ENTRY_OPEN" /\ row'.status \in {"POSITION_OPEN", "CANCELED"}
        PROVE  StageInv' /\ Follows(row, row')
    <2>1. NoExit(row', exited')
      BY <1>1, <1>2, <1>6 DEF NoExit, Unopened
    <2>2. row'.status # "NONE" /\ Follows(row, row')
      BY <1>2, <1>6, RowFacts DEF OpenStatuses, Follows, Edges, FinalStatuses
    <2> QED
      BY <1>1, <1>4, <1>6, <2>1, <2>2, RowFacts, RefreshStage
  <1>7. CASE /\ row' = [m EXCEPT !.exStatus = "UNKNOWN"]
             /\ Go(p, Refreshed(job[p], row', m.exStatus # "UNKNOWN", exited))
    <2>1. /\ row'.plan = row.plan /\ row'.exitXid = row.exitXid /\ row'.exitCid = row.exitCid
          /\ row'.status = row.status
      BY <1>2, <1>7, RowFacts DEF Rows
    <2> QED
      BY <1>6, <1>7, <2>1
  <1>8. ASSUME NEW i \in found, row' = SyncedEntry(m, i),
               Go(p, Refreshed(job[p], row', Observed(row') # Observed(m), exited))
        PROVE  StageInv' /\ Follows(row, row')
    <2>1. /\ row'.plan = row.plan /\ row'.exitXid = row.exitXid /\ row'.exitCid = row.exitCid
          /\ \/ row'.status = row.status
             \/ row.status = "ENTRY_OPEN" /\ row'.status \in {"POSITION_OPEN", "CANCELED"}
      BY <1>2, <1>5, <1>8
    <2> QED
      BY <1>6, <1>8, <2>1
  <1>9. ASSUME m.exitXid # NoId \/ m.exitCid, NEW i \in found, UNCHANGED row,
               Go(p, [job[p] EXCEPT !.pc = "sync_exit", !.mem = SyncedEntry(m, i),
                                    !.dirty = Observed(SyncedEntry(m, i)) # Observed(m)])
        PROVE  StageInv' /\ Follows(row, row')
    <2> DEFINE r == SyncedEntry(m, i)
               d == Observed(r) # Observed(m)
               j == [job[p] EXCEPT !.pc = "sync_exit", !.mem = r, !.dirty = d]
    <2>1. row.status = "POSITION_OPEN"
      BY <1>2, <1>9 DEF NoExit, Unopened, OpenStatuses
    <2>2. r.status = "POSITION_OPEN" /\ r.plan = row.plan
      BY <1>2, <1>5, <2>1
    <2>3. Go(p, j)
      BY <1>9
    <2> HIDE DEF r, d
    <2>4. j.pc = "sync_exit" /\ j.mem = r
      BY RowFacts DEF Jobs
    <2> HIDE DEF j
    <2>5. Stage(row, j)
      BY <2>1, <2>2, <2>4, RowFacts DEF Stage
    <2> QED
      BY <1>1, <1>9, <2>3, <2>5, StageMove
  <1> QED
    BY <1>7, <1>8, <1>9 DEF SyncEntry

LEMMA SyncExitStage ==
    ASSUME TypeInv, LedgerInv, StageInv, NEW p \in Procs, SyncExit(p)
    PROVE  StageInv' /\ Follows(row, row')
  <1> DEFINE m == job[p].mem
  <1>1. ~At(p, "idle")
    BY DEF SyncExit, At
  <1>2. m.status = "POSITION_OPEN" /\ m.plan.stop >= row.plan.stop /\ row.status = "POSITION_OPEN"
    BY DEF SyncExit, At, StageInv, Stage
  <1>3. row' \in Rows /\ exited' \in Int
    BY SyncExitType DEF TypeInv, TypeOK
  <1>4. row'.plan = m.plan /\ row'.status \in {"POSITION_OPEN", "CLOSED"}
    <2>1. row' = m \/ \E o : row' = SyncedExit(m, o)
      BY DEF SyncExit
    <2> QED
      BY <1>2, <2>1, RowFacts, SyncedExitShape
  <1>5. NoExit(row', exited') /\ row'.status # "NONE"
    BY <1>4 DEF NoExit, Unopened
  <1>6. Follows(row, row')
    BY <1>2, <1>4 DEF Follows, Edges, FinalStatuses
  <1>7. PICK changed : Go(p, Refreshed(job[p], row', changed, exited'))
    BY DEF SyncExit
  <1> QED
    BY <1>1, <1>3, <1>5, <1>6, <1>7, RefreshStage

\* The operators of the ladder never lower the stop.
LEMMA StopKept ==
    ASSUME NEW plan \in Plans
    PROVE  /\ \A t \in Tiers, q \in Nat : TierFilled(plan, t, q).stop >= plan.stop
           /\ \A mark \in Nat : Trailed(plan, mark).stop >= plan.stop
           /\ \A S : Unbound(plan, S).stop = plan.stop
           /\ \A t, id : Bound(plan, t, id).stop = plan.stop
  <1>1. \A t \in Tiers, q \in Nat : TierFilled(plan, t, q).stop >= plan.stop
    <2> SUFFICES ASSUME NEW t \in Tiers, NEW q \in Nat
                 PROVE  TierFilled(plan, t, q).stop >= plan.stop
      OBVIOUS
    <2>1. RatchetTo(t) \in Nat
      BY RatchetOK
    <2> QED
      BY <2>1 DEF TierFilled, Higher, Plans
  <1>2. \A mark \in Nat : Trailed(plan, mark).stop >= plan.stop
    <2> SUFFICES ASSUME NEW mark \in Nat PROVE Trailed(plan, mark).stop >= plan.stop
      OBVIOUS
    <2> DEFINE high == Higher(plan.high, mark)
               trails == RunnerActive(plan) /\ TrailDistance > 0 /\ high >= TrailDistance
               stop == IF trails THEN Higher(plan.stop, high - TrailDistance) ELSE plan.stop
    <2>1. high \in Nat
      BY DEF Higher, Plans
    <2>2. stop >= plan.stop
      BY <2>1, LadderConstants DEF Higher, Plans
    <2>3. Trailed(plan, mark) = [plan EXCEPT !.high = high, !.stop = stop]
      BY DEF Trailed
    <2> HIDE DEF high, stop
    <2> QED
      BY <2>2, <2>3 DEF Plans
  <1>3. \A S : Unbound(plan, S).stop = plan.stop
    BY DEF Unbound, Plans
  <1>4. \A t, id : Bound(plan, t, id).stop = plan.stop
    BY DEF Bound, Plans
  <1> QED
    BY <1>1, <1>2, <1>3, <1>4

LEMMA LegSyncedStop ==
    ASSUME NEW plan \in Plans, NEW t \in Tiers, NEW o \in VenueOrders
    PROVE  LegSynced(plan, t, o).stop >= plan.stop
  <1>1. o.exec \in Nat /\ plan.stop \in Nat
    BY DEF VenueOrders, Plans
  <1> QED
    BY <1>1, StopKept DEF LegSynced

\* Cancelling the entry saves nothing yet; what is saved afterwards is final.
LEMMA CancelEntryStage ==
    ASSUME TypeInv, LedgerInv, StageInv, NEW p \in Procs,
           CancelEntry(p) \/ SaveCancelled(p) \/ CancelPartialEntry(p)
    PROVE  StageInv' /\ Follows(row, row')
  <1>1. /\ ~At(p, "idle") /\ UNCHANGED exited
        /\ job[p].mem = row /\ row.status = "ENTRY_OPEN" /\ NoExit(row, exited)
    BY DEF CancelEntry, SaveCancelled, CancelPartialEntry, At, StageInv, Stage
  <1>2. CASE CancelEntry(p)
    <2> DEFINE j == [job[p] EXCEPT !.pc = "cancel_saved"]
    <2>1. j.pc = "cancel_saved" /\ j.mem = row
      BY <1>1, RowFacts DEF Jobs
    <2>2. Go(p, j) /\ UNCHANGED <<row, exited>>
      BY <1>2 DEF CancelEntry
    <2> HIDE DEF j
    <2>3. Stage(row, j)
      BY <1>1, <2>1 DEF Stage
    <2> QED
      BY <1>1, <2>2, <2>3, StageMove
  <1>3. CASE SaveCancelled(p)
    <2>1. /\ row'.status = "CANCELED" /\ row'.plan = row.plan
          /\ row'.exitXid = row.exitXid /\ row'.exitCid = row.exitCid
      BY <1>1, <1>3, RowFacts DEF SaveCancelled, Rows
    <2>2. NoExit(row', exited') /\ Follows(row, row')
      BY <1>1, <2>1, RowFacts DEF NoExit, Unopened, Follows, Edges, FinalStatuses
    <2> QED
      BY <1>1, <1>3, <2>1, <2>2, StageFinish DEF SaveCancelled
  <1>4. CASE CancelPartialEntry(p)
    <2> DEFINE j == [job[p] EXCEPT !.pc = "cancel_legs", !.mem.status = "POSITION_OPEN"]
    <2>1. j.pc = "cancel_legs" /\ j.mem.status = "POSITION_OPEN" /\ j.mem.plan = row.plan
      BY <1>1, RowFacts DEF Jobs, Rows
    <2>2. Go(p, j) /\ UNCHANGED <<row, exited>>
      BY <1>4 DEF CancelPartialEntry
    <2> HIDE DEF j
    <2>3. Stage(row, j)
      BY <1>1, <2>1, RowFacts DEF Stage
    <2> QED
      BY <1>1, <2>2, <2>3, StageMove
  <1> QED
    BY <1>2, <1>3, <1>4

\* A bound leg sends the handler on to the next, with the lots it leaves.
LEMMA BoundGoes ==
    ASSUME TypeInv, NEW p \in Procs, AdoptLeg(p) \/ BindLeg(p)
    PROVE  \E next \in Nat, left \in Int :
             Go(p, Placing([job[p] EXCEPT !.mem = row', !.tier = next, !.avail = left]))
  <1>1. CASE AdoptLeg(p)
    <2>1. PICK u \in Tiers :
            Go(p, Placing([job[p] EXCEPT !.mem = row', !.tier = u + 1,
                                         !.avail = job[p].avail - LegQuantity(job[p], u)]))
      BY <1>1 DEF AdoptLeg
    <2>2. u + 1 \in Nat /\ job[p].avail - LegQuantity(job[p], u) \in Int
      BY LegQuantityOK, RowFacts DEF Tiers, Jobs
    <2> QED
      BY <2>1, <2>2
  <1>2. CASE BindLeg(p)
    <2>1. job[p].tier + 1 \in Nat /\ job[p].avail - job[p].want \in Int
      BY RowFacts DEF Jobs
    <2> QED
      BY <1>2, <2>1 DEF BindLeg
  <1> QED
    BY <1>1, <1>2

\* A handler that saves a bound leg holds what it saved.
LEMMA BoundStage ==
    ASSUME TypeInv, LedgerInv, StageInv, NEW p \in Procs, AdoptLeg(p) \/ BindLeg(p)
    PROVE  StageInv' /\ Follows(row, row')
  <1>1. /\ ~At(p, "idle") /\ UNCHANGED exited
        /\ job[p].mem = row /\ row.status = "POSITION_OPEN"
    BY DEF AdoptLeg, BindLeg, At, StageInv, Stage
  <1>2. PICK t, id : row' = [row EXCEPT !.plan = Bound(row.plan, t, id)]
    BY <1>1 DEF AdoptLeg, BindLeg
  <1>3. row'.plan.stop = row.plan.stop /\ row'.status = "POSITION_OPEN"
    BY <1>1, <1>2, StopKept, RowFacts DEF Rows
  <1>4. PICK next \in Nat, left \in Int :
          Go(p, Placing([job[p] EXCEPT !.mem = row', !.tier = next, !.avail = left]))
    BY BoundGoes
  <1> DEFINE k == [job[p] EXCEPT !.mem = row', !.tier = next, !.avail = left]
  <1>5. row' \in Rows
    BY AdoptLegType, BindLegType DEF TypeInv, TypeOK
  <1>6. k \in Jobs /\ k.mem = row'
    BY <1>5, RowFacts DEF Jobs
  <1> HIDE DEF k
  <1>7. Placing(k).mem = row' /\ Placing(k).pc \in {"legs", "sync_legs"}
    BY <1>6, PlacingShape
  <1>8. Stage(row', Placing(k))
    BY <1>3, <1>5, <1>7 DEF Stage, Rows, Plans
  <1>9. NoExit(row', exited') /\ row'.status # "NONE" /\ Follows(row, row')
    BY <1>1, <1>3, RowFacts DEF NoExit, Unopened, Follows, FinalStatuses
  <1>10. Go(p, Placing(k))
    BY <1>4 DEF k
  <1> QED
    BY <1>1, <1>8, <1>9, <1>10, StageStep DEF Admitted

\* A handler that prepares or posts a sell has saved nothing new.
LEMMA SellStage ==
    ASSUME TypeInv, LedgerInv, StageInv, NEW p \in Procs,
           PrepareLeg(p) \/ PostSell(p) \/ PrepareExit(p)
    PROVE  StageInv' /\ Follows(row, row')
  <1>1. ~At(p, "idle") /\ UNCHANGED <<row, exited>>
    BY DEF PrepareLeg, PostSell, PrepareExit, At
  <1>2. ASSUME NEW j, Go(p, j), j.mem = job[p].mem,
               \/ At(p, "legs") /\ j.pc = "leg_post"
               \/ At(p, "leg_post") /\ j.pc = "leg_bind"
               \/ At(p, "exit") /\ j.pc = "exit_post"
               \/ At(p, "exit_post") /\ j.pc = "exit_bind"
        PROVE  StageInv' /\ Follows(row, row')
    <2>1. Stage(row, j)
      BY <1>2 DEF StageInv, Stage, At
    <2> QED
      BY <1>1, <1>2, <2>1, StageMove
  <1>3. CASE PrepareLeg(p)
    <2>1. PICK t \in Tiers :
            Go(p, [job[p] EXCEPT !.pc = "leg_post", !.tier = t, !.want = LegQuantity(job[p], t)])
      BY <1>3 DEF PrepareLeg
    <2> DEFINE j == [job[p] EXCEPT !.pc = "leg_post", !.tier = t, !.want = LegQuantity(job[p], t)]
    <2>2. j.pc = "leg_post" /\ j.mem = job[p].mem
      BY RowFacts DEF Jobs
    <2> HIDE DEF j
    <2>3. Go(p, j)
      BY <2>1 DEF j
    <2> QED
      BY <1>2, <1>3, <2>2, <2>3 DEF PrepareLeg
  <1>4. CASE PostSell(p)
    <2> DEFINE pc == IF job[p].pc = "leg_post" THEN "leg_bind" ELSE "exit_bind"
               j == [job[p] EXCEPT !.pc = pc, !.ref = Len(orders) + 1]
    <2>1. j.pc = pc /\ j.mem = job[p].mem
      BY RowFacts DEF Jobs
    <2>2. Go(p, j) /\ (At(p, "leg_post") \/ At(p, "exit_post"))
      BY <1>4 DEF PostSell, At
    <2> HIDE DEF j
    <2> QED
      BY <1>2, <2>1, <2>2 DEF At
  <1>5. CASE PrepareExit(p)
    <2> DEFINE j == [job[p] EXCEPT !.pc = "exit_post", !.want = LotsLeft(p)]
    <2>1. j.pc = "exit_post" /\ j.mem = job[p].mem
      BY RowFacts DEF Jobs
    <2>2. Go(p, j) /\ At(p, "exit")
      BY <1>5 DEF PrepareExit
    <2> HIDE DEF j
    <2> QED
      BY <1>2, <2>1, <2>2
  <1> QED
    BY <1>3, <1>4, <1>5

LEMMA SyncLegStage ==
    ASSUME TypeInv, LedgerInv, StageInv, NEW p \in Procs, SyncLeg(p)
    PROVE  StageInv' /\ Follows(row, row')
  <1> DEFINE m == job[p].mem
             plan == m.plan
  <1>1. /\ ~At(p, "idle") /\ UNCHANGED row /\ job[p].pc = "sync_legs"
        /\ m.status = "POSITION_OPEN" /\ row.status = "POSITION_OPEN"
        /\ plan.stop >= row.plan.stop
    BY DEF SyncLeg, At, StageInv, Stage
  <1>2. PICK t \in Tiers :
          /\ NextResting(job[p], t)
          /\ Go(p, [job[p] EXCEPT !.mem.plan = LegSynced(plan, t, orders[plan.xid[t]]),
                                  !.tier = t + 1,
                                  !.dirty = job[p].dirty
                                            \/ LegSynced(plan, t, orders[plan.xid[t]]) # plan])
    BY DEF SyncLeg
  <1> DEFINE plan2 == LegSynced(plan, t, orders[plan.xid[t]])
             d == job[p].dirty \/ plan2 # plan
             j == [job[p] EXCEPT !.mem.plan = plan2, !.tier = t + 1, !.dirty = d]
  <1>3. plan2 \in Plans /\ plan2.stop >= plan.stop
    <2>1. plan.xid[t] \in DOMAIN orders
      BY <1>2, RestingKnown DEF NextResting
    <2> QED
      BY <2>1, OrderOK, RowFacts, LegSyncedOK, LegSyncedStop
  <1>4. Go(p, j)
    BY <1>2
  <1> HIDE DEF plan2, d
  <1>5. j.pc = "sync_legs" /\ j.mem.status = "POSITION_OPEN" /\ j.mem.plan = plan2
    BY <1>1, RowFacts DEF Jobs, Rows
  <1> HIDE DEF j
  <1>6. Stage(row', j)
    <2>1. plan2.stop \in Nat /\ plan.stop \in Nat /\ row.plan.stop \in Nat
      BY <1>3, RowFacts DEF Plans
    <2>2. plan2.stop >= row.plan.stop
      BY <1>1, <1>3, <2>1
    <2> QED
      BY <1>1, <1>5, <2>2 DEF Stage
  <1>7. NoExit(row', exited') /\ row'.status # "NONE" /\ Follows(row, row')
    BY <1>1, RowFacts, SameFollows DEF NoExit, Unopened
  <1> QED
    BY <1>1, <1>4, <1>6, <1>7, StageStep DEF Admitted

LEMMA FinishLegsStage ==
    ASSUME TypeInv, LedgerInv, StageInv, NEW p \in Procs, FinishLegs(p)
    PROVE  StageInv' /\ Follows(row, row')
  <1> DEFINE m == job[p].mem
             soldOut == /\ \A t \in Tiers : m.plan.filled[t]
                        /\ RemainingQuantity(m.plan, Held(m)) <= 0
             m2 == IF soldOut THEN [m EXCEPT !.status = "CLOSED"] ELSE m
             stops == m2.status = "POSITION_OPEN" /\ job[p].mark # NoMark
             m3 == IF stops THEN [m2 EXCEPT !.plan = Trailed(m2.plan, job[p].mark)] ELSE m2
             j == [job[p] EXCEPT !.pc = "cancel_legs", !.mem = m3, !.tier = 1, !.dirty = FALSE]
  <1>1. /\ ~At(p, "idle") /\ UNCHANGED exited
        /\ m.status = "POSITION_OPEN" /\ row.status = "POSITION_OPEN"
        /\ m.plan.stop >= row.plan.stop
    BY DEF FinishLegs, At, StageInv, Stage
  <1>2. m2 \in Rows /\ m2.plan = m.plan /\ m2.status \in {"POSITION_OPEN", "CLOSED"}
    BY <1>1, RowFacts DEF Rows, Statuses, FinalStatuses
  <1>3. stops => m2.status = "POSITION_OPEN"
    OBVIOUS
  <1>4. /\ m3.status = m2.status /\ m3.plan.stop >= m.plan.stop /\ m3.plan.stop \in Nat
    <2>1. Trailed(m.plan, job[p].mark) \in Plans
          /\ Trailed(m.plan, job[p].mark).stop >= m.plan.stop
      BY RowFacts, MarkOK, TrailedOK, StopKept
    <2>2. Trailed(m.plan, job[p].mark).stop \in Nat /\ m.plan.stop \in Nat
      BY <2>1, RowFacts DEF Plans
    <2> HIDE DEF m2, m, stops
    <2> QED
      BY <1>2, <2>1, <2>2 DEF Rows
  <1> HIDE DEF m2, m3, soldOut, stops
  <1>5. \A r \in {row, m2, m3} :
          /\ r.status \in {"POSITION_OPEN", "CLOSED"} /\ r.plan.stop >= row.plan.stop
          /\ NoExit(r, exited') /\ Follows(row, r)
    <2>1. \A r \in {row, m2, m3} :
            r.status \in {"POSITION_OPEN", "CLOSED"} /\ r.plan.stop >= row.plan.stop
      BY <1>1, <1>2, <1>4, RowFacts
    <2> QED
      BY <1>1, <2>1 DEF NoExit, Unopened, Follows, Edges, FinalStatuses
  <1>6. CASE stops /\ row' = (IF job[p].dirty THEN m2 ELSE row) /\ Go(p, j)
    <2>1. /\ row'.status = "POSITION_OPEN" /\ m3.status = "POSITION_OPEN"
          /\ m3.plan.stop >= row'.plan.stop
      BY <1>1, <1>2, <1>3, <1>4, <1>6, RowFacts
    <2>2. j.pc = "cancel_legs" /\ j.mem = m3
      BY RowFacts DEF Jobs
    <2>3. NoExit(row', exited') /\ Follows(row, row')
      BY <1>5, <1>6
    <2> HIDE DEF j
    <2>4. Stage(row', j)
      BY <2>1, <2>2 DEF Stage
    <2> QED
      BY <1>1, <1>6, <2>1, <2>3, <2>4, StageStep DEF Admitted
  <1>7. CASE row' = (IF job[p].dirty \/ m3 # m THEN m3 ELSE row) /\ Finish(p)
    <2>1. NoExit(row', exited') /\ Follows(row, row') /\ row'.status # "NONE"
      BY <1>5, <1>7
    <2> QED
      BY <1>1, <1>7, <2>1, StageFinish
  <1> QED
    BY <1>6, <1>7 DEF FinishLegs, m2, m3, soldOut, stops

LEMMA CancelLegsStage ==
    ASSUME TypeInv, LedgerInv, StageInv, NEW p \in Procs, CancelLegs(p)
    PROVE  StageInv' /\ Follows(row, row')
  <1> DEFINE m == job[p].mem
             plan2 == Unbound(m.plan, Resting(m.plan))
             j == [job[p] EXCEPT !.pc = "exit", !.mem.plan = plan2]
  <1>1. /\ ~At(p, "idle") /\ UNCHANGED <<row, exited>> /\ Go(p, j)
        /\ m.status = "POSITION_OPEN" /\ row.status \in {"ENTRY_OPEN", "POSITION_OPEN"}
        /\ m.plan.stop >= row.plan.stop
    BY DEF CancelLegs, At, StageInv, Stage
  <1>2. plan2.stop = m.plan.stop
    BY RowFacts, StopKept
  <1> HIDE DEF plan2
  <1>3. j.pc = "exit" /\ j.mem.status = "POSITION_OPEN" /\ j.mem.plan = plan2
    BY <1>1, RowFacts DEF Jobs, Rows
  <1> HIDE DEF j
  <1>4. Stage(row, j)
    BY <1>1, <1>2, <1>3 DEF Stage
  <1> QED
    BY <1>1, <1>4, StageMove

\* Nothing has been sold for a row that is not a position, so it cannot be sold out.
LEMMA CloseSoldOutStage ==
    ASSUME TypeInv, LedgerInv, StageInv, NEW p \in Procs, CloseSoldOut(p)
    PROVE  StageInv' /\ Follows(row, row')
  <1> DEFINE m == job[p].mem
  <1>1. /\ ~At(p, "idle") /\ UNCHANGED exited /\ Finish(p) /\ LotsLeft(p) <= 0
        /\ row' = [m EXCEPT !.status = "CLOSED"]
        /\ row.status \in {"ENTRY_OPEN", "POSITION_OPEN"} /\ m.plan.stop >= row.plan.stop
        /\ NoExit(row, exited)
    BY DEF CloseSoldOut, At, StageInv, Stage
  <1>2. Held(m) > 0
    BY RowFacts, SyncAssumption DEF Held, Rows, SyncAssumption
  <1>3. row.status = "POSITION_OPEN"
    BY <1>1, <1>2, HeldOK, RowFacts DEF NoExit, Unopened, LotsLeft
  <1>4. row'.status = "CLOSED" /\ row'.plan = m.plan
    BY <1>1, RowFacts DEF Rows
  <1>5. NoExit(row', exited') /\ Follows(row, row')
    BY <1>1, <1>3, <1>4 DEF NoExit, Unopened, Follows, Edges, FinalStatuses
  <1> QED
    BY <1>1, <1>4, <1>5, StageFinish

LEMMA ExitBoundStage ==
    ASSUME TypeInv, LedgerInv, StageInv, NEW p \in Procs, AdoptExit(p) \/ BindExit(p)
    PROVE  StageInv' /\ Follows(row, row')
  <1> DEFINE m == job[p].mem
  <1>1. /\ ~At(p, "idle") /\ UNCHANGED exited /\ Finish(p)
        /\ m.status = "POSITION_OPEN" /\ m.plan.stop >= row.plan.stop
        /\ row.status \in {"ENTRY_OPEN", "POSITION_OPEN"}
    BY DEF AdoptExit, BindExit, At, StageInv, Stage
  <1>2. PICK id : row' = [m EXCEPT !.exitXid = id, !.exitCid = TRUE]
    BY DEF AdoptExit, BindExit
  <1>3. row'.status = "POSITION_OPEN" /\ row'.plan = m.plan
    BY <1>1, <1>2, RowFacts DEF Rows
  <1>4. NoExit(row', exited') /\ Follows(row, row')
    BY <1>1, <1>3 DEF NoExit, Unopened, Follows, Edges, FinalStatuses
  <1> QED
    BY <1>1, <1>3, <1>4, StageFinish

LEMMA ContinueStage ==
    ASSUME TypeInv, LedgerInv, StageInv, NEW p \in Procs, Continue(p)
    PROVE  StageInv' /\ Follows(row, row')
  <1>1. CASE RefuseSmallLeg(p) \/ RejectSell(p) \/ RefuseSmallExit(p)
    <2>1. Finish(p) /\ ~At(p, "idle") /\ UNCHANGED <<row, exited>>
      BY <1>1 DEF RefuseSmallLeg, RejectSell, RefuseSmallExit, At
    <2> QED
      BY <2>1, StageQuit
  <1>2. CASE PostEntry(p) \/ BindEntry(p) \/ ResolvePending(p) \/ SyncEntry(p) \/ SyncExit(p)
    BY <1>2, PostEntryStage, BindEntryStage, ResolvePendingStage, SyncEntryStage, SyncExitStage
  <1>3. CASE CancelEntry(p) \/ SaveCancelled(p) \/ CancelPartialEntry(p) \/ CancelLegs(p)
    BY <1>3, CancelEntryStage, CancelLegsStage
  <1>4. CASE AdoptLeg(p) \/ BindLeg(p) \/ PrepareLeg(p) \/ PostSell(p) \/ PrepareExit(p)
    BY <1>4, BoundStage, SellStage
  <1>5. CASE SyncLeg(p) \/ FinishLegs(p) \/ CloseSoldOut(p) \/ AdoptExit(p) \/ BindExit(p)
    BY <1>5, SyncLegStage, FinishLegsStage, CloseSoldOutStage, ExitBoundStage
  <1> QED
    BY <1>1, <1>2, <1>3, <1>4, <1>5 DEF Continue

LEMMA InitStage == Init => StageInv
  <1> SUFFICES ASSUME Init PROVE StageInv
    OBVIOUS
  <1>1. row = NoRow /\ exited = 0 /\ \A p \in Procs : job[p].pc = "idle"
    BY DEF Init, Idle
  <1>2. NoExit(row, exited)
    BY <1>1 DEF NoExit, NoRow
  <1> QED
    BY <1>1, <1>2, IdleStage DEF StageInv

\* What the venue and the clock do leaves every handler and the row alone.
LEMMA OutsideStage ==
    ASSUME TypeInv, StageInv, UNCHANGED <<row, exited, job>>
    PROVE  StageInv' /\ Follows(row, row')
  BY SameFollows, RowFacts DEF StageInv

LEMMA NextStage ==
    ASSUME TypeInv, LedgerInv, StageInv, Unlocked = {}, [Next]_vars
    PROVE  /\ StageInv'
           /\ \/ Follows(row, row')
              \/ /\ row.status \notin FinalStatuses
                 /\ \E p \in Procs, stop \in Marks : Adjust(p, stop)
  <1>1. ASSUME NEW p \in Procs, Start(p)
        PROVE  /\ StageInv'
               /\ \/ Follows(row, row')
                  \/ /\ row.status \notin FinalStatuses
                     /\ \E stop \in Marks : Adjust(p, stop)
    BY <1>1, SubmitEntryStage, StartStage, AdjustStage DEF Start, Tick
  <1>2. ASSUME NEW p \in Procs, Continue(p) PROVE StageInv' /\ Follows(row, row')
    BY <1>2, ContinueStage
  <1>3. ASSUME NEW p \in Procs, Fail(p) PROVE StageInv' /\ Follows(row, row')
    BY <1>3, StageQuit DEF Fail
  <1>4. CASE Venue \/ GetOlder \/ UNCHANGED vars
    BY <1>4, OutsideStage DEF Venue, Fill, Expire, GetOlder, vars
  <1> QED
    BY <1>1, <1>2, <1>3, <1>4 DEF Next

-----------------------------------------------------------------------------
(* Part 2.  The plans.  The stored plan is a copy of some handler's, so    *)
(* what holds of it has to hold of every plan in memory too.  A step makes *)
(* a plan in one of a few ways (Grows); whatever set of plans is closed    *)
(* under them still has all of them afterwards (NextPlans), with the lock  *)
(* or without.                                                             *)

PlansIn(K) == row.plan \in K /\ \A p \in Procs : job[p].mem.plan \in K

\* L has every plan that the next step may make of one in K.
Grows(K, L) ==
    /\ K \subseteq Plans /\ K \subseteq L /\ FreshPlan \in L
    /\ \A plan \in K :
         /\ \A mark \in Nat : Trailed(plan, mark) \in L
         /\ Unbound(plan, Resting(plan)) \in L
         /\ \A t \in Resting(plan) : plan.xid[t] \in DOMAIN orders
                => LegSynced(plan, t, orders[plan.xid[t]]) \in L
         /\ \A t \in Tiers : /\ Bound(plan, t, NoId) \in L
                             /\ \A i \in DOMAIN orders : orders[i].cid = t => Bound(plan, t, i) \in L
         /\ "adjust" \in Operator => \A stop \in Marks : [plan EXCEPT !.stop = stop] \in L

\* The answer to a post names an order of the tier it was for.
AnswerInv ==
    \A p \in Procs : At(p, "leg_bind") =>
        /\ job[p].tier \in Tiers /\ job[p].ref \in DOMAIN orders
        /\ orders[job[p].ref].cid = job[p].tier

\* Orders are added to the venue's, and one that is dead stays as it is.
OrdersLast ==
    /\ DOMAIN orders \subseteq DOMAIN orders'
    /\ \A i \in DOMAIN orders :
         orders'[i].cid = orders[i].cid /\ (~orders[i].live => orders'[i] = orders[i])

LEMMA SameLast == UNCHANGED orders => OrdersLast
  BY DEF OrdersLast

LEMMA PostedShape ==
    ASSUME TypeInv, NEW cid \in Cids, NEW qty \in Nat, orders' = Placed(cid, qty)
    PROVE  LET n == Len(orders) IN
           /\ n \in Nat /\ DOMAIN orders = 1..n /\ DOMAIN orders' = 1..(n + 1)
           /\ \A i \in 1..n : orders'[i] = orders[i]
           /\ orders'[n + 1] = [cid |-> cid, qty |-> qty, exec |-> 0, live |-> TRUE]
  <1> DEFINE n == Len(orders)
             o == [cid |-> cid, qty |-> qty, exec |-> 0, live |-> TRUE]
  <1>1. n \in Nat /\ DOMAIN orders = 1..n /\ orders \in Seq(VenueOrders)
    BY VenueCount, LenProperties
  <1>2. o \in VenueOrders
    BY DEF VenueOrders
  <1>3. orders' = Append(orders, o)
    BY DEF Placed
  <1> HIDE DEF o
  <1>4. /\ Append(orders, o) \in Seq(VenueOrders) /\ Len(Append(orders, o)) = n + 1
        /\ \A i \in 1..n : Append(orders, o)[i] = orders[i]
        /\ Append(orders, o)[n + 1] = o
    BY <1>1, <1>2, AppendProperties
  <1>5. DOMAIN orders' = 1..(n + 1) /\ (\A i \in 1..n : orders'[i] = orders[i]) /\ orders'[n + 1] = o
    BY <1>3, <1>4, LenProperties
  <1> QED
    BY <1>1, <1>5 DEF o

LEMMA PostLasts ==
    ASSUME TypeInv, NEW cid \in Cids, NEW qty \in Nat, orders' = Placed(cid, qty)
    PROVE  OrdersLast
  <1> DEFINE n == Len(orders)
  <1>0. /\ n \in Nat /\ DOMAIN orders = 1..n /\ DOMAIN orders' = 1..(n + 1)
        /\ \A i \in 1..n : orders'[i] = orders[i]
    BY PostedShape
  <1> HIDE DEF n
  <1>1. DOMAIN orders \subseteq DOMAIN orders' /\ \A i \in DOMAIN orders : orders'[i] = orders[i]
    BY <1>0
  <1> QED
    BY <1>1 DEF OrdersLast

LEMMA CancelLasts == ASSUME TypeInv, NEW S, orders' = Cancelled(S) PROVE OrdersLast
  <1>1. \A i \in DOMAIN orders :
          orders'[i] = IF i \in S THEN [orders[i] EXCEPT !.live = FALSE] ELSE orders[i]
    BY DEF Cancelled
  <1>2. DOMAIN orders' = DOMAIN orders
    BY DEF Cancelled
  <1>3. \A i \in DOMAIN orders : orders[i] \in VenueOrders
    BY OrderOK, VenueCount
  <1>4. \A o \in VenueOrders : /\ [o EXCEPT !.live = FALSE].cid = o.cid
                               /\ ~o.live => [o EXCEPT !.live = FALSE] = o
    BY DEF VenueOrders
  <1> QED
    BY <1>1, <1>2, <1>3, <1>4 DEF OrdersLast

LEMMA FillLasts == ASSUME TypeInv, NEW i \in DOMAIN orders, Fill(i) PROVE OrdersLast
  <1>1. orders[i] \in VenueOrders /\ orders[i].live
    BY OrderOK, VenueCount DEF Fill
  <1>2. PICK got, live :
          orders' = [orders EXCEPT ![i] = [orders[i] EXCEPT !.exec = got, !.live = live]]
    BY <1>1 DEF Fill, VenueOrders
  <1>3. DOMAIN orders' = DOMAIN orders
    BY <1>2
  <1>4. orders'[i].cid = orders[i].cid
    BY <1>1, <1>2 DEF VenueOrders
  <1>5. \A k \in DOMAIN orders : k # i => orders'[k] = orders[k]
    BY <1>2
  <1> QED
    BY <1>1, <1>3, <1>4, <1>5 DEF OrdersLast

LEMMA NextLasts == ASSUME TypeInv, [Next]_vars PROVE OrdersLast
  <1>1. ASSUME NEW p \in Procs, Continue(p) PROVE OrdersLast
    <2>1. CASE PostEntry(p)
      <3>1. EntryCid \in Cids /\ orders' = Placed(EntryCid, Qty) /\ Qty \in Nat
        BY <2>1, LadderConstants, SyncConstants DEF PostEntry, EntryCid, Cids, ExitCid
      <3> QED
        BY <3>1, PostLasts
    <2>2. CASE PostSell(p)
      <3>1. job[p].want \in Nat /\ job[p].pc \in {"leg_post", "exit_post"}
        BY <2>2, JobFacts DEF PostSell, JobOK
      <3>2. Cid(job[p]) \in Cids
        BY <3>1, JobFacts, LadderConstants DEF Cid, Cids, ExitCid, Tiers, JobOK
      <3> QED
        BY <2>2, <3>1, <3>2, PostLasts DEF PostSell
    <2>3. CASE CancelEntry(p) \/ CancelPartialEntry(p) \/ CancelLegs(p)
      BY <2>3, CancelLasts DEF CancelEntry, CancelPartialEntry, CancelLegs
    <2>4. CASE UNCHANGED orders
      BY <2>4, SameLast
    <2> QED
      BY <1>1, <2>1, <2>2, <2>3, <2>4
         DEF Continue, BindEntry, ResolvePending, SyncEntry, SyncExit, SaveCancelled, RefuseSmallLeg,
             AdoptLeg, PrepareLeg, BindLeg, RejectSell, SyncLeg, FinishLegs, CloseSoldOut,
             RefuseSmallExit, AdoptExit, PrepareExit, BindExit
  <1>2. ASSUME NEW p \in Procs, Start(p) \/ Fail(p) PROVE OrdersLast
    BY <1>2, SameLast DEF Start, Tick, SubmitEntry, StartReconcile, StartClose, Adjust, Fail
  <1>3. CASE Venue
    BY <1>3, FillLasts, CancelLasts DEF Venue, Expire
  <1>4. CASE GetOlder \/ UNCHANGED vars
    BY <1>4, SameLast DEF GetOlder, vars
  <1> QED
    BY <1>1, <1>2, <1>3, <1>4 DEF Next

\* What NextPlans asks of a step that takes the plans of K to plans of L.
Ready(K, L) == AnswerInv /\ PlansIn(K) /\ Grows(K, L) /\ OrdersLast

\* An idle handler holds the plan of a new row.
FreshIdle == Idle.mem.plan = FreshPlan /\ NoRow.plan = FreshPlan /\ Idle.pc # "leg_bind"

LEMMA FreshIn == FreshIdle
  BY DEF FreshIdle, Idle, NoRow

LEMMA PlansAre ==
    ASSUME NEW K, NEW L, Ready(K, L)
    PROVE  /\ K \subseteq L /\ K \subseteq Plans /\ FreshPlan \in L
           /\ row.plan \in K /\ \A p \in Procs : job[p].mem.plan \in K
  BY DEF Ready, PlansIn, Grows

\* One handler moves, saving a plan or not; it has not just posted a leg.
LEMMA PlanStep ==
    ASSUME TypeInv, NEW K, NEW L, Ready(K, L), NEW p \in Procs, NEW j, Go(p, j),
           j.mem.plan \in L, row'.plan \in L, j.pc # "leg_bind"
    PROVE  PlansIn(L)' /\ AnswerInv'
  <1>1. \A q \in Procs : job'[q] = IF q = p THEN j ELSE job[q]
    BY DEF Go, TypeInv, TypeOK
  <1>2. PlansIn(L)'
    BY <1>1, PlansAre DEF PlansIn
  <1>3. AnswerInv'
    <2> SUFFICES ASSUME NEW q \in Procs, job'[q].pc = "leg_bind"
                 PROVE  /\ job'[q].tier \in Tiers /\ job'[q].ref \in DOMAIN orders'
                        /\ orders'[job'[q].ref].cid = job'[q].tier
      BY DEF AnswerInv, At
    <2>1. job'[q] = job[q]
      BY <1>1
    <2> QED
      BY <2>1 DEF AnswerInv, Ready, OrdersLast, At
  <1> QED
    BY <1>2, <1>3

LEMMA PlanFinish ==
    ASSUME TypeInv, NEW K, NEW L, Ready(K, L), NEW p \in Procs, Finish(p), row'.plan \in L
    PROVE  PlansIn(L)' /\ AnswerInv'
  <1>1. Idle.mem.plan \in L
    BY FreshIn, PlansAre DEF FreshIdle
  <1> QED
    BY <1>1, FreshIn, PlanStep DEF Finish, FreshIdle

LEMMA PlanRefresh ==
    ASSUME TypeInv, NEW K, NEW L, Ready(K, L), NEW p \in Procs,
           row' \in Rows, row'.plan = job[p].mem.plan,
           NEW changed, NEW sold \in Int, Go(p, Refreshed(job[p], row', changed, sold))
    PROVE  PlansIn(L)' /\ AnswerInv'
  <1> DEFINE j == Refreshed(job[p], row', changed, sold)
  <1>0. \/ j = Idle
        \/ /\ j.mem = row'
           /\ j.pc \in {"cancel_entry", "cancel_partial", "sync", "legs", "sync_legs", "cancel_legs"}
    BY RefreshedShape, RowFacts
  <1>2. row'.plan \in L
    BY PlansAre
  <1> HIDE DEF j
  <1>1. j = Idle \/ (j.mem = row' /\ j.pc # "leg_bind")
    BY <1>0
  <1>3. j.mem.plan \in L /\ j.pc # "leg_bind"
    BY <1>1, <1>2, FreshIn, PlansAre DEF FreshIdle
  <1>4. Go(p, j)
    BY DEF j
  <1> QED
    BY <1>2, <1>3, <1>4, PlanStep

LEMMA StartPlans ==
    ASSUME TypeInv, NEW K, NEW L, Ready(K, L), NEW p \in Procs, Start(p)
    PROVE  PlansIn(L)' /\ AnswerInv'
  <1>1. CASE SubmitEntry(p)
    <2> DEFINE j == [Idle EXCEPT !.pc = "entry_post", !.kind = "submit", !.mem = row']
    <2>1. j.mem = row' /\ j.pc = "entry_post" /\ row'.plan = FreshPlan
      BY <1>1 DEF SubmitEntry, Idle, NoRow
    <2>2. Go(p, j)
      BY <1>1 DEF SubmitEntry
    <2> HIDE DEF j
    <2> QED
      BY <2>1, <2>2, PlansAre, PlanStep
  <1>2. ASSUME UNCHANGED row, NEW j, Go(p, j), j.mem = row, j.pc # "leg_bind"
        PROVE  PlansIn(L)' /\ AnswerInv'
    <2>1. row.plan \in L
      BY PlansAre
    <2> QED
      BY <1>2, <2>1, PlanStep
  <1>3. ASSUME NEW mark, StartReconcile(p, mark) PROVE PlansIn(L)' /\ AnswerInv'
    <2> DEFINE pc == IF row.status = "PENDING_SUBMIT" THEN "pending" ELSE "sync"
               j == [Idle EXCEPT !.pc = pc, !.kind = "reconcile", !.mem = row, !.mark = mark]
    <2>1. j.mem = row /\ j.pc # "leg_bind"
      BY DEF Idle
    <2>2. Go(p, j) /\ UNCHANGED row
      BY <1>3 DEF StartReconcile
    <2> HIDE DEF j
    <2> QED
      BY <1>2, <2>1, <2>2
  <1>4. CASE StartClose(p)
    <2> DEFINE j == [Idle EXCEPT !.pc = "sync", !.kind = "close", !.mem = row]
    <2>1. j.mem = row /\ j.pc # "leg_bind"
      BY DEF Idle
    <2>2. Go(p, j) /\ UNCHANGED row
      BY <1>4 DEF StartClose
    <2> HIDE DEF j
    <2> QED
      BY <1>2, <2>1, <2>2
  <1>5. ASSUME NEW stop \in Marks, Adjust(p, stop) PROVE PlansIn(L)' /\ AnswerInv'
    <2>1. row'.plan = [row.plan EXCEPT !.stop = stop]
      BY <1>5, RowFacts DEF Adjust, Rows
    <2>2. row'.plan \in L
      BY <1>5, <2>1 DEF Adjust, Ready, PlansIn, Grows
    <2> QED
      BY <1>5, <2>2, PlansAre DEF Adjust, Ready, PlansIn, AnswerInv, At
  <1> QED
    BY <1>1, <1>3, <1>4, <1>5 DEF Start, Tick

\* A leg is posted: the answer is for the tier the handler names.
LEMMA PostPlans ==
    ASSUME TypeInv, NEW K, NEW L, Ready(K, L), NEW p \in Procs, PostSell(p)
    PROVE  PlansIn(L)' /\ AnswerInv'
  <1>1. job[p].want \in Nat /\ job[p].pc \in {"leg_post", "exit_post"} /\ job[p] \in Jobs
    BY JobFacts DEF PostSell, JobOK
  <1>2. Cid(job[p]) \in Cids /\ (job[p].pc = "leg_post" => job[p].tier \in Tiers)
    BY <1>1, JobFacts, LadderConstants DEF Cid, Cids, ExitCid, Tiers, JobOK
  <1> DEFINE n == Len(orders)
             cid == Cid(job[p])
             o == [cid |-> cid, qty |-> job[p].want, exec |-> 0, live |-> TRUE]
             pc == IF job[p].pc = "leg_post" THEN "leg_bind" ELSE "exit_bind"
             j == [job[p] EXCEPT !.pc = pc, !.ref = n + 1]
  <1>3. n \in Nat /\ DOMAIN orders' = 1..(n + 1) /\ orders'[n + 1] = o
    BY <1>1, <1>2, PostedShape DEF PostSell
  <1>4. o.cid = cid
    OBVIOUS
  <1>5. j.pc = pc /\ j.ref = n + 1 /\ j.tier = job[p].tier /\ j.mem = job[p].mem
    BY <1>1 DEF Jobs
  <1>6. Go(p, j) /\ UNCHANGED row
    BY <1>1 DEF PostSell
  <1>7. pc = "leg_bind" => job[p].tier \in Tiers /\ cid = job[p].tier
    BY <1>1, <1>2 DEF Cid
  <1> HIDE DEF j, o, n, cid, pc
  <1>8. \A q \in Procs : job'[q] = IF q = p THEN j ELSE job[q]
    BY <1>6 DEF Go, TypeInv, TypeOK
  <1>9. PlansIn(L)'
    BY <1>5, <1>6, <1>8, PlansAre DEF PlansIn
  <1>10. AnswerInv'
    <2> SUFFICES ASSUME NEW q \in Procs, job'[q].pc = "leg_bind"
                 PROVE  /\ job'[q].tier \in Tiers /\ job'[q].ref \in DOMAIN orders'
                        /\ orders'[job'[q].ref].cid = job'[q].tier
      BY DEF AnswerInv, At
    <2>1. CASE q = p
      BY <1>3, <1>4, <1>5, <1>7, <1>8, <2>1
    <2>2. CASE q # p
      BY <1>8, <2>2 DEF AnswerInv, Ready, OrdersLast, At
    <2> QED
      BY <2>1, <2>2
  <1> QED
    BY <1>9, <1>10

\* A handler goes on with the record it has; it saves nothing.
LEMMA PlanMove ==
    ASSUME TypeInv, NEW K, NEW L, Ready(K, L), NEW p \in Procs, UNCHANGED row,
           NEW j, Go(p, j), j.mem.plan \in L, j.pc # "leg_bind"
    PROVE  PlansIn(L)' /\ AnswerInv'
  <1>1. row'.plan \in L
    BY PlansAre
  <1> QED
    BY <1>1, PlanStep

LEMMA MovePlans ==
    ASSUME TypeInv, NEW K, NEW L, Ready(K, L), NEW p \in Procs,
           \/ PostEntry(p) \/ CancelEntry(p) \/ CancelPartialEntry(p)
           \/ PrepareLeg(p) \/ PrepareExit(p)
    PROVE  PlansIn(L)' /\ AnswerInv'
  <1>1. UNCHANGED row
    BY DEF PostEntry, CancelEntry, CancelPartialEntry, PrepareLeg, PrepareExit
  <1>2. ASSUME NEW j, Go(p, j), j.mem.plan = job[p].mem.plan, j.pc # "leg_bind"
        PROVE  PlansIn(L)' /\ AnswerInv'
    <2>1. j.mem.plan \in L
      BY <1>2, PlansAre
    <2> QED
      BY <1>1, <1>2, <2>1, PlanMove
  <1>3. CASE PostEntry(p)
    <2> DEFINE j == [job[p] EXCEPT !.pc = "entry_bind", !.ref = Len(orders) + 1]
    <2>1. Go(p, j) /\ j.mem = job[p].mem /\ j.pc = "entry_bind"
      BY <1>3, RowFacts DEF PostEntry, Jobs
    <2> HIDE DEF j
    <2> QED
      BY <1>2, <2>1
  <1>4. CASE CancelEntry(p)
    <2> DEFINE j == [job[p] EXCEPT !.pc = "cancel_saved"]
    <2>1. Go(p, j) /\ j.mem = job[p].mem /\ j.pc = "cancel_saved"
      BY <1>4, RowFacts DEF CancelEntry, Jobs
    <2> HIDE DEF j
    <2> QED
      BY <1>2, <2>1
  <1>5. CASE CancelPartialEntry(p)
    <2> DEFINE j == [job[p] EXCEPT !.pc = "cancel_legs", !.mem.status = "POSITION_OPEN"]
    <2>1. Go(p, j) /\ j.mem.plan = job[p].mem.plan /\ j.pc = "cancel_legs"
      BY <1>5, RowFacts DEF CancelPartialEntry, Jobs, Rows
    <2> HIDE DEF j
    <2> QED
      BY <1>2, <2>1
  <1>6. CASE PrepareLeg(p)
    <2>1. PICK t \in Tiers :
            Go(p, [job[p] EXCEPT !.pc = "leg_post", !.tier = t, !.want = LegQuantity(job[p], t)])
      BY <1>6 DEF PrepareLeg
    <2> DEFINE w == LegQuantity(job[p], t)
               j == [job[p] EXCEPT !.pc = "leg_post", !.tier = t, !.want = w]
    <2>2. j.mem = job[p].mem /\ j.pc = "leg_post"
      BY RowFacts DEF Jobs
    <2>3. Go(p, j)
      BY <2>1
    <2> HIDE DEF j
    <2> QED
      BY <1>2, <2>2, <2>3
  <1>7. CASE PrepareExit(p)
    <2> DEFINE j == [job[p] EXCEPT !.pc = "exit_post", !.want = LotsLeft(p)]
    <2>1. Go(p, j) /\ j.mem = job[p].mem /\ j.pc = "exit_post"
      BY <1>7, RowFacts DEF PrepareExit, Jobs
    <2> HIDE DEF j
    <2> QED
      BY <1>2, <2>1
  <1> QED
    BY <1>3, <1>4, <1>5, <1>6, <1>7

\* The handler's last save, if any, is of the plan it holds.
LEMMA LastSavePlans ==
    ASSUME TypeInv, NEW K, NEW L, Ready(K, L), NEW p \in Procs,
           \/ BindEntry(p) \/ SaveCancelled(p) \/ RefuseSmallLeg(p) \/ RejectSell(p)
           \/ CloseSoldOut(p) \/ RefuseSmallExit(p) \/ AdoptExit(p) \/ BindExit(p) \/ Fail(p)
    PROVE  PlansIn(L)' /\ AnswerInv'
  <1>1. Finish(p)
    BY DEF BindEntry, SaveCancelled, RefuseSmallLeg, RejectSell, CloseSoldOut,
           RefuseSmallExit, AdoptExit, BindExit, Fail
  <1>2. row'.plan \in {row.plan, job[p].mem.plan}
    BY RowFacts DEF BindEntry, SaveCancelled, RefuseSmallLeg, RejectSell, CloseSoldOut,
           RefuseSmallExit, AdoptExit, BindExit, Fail, Rows
  <1>3. row'.plan \in L
    BY <1>2, PlansAre
  <1> QED
    BY <1>1, <1>3, PlanFinish

LEMMA QueryPlans ==
    ASSUME TypeInv, NEW K, NEW L, Ready(K, L), NEW p \in Procs, ResolvePending(p) \/ SyncEntry(p) \/ SyncExit(p)
    PROVE  PlansIn(L)' /\ AnswerInv'
  <1> DEFINE m == job[p].mem
  <1>1. m.plan \in L /\ row.plan \in L
    BY PlansAre
  <1>2. CASE ResolvePending(p)
    <2>1. row'.plan \in {row.plan, m.plan}
      BY <1>2, RowFacts DEF ResolvePending, Rows
    <2>2. ASSUME Go(p, [job[p] EXCEPT !.pc = "sync", !.kind = "adopt", !.mem = row'])
          PROVE  PlansIn(L)' /\ AnswerInv'
      <3> DEFINE j == [job[p] EXCEPT !.pc = "sync", !.kind = "adopt", !.mem = row']
      <3>1. j.mem = row' /\ j.pc = "sync"
        BY RowFacts DEF Jobs
      <3>2. Go(p, j)
        BY <2>2
      <3> HIDE DEF j
      <3> QED
        BY <1>1, <2>1, <3>1, <3>2, PlanStep
    <2> QED
      BY <1>1, <1>2, <2>1, <2>2, PlanFinish DEF ResolvePending
  <1>3. CASE SyncEntry(p)
    <2>1. row' \in Rows /\ exited \in Int
      BY <1>3, SyncEntryType DEF TypeInv, TypeOK
    <2>2. \A i \in Lookup(m.xid, EntryCid) : SyncedEntry(m, i).plan = m.plan
      <3>1. m.xid \in Nat /\ m.xid <= Len(orders)
        BY JobFacts DEF Known, Rows
      <3> QED
        BY <3>1, LookupOK, RowFacts, SyncedEntryShape
    <2>3. ASSUME NEW changed, Go(p, Refreshed(job[p], row', changed, exited)),
                 row'.plan = m.plan
          PROVE  PlansIn(L)' /\ AnswerInv'
      BY <2>1, <2>3, PlanRefresh
    <2>4. CASE /\ row' = [m EXCEPT !.exStatus = "UNKNOWN"]
               /\ Go(p, Refreshed(job[p], row', m.exStatus # "UNKNOWN", exited))
      <3>1. row'.plan = m.plan
        BY <2>4, RowFacts DEF Rows
      <3> QED
        BY <2>3, <2>4, <3>1
    <2>5. ASSUME NEW i \in Lookup(m.xid, EntryCid), row' = SyncedEntry(m, i),
                 Go(p, Refreshed(job[p], row', Observed(row') # Observed(m), exited))
          PROVE  PlansIn(L)' /\ AnswerInv'
      BY <2>2, <2>3, <2>5
    <2>6. ASSUME NEW i \in Lookup(m.xid, EntryCid), UNCHANGED row,
                 Go(p, [job[p] EXCEPT !.pc = "sync_exit", !.mem = SyncedEntry(m, i),
                                      !.dirty = Observed(SyncedEntry(m, i)) # Observed(m)])
          PROVE  PlansIn(L)' /\ AnswerInv'
      <3> DEFINE r == SyncedEntry(m, i)
                 d == Observed(r) # Observed(m)
                 j == [job[p] EXCEPT !.pc = "sync_exit", !.mem = r, !.dirty = d]
      <3>1. r.plan = m.plan
        BY <2>2
      <3>2. Go(p, j)
        BY <2>6
      <3> HIDE DEF r, d
      <3>3. j.mem = r /\ j.pc = "sync_exit"
        BY RowFacts DEF Jobs
      <3> HIDE DEF j
      <3>4. j.mem.plan \in L
        BY <1>1, <3>1, <3>3
      <3> QED
        BY <2>6, <3>2, <3>3, <3>4, PlanMove
    <2> QED
      BY <1>3, <2>4, <2>5, <2>6 DEF SyncEntry
  <1>4. CASE SyncExit(p)
    <2>1. row' \in Rows /\ exited' \in Int
      BY <1>4, SyncExitType DEF TypeInv, TypeOK
    <2>2. row'.plan = m.plan
      <3>1. row' = m \/ \E o : row' = SyncedExit(m, o)
        BY <1>4 DEF SyncExit
      <3> QED
        BY <3>1, RowFacts, SyncedExitShape
    <2>3. PICK changed : Go(p, Refreshed(job[p], row', changed, exited'))
      BY <1>4 DEF SyncExit
    <2> QED
      BY <2>1, <2>2, <2>3, PlanRefresh
  <1> QED
    BY <1>2, <1>3, <1>4

LEMMA LegsPlans ==
    ASSUME TypeInv, NEW K, NEW L, Ready(K, L), NEW p \in Procs,
           AdoptLeg(p) \/ BindLeg(p) \/ SyncLeg(p) \/ FinishLegs(p) \/ CancelLegs(p)
    PROVE  PlansIn(L)' /\ AnswerInv'
  <1> DEFINE m == job[p].mem
  <1>1. m \in Rows /\ m.plan \in Plans /\ m.plan \in L /\ row.plan \in L
        /\ job[p] \in Jobs /\ m.plan \in K
    BY RowFacts, PlansAre
  <1>2. CASE AdoptLeg(p) \/ BindLeg(p)
    <2>1. ASSUME AdoptLeg(p) PROVE row'.plan \in L
      <3>1. PICK t \in Tiers, i \in DOMAIN orders :
              orders[i].cid = t /\ row' = [m EXCEPT !.plan = Bound(m.plan, t, i)]
        BY <2>1 DEF AdoptLeg, IsLatest
      <3>2. row'.plan = Bound(m.plan, t, i)
        BY <1>1, <3>1 DEF Rows
      <3>3. Bound(m.plan, t, i) \in L
        BY <1>1, <3>1 DEF Ready, Grows
      <3> QED
        BY <3>2, <3>3
    <2>2. ASSUME BindLeg(p) PROVE row'.plan \in L
      <3>1. PICK id \in {job[p].ref, NoId} : row' = [m EXCEPT !.plan = Bound(m.plan, job[p].tier, id)]
        BY <2>2 DEF BindLeg, AnsweredIds
      <3>2. row'.plan = Bound(m.plan, job[p].tier, id)
        BY <1>1, <3>1 DEF Rows
      <3>3. /\ job[p].tier \in Tiers /\ job[p].ref \in DOMAIN orders
            /\ orders[job[p].ref].cid = job[p].tier
        BY <2>2 DEF BindLeg, Ready, AnswerInv
      <3>4. Bound(m.plan, job[p].tier, id) \in L
        BY <1>1, <3>1, <3>3 DEF Ready, Grows
      <3> QED
        BY <3>2, <3>4
    <2>8. row'.plan \in L
      BY <1>2, <2>1, <2>2
    <2>3. PICK next \in Nat, left \in Int :
            Go(p, Placing([job[p] EXCEPT !.mem = row', !.tier = next, !.avail = left]))
      BY <1>2, BoundGoes
    <2> DEFINE k == [job[p] EXCEPT !.mem = row', !.tier = next, !.avail = left]
    <2>4. row' \in Rows
      BY <1>2, AdoptLegType, BindLegType DEF TypeInv, TypeOK
    <2>5. k \in Jobs /\ k.mem = row' /\ Go(p, Placing(k))
      BY <1>1, <2>3, <2>4 DEF Jobs
    <2> HIDE DEF k
    <2>6. Placing(k).mem = row' /\ Placing(k).pc # "leg_bind"
      BY <2>5, PlacingShape
    <2>7. Placing(k).mem.plan \in L
      BY <2>8, <2>6
    <2> QED
      BY <2>5, <2>6, <2>7, <2>8, PlanStep
  <1>3. CASE SyncLeg(p)
    <2>1. PICK t \in Tiers :
            /\ NextResting(job[p], t)
            /\ Go(p, [job[p] EXCEPT !.mem.plan = LegSynced(m.plan, t, orders[m.plan.xid[t]]),
                                    !.tier = t + 1,
                                    !.dirty = job[p].dirty
                                       \/ LegSynced(m.plan, t, orders[m.plan.xid[t]]) # m.plan])
      BY <1>3 DEF SyncLeg
    <2> DEFINE o == orders[m.plan.xid[t]]
               plan2 == LegSynced(m.plan, t, o)
               d == job[p].dirty \/ plan2 # m.plan
               j == [job[p] EXCEPT !.mem.plan = plan2, !.tier = t + 1, !.dirty = d]
    <2>2. t \in Resting(m.plan) /\ m.plan.xid[t] \in DOMAIN orders
      BY <2>1, RestingKnown DEF NextResting
    <2>3. plan2 \in L
      BY <1>1, <2>2 DEF Ready, Grows
    <2>4. Go(p, j)
      BY <2>1
    <2> HIDE DEF plan2, d
    <2>5. j.mem.plan = plan2 /\ j.pc = "sync_legs"
      BY <1>1, <1>3 DEF Jobs, Rows, SyncLeg, At
    <2> HIDE DEF j
    <2> QED
      BY <1>1, <1>3, <2>3, <2>4, <2>5, PlanStep DEF SyncLeg
  <1>4. CASE FinishLegs(p)
    <2> DEFINE soldOut == /\ \A t \in Tiers : m.plan.filled[t]
                          /\ RemainingQuantity(m.plan, Held(m)) <= 0
               m2 == IF soldOut THEN [m EXCEPT !.status = "CLOSED"] ELSE m
               stops == m2.status = "POSITION_OPEN" /\ job[p].mark # NoMark
               m3 == IF stops THEN [m2 EXCEPT !.plan = Trailed(m2.plan, job[p].mark)] ELSE m2
               j == [job[p] EXCEPT !.pc = "cancel_legs", !.mem = m3, !.tier = 1, !.dirty = FALSE]
    <2>1. m2 \in Rows /\ m2.plan = m.plan
      BY <1>1 DEF Rows, Statuses, FinalStatuses
    <2>2. m2.plan \in L
      BY <1>1, <2>1
    <2>3. m3.plan \in L
      <3>1. Trailed(m.plan, job[p].mark) \in L
        BY <1>1, MarkOK DEF Ready, Grows
      <3> HIDE DEF m2, m, stops
      <3> QED
        BY <2>1, <2>2, <3>1 DEF Rows
    <2> HIDE DEF soldOut, m2, stops, m3
    <2>4. CASE row' = (IF job[p].dirty THEN m2 ELSE row) /\ Go(p, j)
      <3>1. j.mem = m3 /\ j.pc = "cancel_legs"
        BY <1>1 DEF Jobs
      <3> HIDE DEF j
      <3>2. row'.plan \in L
        BY <1>1, <2>2, <2>4
      <3> QED
        BY <2>3, <2>4, <3>1, <3>2, PlanStep
    <2>5. CASE row' = (IF job[p].dirty \/ m3 # m THEN m3 ELSE row) /\ Finish(p)
      <3>1. row'.plan \in L
        BY <1>1, <2>3, <2>5
      <3> QED
        BY <2>5, <3>1, PlanFinish
    <2> QED
      BY <1>4, <2>4, <2>5 DEF FinishLegs, soldOut, m2, stops, m3
  <1>5. CASE CancelLegs(p)
    <2> DEFINE plan2 == Unbound(m.plan, Resting(m.plan))
               j == [job[p] EXCEPT !.pc = "exit", !.mem.plan = plan2]
    <2>1. plan2 \in L
      BY <1>1 DEF Ready, Grows
    <2>2. Go(p, j) /\ UNCHANGED row
      BY <1>5 DEF CancelLegs
    <2> HIDE DEF plan2
    <2>3. j.mem.plan = plan2 /\ j.pc = "exit"
      BY <1>1 DEF Jobs, Rows
    <2> HIDE DEF j
    <2> QED
      BY <1>1, <2>1, <2>2, <2>3, PlanStep
  <1> QED
    BY <1>2, <1>3, <1>4, <1>5


LEMMA NextPlans ==
    ASSUME TypeInv, NEW K, NEW L, Ready(K, L), [Next]_vars
    PROVE  PlansIn(L)' /\ AnswerInv'
  <1>1. ASSUME NEW p \in Procs, Continue(p) PROVE PlansIn(L)' /\ AnswerInv'
    BY <1>1, PostPlans, MovePlans, LastSavePlans, QueryPlans, LegsPlans DEF Continue
  <1>2. ASSUME NEW p \in Procs, Fail(p) PROVE PlansIn(L)' /\ AnswerInv'
    BY <1>2, LastSavePlans
  <1>3. CASE UNCHANGED <<row, job>>
    BY <1>3, PlansAre DEF PlansIn, AnswerInv, At, Ready, OrdersLast
  <1>4. CASE Venue \/ GetOlder \/ UNCHANGED vars
    BY <1>3, <1>4 DEF Venue, Fill, Expire, GetOlder, vars
  <1> QED
    BY <1>1, <1>2, <1>4, StartPlans DEF Next

LEMMA InitAnswer == Init => AnswerInv
  BY DEF Init, AnswerInv, At, Idle

-----------------------------------------------------------------------------
(* Part 3.  The floor of a banked tier.                                    *)

FloorKept(plan) == \A t \in Tiers : plan.filled[t] => plan.stop >= RatchetTo(t)

LEMMA FreshFloor == FloorKept(NoRow.plan) /\ FloorKept(Idle.mem.plan)
  <1>1. NoRow.plan = FreshPlan /\ Idle.mem.plan = FreshPlan
    BY DEF NoRow, Idle
  <1>2. \A t \in Tiers : ~FreshPlan.filled[t]
    BY DEF FreshPlan
  <1> QED
    BY <1>1, <1>2 DEF FloorKept

LEMMA LadderFloor ==
    ASSUME NEW plan \in Plans, FloorKept(plan)
    PROVE  /\ \A t \in Tiers, q \in Nat : FloorKept(TierFilled(plan, t, q))
           /\ \A mark \in Nat : FloorKept(Trailed(plan, mark))
           /\ \A S : FloorKept(Unbound(plan, S))
           /\ \A t, id : FloorKept(Bound(plan, t, id))
  <1>1. \A t \in Tiers : RatchetTo(t) \in Nat
    BY RatchetOK
  <1>2. plan.stop \in Nat /\ plan.filled \in [Tiers -> BOOLEAN]
    BY DEF Plans
  <1>3. ASSUME NEW t \in Tiers, NEW q \in Nat PROVE FloorKept(TierFilled(plan, t, q))
    <2> DEFINE plan2 == TierFilled(plan, t, q)
    <2>1. CASE plan.filled[t]
      BY <2>1 DEF TierFilled
    <2>2. CASE ~plan.filled[t]
      <3>1. /\ plan2.filled = [plan.filled EXCEPT ![t] = TRUE]
            /\ plan2.stop = Higher(plan.stop, RatchetTo(t))
        BY <2>2 DEF TierFilled, Plans
      <3>2. plan2.stop >= plan.stop /\ plan2.stop >= RatchetTo(t) /\ plan2.stop \in Nat
        BY <1>1, <1>2, <3>1 DEF Higher
      <3> HIDE DEF plan2
      <3>3. \A u \in Tiers : plan2.filled[u] => plan2.stop >= RatchetTo(u)
        BY <1>1, <1>2, <3>1, <3>2 DEF FloorKept
      <3> QED
        BY <3>3 DEF FloorKept, plan2
    <2> QED
      BY <2>1, <2>2
  <1>4. ASSUME NEW mark \in Nat PROVE FloorKept(Trailed(plan, mark))
    <2> DEFINE plan2 == Trailed(plan, mark)
    <2>1. plan2.stop >= plan.stop /\ plan2.stop \in Nat /\ plan2.filled = plan.filled
      <3>1. plan2 \in Plans /\ plan2.stop >= plan.stop
        BY TrailedOK, StopKept
      <3>2. plan2.filled = plan.filled
        BY DEF Trailed, Plans
      <3> QED
        BY <3>1, <3>2 DEF Plans
    <2> HIDE DEF plan2
    <2>2. \A u \in Tiers : plan2.filled[u] => plan2.stop >= RatchetTo(u)
      BY <1>1, <1>2, <2>1 DEF FloorKept
    <2> QED
      BY <2>2 DEF FloorKept, plan2
  <1>5. \A S : FloorKept(Unbound(plan, S))
    BY DEF FloorKept, Unbound, Plans
  <1>6. \A t, id : FloorKept(Bound(plan, t, id))
    BY DEF FloorKept, Bound, Plans
  <1> QED
    BY <1>3, <1>4, <1>5, <1>6

Floored == {plan \in Plans : FloorKept(plan)}

LEMMA FloorGrows == ASSUME TypeInv, "adjust" \notin Operator PROVE Grows(Floored, Floored)
  <1>1. FreshPlan \in Floored
    BY FreshPlanOK, FreshFloor DEF NoRow, Floored
  <1>2. ASSUME NEW plan \in Floored
        PROVE  /\ \A mark \in Nat : Trailed(plan, mark) \in Floored
               /\ Unbound(plan, Resting(plan)) \in Floored
               /\ \A t \in Tiers : \A id \in Nat : Bound(plan, t, id) \in Floored
    BY LadderFloor, TrailedOK, UnboundOK, BoundOK DEF Floored
  <1>3. ASSUME NEW plan \in Floored, NEW t \in Tiers, NEW o \in VenueOrders
        PROVE  LegSynced(plan, t, o) \in Floored
    <2>1. o.exec \in Nat /\ plan \in Plans /\ FloorKept(plan)
      BY DEF VenueOrders, Floored
    <2>2. TierFilled(plan, t, o.exec) \in Floored /\ Unbound(plan, {t}) \in Floored
      BY <2>1, LadderFloor, TierFilledOK, UnboundOK DEF Floored
    <2> QED
      BY <2>2 DEF LegSynced
  <1>4. \A i \in DOMAIN orders : orders[i] \in VenueOrders
    BY OrderOK, VenueCount
  <1>5. ASSUME NEW plan \in Floored, NEW t \in Resting(plan), plan.xid[t] \in DOMAIN orders
        PROVE  LegSynced(plan, t, orders[plan.xid[t]]) \in Floored
    BY <1>3, <1>4, <1>5 DEF Resting
  <1>6. Floored \subseteq Plans /\ NoId \in Nat /\ \A i \in DOMAIN orders : i \in Nat
    BY OrderOK, VenueCount DEF Floored, NoId
  <1> QED
    BY <1>1, <1>2, <1>5, <1>6 DEF Grows

\* As long as no operator moves the stop by hand, it never sits below the floor
\* that a banked tier has locked in: not for any ladder, and not when two
\* handlers without the lock save one after the other.
THEOREM FloorHolds ==
    ASSUME "adjust" \notin Operator PROVE Spec => []BankedTierLocksStop
  <1> DEFINE FloorInv == AnswerInv /\ PlansIn(Floored)
  <1>1. Init => TypeInv /\ FloorInv
    <2>1. Init => PlansIn(Floored)
      BY FreshFloor, FreshIn, FreshPlanOK DEF Init, PlansIn, Floored, FreshIdle
    <2> QED
      BY <2>1, InitTypeInv, InitAnswer
  <1>2. TypeInv /\ FloorInv /\ [Next]_vars => TypeInv' /\ FloorInv'
    <2> SUFFICES ASSUME TypeInv, FloorInv, [Next]_vars PROVE FloorInv'
      BY NextTypeInv
    <2>1. PICK K : K = Floored
      OBVIOUS
    <2>2. Ready(K, K)
      BY <2>1, FloorGrows, NextLasts DEF Ready
    <2>3. PlansIn(K)' /\ AnswerInv'
      BY <2>2, NextPlans
    <2> QED
      BY <2>1, <2>3 DEF PlansIn
  <1>3. FloorInv => BankedTierLocksStop
    BY DEF PlansIn, Floored, FloorKept, BankedTierLocksStop
  <1> QED
    BY <1>1, <1>2, <1>3, PTL DEF Spec

-----------------------------------------------------------------------------
(* Part 4.  A banked tier is backed by a sale.  Behind each tier a plan has *)
(* banked there is a dead order that sold what the plan says, and a dead   *)
(* order stays as it is; under the lock it is the only one of its tier     *)
(* that ever sold or rests.                                                *)

Backed(plan, t) ==
    \E i \in DOMAIN orders : /\ orders[i].cid = t /\ ~orders[i].live
                             /\ orders[i].exec > 0 /\ plan.sold[t] = orders[i].exec

PlanBacked(plan) ==
    \A t \in Tiers :
        /\ plan.filled[t] => Backed(plan, t)
        /\ plan.xid[t] # NoId => plan.xid[t] \in DOMAIN orders /\ orders[plan.xid[t]].cid = t

BackedPlans == {plan \in Plans : PlanBacked(plan)}

\* What stands behind a plan stands behind it after the step.
LEMMA BackedStays ==
    ASSUME OrdersLast, NEW plan, PlanBacked(plan) PROVE PlanBacked(plan)'
  <1> SUFFICES ASSUME NEW t \in Tiers
               PROVE  /\ plan.filled[t] =>
                           \E i \in DOMAIN orders' :
                              /\ orders'[i].cid = t /\ ~orders'[i].live
                              /\ orders'[i].exec > 0 /\ plan.sold[t] = orders'[i].exec
                      /\ plan.xid[t] # NoId =>
                           plan.xid[t] \in DOMAIN orders' /\ orders'[plan.xid[t]].cid = t
    BY DEF PlanBacked, Backed
  <1> QED
    BY DEF PlanBacked, Backed, OrdersLast

\* A plan that changes one leg: the others are backed as before.
LEMMA BackedLeg ==
    ASSUME NEW plan \in Plans, PlanBacked(plan), NEW plan2 \in Plans, NEW t \in Tiers,
           \A u \in Tiers : u # t => /\ plan2.filled[u] = plan.filled[u] /\ plan2.sold[u] = plan.sold[u]
                                     /\ plan2.xid[u] = plan.xid[u],
           plan2.filled[t] => Backed(plan2, t),
           plan2.xid[t] # NoId => plan2.xid[t] \in DOMAIN orders /\ orders[plan2.xid[t]].cid = t
    PROVE  PlanBacked(plan2)
  BY DEF PlanBacked, Backed

LEMMA BackedChanges ==
    ASSUME TypeInv, NEW plan \in Plans, PlanBacked(plan)
    PROVE  /\ \A mark \in Nat : PlanBacked(Trailed(plan, mark))
           /\ PlanBacked(Unbound(plan, Resting(plan)))
           /\ \A t \in Resting(plan) : PlanBacked(LegSynced(plan, t, orders[plan.xid[t]]))
           /\ \A t \in Tiers :
                /\ PlanBacked(Bound(plan, t, NoId))
                /\ \A i \in DOMAIN orders : orders[i].cid = t => PlanBacked(Bound(plan, t, i))
           /\ \A stop : PlanBacked([plan EXCEPT !.stop = stop])
  <1>1. ASSUME NEW mark \in Nat PROVE PlanBacked(Trailed(plan, mark))
    <2>1. /\ Trailed(plan, mark).filled = plan.filled /\ Trailed(plan, mark).sold = plan.sold
          /\ Trailed(plan, mark).xid = plan.xid
      BY DEF Trailed, Plans
    <2> QED
      BY <2>1 DEF PlanBacked, Backed
  <1>2. ASSUME NEW stop PROVE PlanBacked([plan EXCEPT !.stop = stop])
    <2> DEFINE plan2 == [plan EXCEPT !.stop = stop]
    <2>1. plan2.filled = plan.filled /\ plan2.sold = plan.sold /\ plan2.xid = plan.xid
      BY DEF Plans
    <2> HIDE DEF plan2
    <2>2. PlanBacked(plan2)
      BY <2>1 DEF PlanBacked, Backed
    <2> QED
      BY <2>2 DEF plan2
  <1>3. ASSUME NEW S PROVE PlanBacked(Unbound(plan, S))
    <2> DEFINE plan2 == Unbound(plan, S)
    <2>1. /\ plan2.filled = plan.filled /\ plan2.sold = plan.sold
          /\ \A u \in Tiers : plan2.xid[u] \in {plan.xid[u], NoId}
      BY DEF Unbound, Plans, NoId
    <2> HIDE DEF plan2
    <2>2. PlanBacked(plan2)
      BY <2>1 DEF PlanBacked, Backed
    <2> QED
      BY <2>2 DEF plan2
  <1>4. ASSUME NEW t \in Tiers, NEW id \in Nat,
               id # NoId => id \in DOMAIN orders /\ orders[id].cid = t
        PROVE  PlanBacked(Bound(plan, t, id))
    <2> DEFINE plan2 == Bound(plan, t, id)
    <2>1. /\ plan2.filled = plan.filled /\ plan2.sold = plan.sold
          /\ plan2.xid[t] = id /\ \A u \in Tiers : u # t => plan2.xid[u] = plan.xid[u]
      BY DEF Bound, Plans
    <2> HIDE DEF plan2
    <2>2. PlanBacked(plan2)
      BY <1>4, <2>1 DEF PlanBacked, Backed
    <2> QED
      BY <2>2 DEF plan2
  <1>5. ASSUME NEW t \in Resting(plan) PROVE PlanBacked(LegSynced(plan, t, orders[plan.xid[t]]))
    <2> DEFINE i == plan.xid[t]
               o == orders[i]
               plan2 == TierFilled(plan, t, o.exec)
    <2>1. t \in Tiers /\ ~plan.filled[t] /\ i # NoId
      BY DEF Resting, NoId
    <2>2. i \in DOMAIN orders /\ o.cid = t
      BY <2>1 DEF PlanBacked
    <2>3. o \in VenueOrders /\ o.exec \in Nat
      BY <2>2, OrderOK, VenueCount DEF VenueOrders
    <2>4. CASE o.live
      BY <2>4 DEF LegSynced
    <2>5. CASE ~o.live /\ o.exec > 0
      <3>1. plan2.filled = [plan.filled EXCEPT ![t] = TRUE] /\ plan2.xid = plan.xid
            /\ plan2.sold = [plan.sold EXCEPT ![t] = o.exec] /\ plan2 \in Plans
        BY <2>1, <2>3, TierFilledOK DEF TierFilled, Plans
      <3>2. plan2.sold[t] = o.exec /\ \A u \in Tiers : u # t => plan2.sold[u] = plan.sold[u]
        BY <2>1, <3>1 DEF Plans
      <3>3. \A u \in Tiers : u # t => plan2.filled[u] = plan.filled[u]
        BY <3>1 DEF Plans
      <3>4. LegSynced(plan, t, o) = plan2
        BY <2>5 DEF LegSynced
      <3> HIDE DEF plan2
      <3>5. Backed(plan2, t)
        BY <2>2, <2>5, <3>2 DEF Backed
      <3>6. PlanBacked(plan2)
        <4>1. plan2.xid[t] \in DOMAIN orders /\ orders[plan2.xid[t]].cid = t
          BY <2>2, <3>1
        <4>2. \A u \in Tiers : u # t => /\ plan2.filled[u] = plan.filled[u]
                                       /\ plan2.sold[u] = plan.sold[u] /\ plan2.xid[u] = plan.xid[u]
          BY <3>1, <3>2, <3>3
        <4> QED
          BY <2>1, <3>1, <3>5, <4>1, <4>2, BackedLeg
      <3> QED
        BY <3>4, <3>6
    <2>6. CASE ~o.live /\ ~(o.exec > 0)
      BY <1>3, <2>6 DEF LegSynced
    <2> QED
      BY <2>4, <2>5, <2>6
  <1>6. NoId \in Nat /\ \A i \in DOMAIN orders : i \in Nat
    BY OrderOK, VenueCount DEF NoId
  <1> QED
    BY <1>1, <1>2, <1>3, <1>4, <1>5, <1>6

LEMMA FreshBacked == PlanBacked(FreshPlan)
  BY DEF FreshPlan, PlanBacked, NoId

\* The plans BackedPlans become those of the next state.
LEMMA BackedGrows ==
    ASSUME TypeInv, OrdersLast, NEW K, K = BackedPlans, NEW L, L = BackedPlans'
    PROVE  Grows(K, L)
  <1>1. \A plan \in Plans : PlanBacked(plan) => plan \in L
    BY BackedStays DEF BackedPlans
  <1>2. \A plan \in K : plan \in Plans /\ PlanBacked(plan)
    BY DEF BackedPlans
  <1>3. K \subseteq Plans /\ K \subseteq L /\ FreshPlan \in L
    BY <1>1, <1>2, FreshPlanOK, FreshBacked
  <1>4. ASSUME NEW plan \in K
        PROVE  /\ \A mark \in Nat : Trailed(plan, mark) \in L
               /\ Unbound(plan, Resting(plan)) \in L
               /\ \A t \in Tiers : /\ Bound(plan, t, NoId) \in L
                                   /\ \A i \in DOMAIN orders : orders[i].cid = t => Bound(plan, t, i) \in L
    <2>1. NoId \in Nat /\ \A i \in DOMAIN orders : i \in Nat
      BY OrderOK, VenueCount DEF NoId
    <2> QED
      BY <1>1, <1>2, <2>1, BackedChanges, TrailedOK, UnboundOK, BoundOK
  <1>5. ASSUME NEW plan \in K, NEW stop \in Marks PROVE [plan EXCEPT !.stop = stop] \in L
    <2>1. [plan EXCEPT !.stop = stop] \in Plans
      BY <1>2, SyncConstants DEF Plans
    <2> QED
      BY <1>1, <1>2, <2>1, BackedChanges
  <1>6. ASSUME NEW plan \in K, NEW t \in Resting(plan), plan.xid[t] \in DOMAIN orders
        PROVE  LegSynced(plan, t, orders[plan.xid[t]]) \in L
    <2> DEFINE o == orders[plan.xid[t]]
    <2>1. o.exec \in Nat /\ t \in Tiers
      BY <1>6, OrderOK, VenueCount DEF VenueOrders, Resting
    <2>2. LegSynced(plan, t, o) \in Plans
      BY <1>2, <2>1, TierFilledOK, UnboundOK DEF LegSynced
    <2>3. PlanBacked(LegSynced(plan, t, o))
      BY <1>2, BackedChanges
    <2> QED
      BY <1>1, <2>2, <2>3
  <1> QED
    BY <1>3, <1>4, <1>5, <1>6 DEF Grows

BackedInv == PlansIn(BackedPlans)

LEMMA NextBacked ==
    ASSUME TypeInv, AnswerInv, BackedInv, [Next]_vars PROVE AnswerInv' /\ BackedInv'
  <1>1. PICK K : K = BackedPlans
    OBVIOUS
  <1>2. PICK L : L = BackedPlans'
    OBVIOUS
  <1>3. OrdersLast
    BY NextLasts
  <1>4. Grows(K, L)
    BY <1>1, <1>2, <1>3, BackedGrows
  <1>5. PlansIn(K)
    BY <1>1 DEF BackedInv
  <1>6. Ready(K, L)
    BY <1>3, <1>4, <1>5 DEF Ready
  <1>7. PlansIn(L)' /\ AnswerInv'
    BY <1>6, NextPlans
  <1>8. row'.plan \in L /\ \A p \in Procs : job'[p].mem.plan \in L
    BY <1>7 DEF PlansIn
  <1> QED
    BY <1>2, <1>7, <1>8 DEF BackedInv, PlansIn

\* What the orders S have sold.
ExecIn(S) == [i \in S |-> orders[i].exec]

AddingExec(g, S) ==
    [s \in SUBSET S |-> IF s = {} THEN 0
                        ELSE LET x == CHOOSE y \in s : TRUE IN orders[x].exec + g[s \ {x}]]

LEMMA LotsUnfold ==
    ASSUME NEW S
    PROVE  \E h : /\ Lots(S, LAMBDA o : o.exec) = h[S]
                  /\ (\E g : g = AddingExec(g, S)) => h = AddingExec(h, S)
  BY DEF Lots, MapThenSumSet, MapThenFoldSet, AddingExec

LEMMA LotsAreSum ==
    ASSUME NEW S, IsFiniteSet(S)
    PROVE  Lots(S, LAMBDA o : o.exec) = SumOf(ExecIn(S), S)
  <1> DEFINE f == ExecIn(S)
  <1>1. ASSUME NEW g PROVE AddingExec(g, S) = Adding(g, f, S)
    BY DEF AddingExec, Adding, ExecIn
  <1> HIDE DEF f
  <1>2. PICK i : i = Adding(i, f, S)
    BY SumExists DEF SumsOver
  <1>3. PICK h : /\ Lots(S, LAMBDA o : o.exec) = h[S]
                 /\ (\E g : g = AddingExec(g, S)) => h = AddingExec(h, S)
    BY LotsUnfold
  <1>4. h = Adding(h, f, S)
    BY <1>1, <1>2, <1>3
  <1>5. SumOf(f, S) = h[S]
    BY <1>4, SumIs DEF SumsOver
  <1> QED
    BY <1>3, <1>5 DEF f

\* The one order behind a banked tier is all that was sold for it.
LEMMA BackedAlone ==
    ASSUME TypeInv, LedgerInv, NEW t \in Tiers, NEW i \in DOMAIN orders, orders[i].cid = t,
           ~orders[i].live, orders[i].exec > 0
    PROVE  LET S == {k \in Sells : orders[k].cid = t} IN
           /\ \A k \in S : ~orders[k].live
           /\ Lots(S, LAMBDA o : o.exec) = orders[i].exec
  <1> DEFINE S == {k \in Sells : orders[k].cid = t}
             f == ExecIn(S)
  <1>1. \A k \in DOMAIN orders : k \in Nat /\ orders[k] \in VenueOrders
    BY OrderOK, VenueCount
  <1>2. ASSUME NEW k \in S, k # i PROVE ~orders[k].live /\ orders[k].exec = 0
    <2>1. k \in DOMAIN orders /\ orders[k].cid = t
      BY DEF Sells
    <2>2. k < i \/ i < k
      BY <1>1, <1>2, <2>1
    <2>3. Active(orders[i])
      BY DEF Active
    <2>4. ~Active(orders[k])
      BY <2>1, <2>2, <2>3 DEF LedgerInv, OnlyLatestActive
    <2> QED
      BY <1>1, <2>1, <2>4 DEF Active, VenueOrders
  <1>3. i \in S
    BY LadderConstants DEF Sells, Entries, EntryCid, Tiers
  <1>4. IsFiniteSet(S)
    <2>1. DOMAIN orders = 1..Len(orders) /\ Len(orders) \in Nat
      BY VenueCount, LenProperties
    <2>2. IsFiniteSet(DOMAIN orders)
      BY <2>1, FS_Interval
    <2>3. S \in SUBSET (DOMAIN orders)
      BY DEF Sells
    <2> QED
      BY <2>2, <2>3, FS_Subset
  <1>5. \A k \in S : ~orders[k].live
    BY <1>2
  <1>6. f[i] = orders[i].exec /\ f[i] \in Int /\ \A k \in S \ {i} : f[k] = 0
    BY <1>1, <1>2, <1>3 DEF ExecIn, VenueOrders
  <1>7. Lots(S, LAMBDA o : o.exec) = SumOf(f, S)
    BY <1>4, LotsAreSum
  <1> HIDE DEF S, f
  <1>8. SumOf(f, S) = f[i]
    <2> DEFINE R == S \ {i}
    <2>1. IsFiniteSet(R) /\ i \notin R /\ S = R \cup {i} /\ \A k \in R : f[k] = 0
      BY <1>3, <1>4, <1>6, FS_Subset
    <2> HIDE DEF R
    <2>2. SumOf(f, R) = 0
      BY <2>1, SumZero
    <2>3. SumOf(f, R \cup {i}) = SumOf(f, R) + f[i]
      BY <1>6, <2>1, SumAdd
    <2> QED
      BY <1>6, <2>1, <2>2, <2>3
  <1> QED
    BY <1>5, <1>6, <1>7, <1>8 DEF S

\* A tier is banked only when the venue has sold it: whatever died, crashed or
\* was lost in between, no order of a banked tier rests any more, and the plan
\* records just what they sold (_sync_resting_legs).
THEOREM BankedHolds ==
    ASSUME Unlocked = {} PROVE Spec => []BankedTierSold
  <1>1. Init => TypeInv /\ LedgerInv /\ AnswerInv /\ BackedInv
    <2>1. Init => BackedInv
      BY FreshIn, FreshPlanOK, FreshBacked DEF Init, BackedInv, PlansIn, BackedPlans, FreshIdle
    <2> QED
      BY <2>1, InitTypeInv, InitLedger, InitAnswer
  <1>2. /\ TypeInv /\ LedgerInv /\ AnswerInv /\ BackedInv /\ [Next]_vars
        => TypeInv' /\ LedgerInv' /\ AnswerInv' /\ BackedInv'
    BY NextTypeInv, NextLedger, NextBacked
  <1>3. TypeInv /\ LedgerInv /\ BackedInv => BankedTierSold
    <2> SUFFICES ASSUME TypeInv, LedgerInv, BackedInv, NEW t \in Tiers, row.plan.filled[t]
                 PROVE  /\ row.plan.sold[t] > 0
                        /\ \A i \in Sells : orders[i].cid = t => ~orders[i].live
                        /\ row.plan.sold[t] = Lots({i \in Sells : orders[i].cid = t}, LAMBDA o : o.exec)
      BY DEF BankedTierSold
    <2>1. Backed(row.plan, t)
      BY DEF BackedInv, PlansIn, BackedPlans, PlanBacked
    <2>2. PICK i \in DOMAIN orders : /\ orders[i].cid = t /\ ~orders[i].live
                                     /\ orders[i].exec > 0 /\ row.plan.sold[t] = orders[i].exec
      BY <2>1 DEF Backed
    <2> QED
      BY <2>2, BackedAlone
  <1> QED
    BY <1>1, <1>2, <1>3, PTL DEF Spec

-----------------------------------------------------------------------------
(* Part 5.  An entry that can still buy is never lost.  There is one entry *)
(* at most, every venue id that a row or a record in memory keeps for it   *)
(* is its own, and whoever is selling out has cancelled it.                *)

LiveEntries == {i \in Entries : orders[i].live}

CanStillBuy == {"PENDING_SUBMIT", "ENTRY_OPEN"}
SellingOut == {"cancel_legs", "exit", "exit_post", "exit_bind"}

EntryKnown(j, entries, live) ==
    /\ j.mem.xid \in entries \cup {NoId}
    /\ j.pc = "entry_post" => entries = {}
    /\ j.pc = "entry_bind" => j.ref \in entries
    /\ j.pc \in {"cancel_saved"} \cup SellingOut => live = {}

EntryInv ==
    /\ \A i, k \in Entries : i = k
    /\ row.status = "NONE" => Entries = {}
    /\ row.xid \in Entries \cup {NoId}
    /\ LiveEntries = {} \/ row.status \in CanStillBuy
    /\ \A p \in Procs : EntryKnown(job[p], Entries, LiveEntries)

\* The entries stay the same and none comes back to life.
EntriesKept == Entries' = Entries /\ LiveEntries' \subseteq LiveEntries

LEMMA SameEntries == UNCHANGED orders => EntriesKept /\ (LiveEntries = {} => LiveEntries' = {})
  BY DEF EntriesKept, Entries, LiveEntries

LEMMA KeptDead == ASSUME EntriesKept, LiveEntries = {} PROVE LiveEntries' = {}
  BY DEF EntriesKept

LEMMA CancelKeepsEntries ==
    ASSUME TypeInv, NEW S, orders' = Cancelled(S)
    PROVE  EntriesKept /\ (Entries \subseteq S => LiveEntries' = {})
  <1>1. /\ DOMAIN orders' = DOMAIN orders
        /\ \A i \in DOMAIN orders :
             /\ orders[i] \in VenueOrders
             /\ orders'[i] = IF i \in S THEN [orders[i] EXCEPT !.live = FALSE] ELSE orders[i]
    BY OrderOK, VenueCount DEF Cancelled
  <1>2. \A i \in DOMAIN orders : /\ orders'[i].cid = orders[i].cid
                                 /\ orders'[i].live => orders[i].live
                                 /\ i \in S => ~orders'[i].live
    BY <1>1 DEF VenueOrders
  <1> QED
    BY <1>1, <1>2 DEF EntriesKept, Entries, LiveEntries

LEMMA PostKeepsEntries ==
    ASSUME TypeInv, NEW cid \in Cids, cid # EntryCid, NEW qty \in Nat, orders' = Placed(cid, qty)
    PROVE  EntriesKept
  <1> DEFINE n == Len(orders)
             o == [cid |-> cid, qty |-> qty, exec |-> 0, live |-> TRUE]
  <1>1. /\ n \in Nat /\ DOMAIN orders = 1..n /\ DOMAIN orders' = 1..(n + 1)
        /\ \A i \in 1..n : orders'[i] = orders[i]
        /\ orders'[n + 1] = o
    BY PostedShape
  <1>2. o.cid = cid
    OBVIOUS
  <1> HIDE DEF n, o
  <1>3. Entries' = Entries
    BY <1>1, <1>2 DEF Entries
  <1>4. \A i \in Entries : orders'[i] = orders[i]
    BY <1>1 DEF Entries
  <1> QED
    BY <1>3, <1>4 DEF EntriesKept, LiveEntries

\* The query finds the entry, by its venue id or by its client id.
LEMMA EntryFound ==
    ASSUME TypeInv, EntryInv, NEW id \in Entries \cup {NoId}
    PROVE  Lookup(id, EntryCid) = Entries
  <1>1. \A i \in Entries : i \in Nat /\ i # NoId
    BY OrderOK, VenueCount, LenProperties DEF Entries, NoId
  <1>2. CASE id \in Entries
    BY <1>1, <1>2 DEF Lookup, EntryInv
  <1>3. CASE id = NoId
    <2>1. \A i \in DOMAIN orders : IsLatest(i, EntryCid) => i \in Entries
      BY DEF IsLatest, Entries
    <2>2. ASSUME NEW i \in Entries PROVE IsLatest(i, EntryCid)
      BY <1>1 DEF IsLatest, Entries, EntryInv
    <2> QED
      BY <1>3, <2>1, <2>2 DEF Lookup, Entries
  <1> QED
    BY <1>2, <1>3

\* One handler moves; under the lock the others are idle.
LEMMA EntryStep ==
    ASSUME TypeInv, LedgerInv, EntryInv, NEW p \in Procs, NEW j, Go(p, j), Admitted(p),
           EntriesKept, EntryKnown(j, Entries', LiveEntries'),
           row'.status # "NONE" \/ Entries = {}, row'.xid \in Entries \cup {NoId},
           LiveEntries' = {} \/ row'.status \in CanStillBuy
    PROVE  EntryInv'
  <1>1. \A q \in Procs : q # p => At(q, "idle") /\ job'[q] = job[q]
    BY MutexKept DEF LedgerInv
  <1>2. job'[p] = j
    BY DEF Go, TypeInv, TypeOK
  <1>3. Entries' = Entries
    BY DEF EntriesKept
  <1>4. ASSUME NEW q \in Procs PROVE EntryKnown(job'[q], Entries', LiveEntries')
    <2>1. CASE q = p
      BY <1>2, <2>1 DEF EntryKnown
    <2>2. CASE q # p
      BY <1>1, <1>3, <2>2 DEF EntryKnown, EntryInv, At, SellingOut
    <2> QED
      BY <2>1, <2>2
  <1>5. (\A i, k \in Entries : i = k)'
    BY <1>3 DEF EntryInv
  <1> QED
    BY <1>3, <1>4, <1>5 DEF EntryInv

\* A running handler goes on; neither the row's status nor the orders change.
LEMMA EntryMove ==
    ASSUME TypeInv, LedgerInv, StageInv, EntryInv, NEW p \in Procs, ~At(p, "idle"),
           NEW j, Go(p, j), EntriesKept, UNCHANGED row, EntryKnown(j, Entries', LiveEntries')
    PROVE  EntryInv'
  <1>1. row'.status # "NONE" /\ row'.xid \in Entries \cup {NoId}
    BY RunningOpen DEF EntryInv
  <1>2. LiveEntries' = {} \/ row'.status \in CanStillBuy
    BY KeptDead DEF EntryInv
  <1> QED
    BY <1>1, <1>2, EntryStep DEF Admitted

LEMMA IdleKnown == EntryKnown(Idle, Entries', LiveEntries')
  BY DEF EntryKnown, Idle, NoRow, NoId, SellingOut

LEMMA EntryFinish ==
    ASSUME TypeInv, LedgerInv, EntryInv, NEW p \in Procs, ~At(p, "idle"), Finish(p),
           UNCHANGED orders, row'.status # "NONE", row'.xid \in Entries \cup {NoId},
           LiveEntries = {} \/ row'.status \in CanStillBuy
    PROVE  EntryInv'
  <1>1. EntriesKept /\ (LiveEntries' = {} \/ row'.status \in CanStillBuy)
    BY SameEntries
  <1> QED
    BY <1>1, IdleKnown, EntryStep DEF Finish, Admitted

\* A refreshed order sells out only once it is a position, whose entry is dead.
LEMMA EntryRefresh ==
    ASSUME TypeInv, LedgerInv, EntryInv, NEW p \in Procs, ~At(p, "idle"), UNCHANGED orders,
           row' \in Rows, NEW changed, NEW sold \in Int,
           Go(p, Refreshed(job[p], row', changed, sold)),
           row'.status # "NONE", row'.xid \in Entries \cup {NoId},
           LiveEntries = {} \/ row'.status \in CanStillBuy
    PROVE  EntryInv'
  <1> DEFINE j == Refreshed(job[p], row', changed, sold)
  <1>1. \/ j = Idle
        \/ j.mem = row' /\ \/ j.pc \in {"cancel_entry", "cancel_partial"} /\ row'.status = "ENTRY_OPEN"
                           \/ /\ j.pc \in {"sync", "legs", "sync_legs", "cancel_legs"}
                              /\ row'.status = "POSITION_OPEN"
    BY RefreshedShape, RowFacts
  <1>2. EntriesKept /\ (LiveEntries = {} => LiveEntries' = {}) /\ Entries' = Entries
    BY SameEntries DEF EntriesKept
  <1>3. EntryKnown(j, Entries', LiveEntries')
    <2>1. CASE j = Idle
      BY <2>1, IdleKnown
    <2>2. CASE j # Idle
      <3> HIDE DEF j
      <3> QED
        BY <1>1, <1>2, <2>2 DEF EntryKnown, SellingOut, CanStillBuy
    <2> QED
      BY <2>1, <2>2
  <1> QED
    BY <1>2, <1>3, EntryStep DEF Admitted

\* Every action keeps EntryInv.
LEMMA StartEntry ==
    ASSUME TypeInv, LedgerInv, StageInv, EntryInv, Unlocked = {}, NEW p \in Procs, Start(p)
    PROVE  EntryInv'
  <1>1. CASE SubmitEntry(p)
    <2> DEFINE j == [Idle EXCEPT !.pc = "entry_post", !.kind = "submit", !.mem = row']
    <2>1. j.mem = row' /\ j.pc = "entry_post" /\ row'.xid = NoId /\ row'.status = "PENDING_SUBMIT"
      BY <1>1 DEF SubmitEntry, Idle, NoRow
    <2>2. Go(p, j) /\ CanStart(p) /\ Entries = {} /\ EntriesKept
      BY <1>1, SameEntries DEF SubmitEntry, EntryInv
    <2> HIDE DEF j
    <2>3. EntryKnown(j, Entries', LiveEntries')
      BY <2>1, <2>2 DEF EntryKnown, EntriesKept, SellingOut
    <2> QED
      BY <2>1, <2>2, <2>3, EntryStep DEF Admitted, CanStillBuy
  <1>2. ASSUME CanStart(p), row.status \in OpenStatuses, UNCHANGED <<row, orders>>,
               NEW j, Go(p, j), j.mem = row, j.pc \in {"pending", "sync"}
        PROVE  EntryInv'
    <2>1. EntriesKept /\ (LiveEntries = {} => LiveEntries' = {}) /\ Entries' = Entries
      BY <1>2, SameEntries DEF EntriesKept
    <2>2. EntryKnown(j, Entries', LiveEntries')
      BY <1>2, <2>1 DEF EntryKnown, EntryInv, SellingOut
    <2>3. row'.status # "NONE" /\ row'.xid \in Entries \cup {NoId}
          /\ (LiveEntries' = {} \/ row'.status \in CanStillBuy)
      BY <1>2, <2>1 DEF EntryInv, OpenStatuses
    <2> QED
      BY <1>2, <2>1, <2>2, <2>3, EntryStep DEF Admitted
  <1>3. ASSUME NEW mark, StartReconcile(p, mark) PROVE EntryInv'
    <2> DEFINE pc == IF row.status = "PENDING_SUBMIT" THEN "pending" ELSE "sync"
               j == [Idle EXCEPT !.pc = pc, !.kind = "reconcile", !.mem = row, !.mark = mark]
    <2>1. j.mem = row /\ j.pc \in {"pending", "sync"}
      BY DEF Idle
    <2>2. Go(p, j) /\ CanStart(p) /\ row.status \in OpenStatuses /\ UNCHANGED <<row, orders>>
      BY <1>3 DEF StartReconcile
    <2> HIDE DEF j
    <2> QED
      BY <1>2, <2>1, <2>2
  <1>4. CASE StartClose(p)
    <2> DEFINE j == [Idle EXCEPT !.pc = "sync", !.kind = "close", !.mem = row]
    <2>1. j.mem = row /\ j.pc = "sync"
      BY DEF Idle
    <2>2. Go(p, j) /\ CanStart(p) /\ row.status \in OpenStatuses /\ UNCHANGED <<row, orders>>
      BY <1>4 DEF StartClose
    <2> HIDE DEF j
    <2> QED
      BY <1>2, <2>1, <2>2
  <1>5. ASSUME NEW stop, Adjust(p, stop) PROVE EntryInv'
    <2>1. UNCHANGED <<orders, job>> /\ row'.status = row.status /\ row'.xid = row.xid
      BY <1>5, RowFacts DEF Adjust, Rows
    <2>2. Entries' = Entries /\ LiveEntries' = LiveEntries
      BY <2>1 DEF Entries, LiveEntries
    <2> QED
      BY <2>1, <2>2 DEF EntryInv
  <1> QED
    BY <1>1, <1>3, <1>4, <1>5 DEF Start, Tick

\* The entry is posted when there is none: it is the only one.
LEMMA PostEntryEntry ==
    ASSUME TypeInv, LedgerInv, StageInv, EntryInv, NEW p \in Procs, PostEntry(p)
    PROVE  EntryInv'
  <1> DEFINE n == Len(orders)
             j == [job[p] EXCEPT !.pc = "entry_bind", !.ref = n + 1]
             o == [cid |-> EntryCid, qty |-> Qty, exec |-> 0, live |-> TRUE]
  <1>1. ~At(p, "idle") /\ row.status = "PENDING_SUBMIT" /\ Entries = {} /\ UNCHANGED row
        /\ job[p].mem.xid = NoId /\ row.xid = NoId /\ Go(p, j)
    BY DEF PostEntry, At, StageInv, Stage, EntryInv, EntryKnown
  <1>2. EntryCid \in Cids
    BY LadderConstants DEF EntryCid, Cids, ExitCid
  <1>3. /\ n \in Nat /\ DOMAIN orders = 1..n /\ DOMAIN orders' = 1..(n + 1)
        /\ \A i \in 1..n : orders'[i] = orders[i]
        /\ orders'[n + 1] = o
    BY <1>2, PostedShape, SyncConstants DEF PostEntry
  <1>4. j.pc = "entry_bind" /\ j.ref = n + 1 /\ j.mem.xid = NoId
    BY <1>1, RowFacts DEF Jobs
  <1>5. o.cid = EntryCid
    OBVIOUS
  <1> HIDE DEF n, j, o
  <1>6. Entries' = {n + 1}
    BY <1>1, <1>3, <1>5 DEF Entries
  <1>7. (\A q \in Procs : q # p => At(q, "idle") /\ job'[q] = job[q]) /\ job'[p] = j
    BY <1>1, MutexKept DEF LedgerInv, Admitted, Go, TypeInv, TypeOK
  <1>8. ASSUME NEW q \in Procs PROVE EntryKnown(job'[q], Entries', LiveEntries')
    <2>1. CASE q = p
      BY <1>4, <1>6, <1>7, <2>1 DEF EntryKnown, SellingOut
    <2>2. CASE q # p
      BY <1>1, <1>7, <2>2 DEF EntryKnown, EntryInv, At, SellingOut
    <2> QED
      BY <2>1, <2>2
  <1> QED
    BY <1>1, <1>6, <1>8 DEF EntryInv, CanStillBuy

LEMMA ResolvePendingEntry ==
    ASSUME TypeInv, LedgerInv, StageInv, EntryInv, NEW p \in Procs, ResolvePending(p)
    PROVE  EntryInv'
  <1>1. ~At(p, "idle") /\ UNCHANGED orders /\ job[p].mem = row /\ row.status = "PENDING_SUBMIT"
    BY DEF ResolvePending, At, StageInv, Stage
  <1>2. Lookup(NoId, EntryCid) = Entries
    BY EntryFound
  <1>3. ASSUME NEW i \in Entries, row' = [row EXCEPT !.status = "ENTRY_OPEN", !.xid = i],
               Go(p, [job[p] EXCEPT !.pc = "sync", !.kind = "adopt", !.mem = row'])
        PROVE  EntryInv'
    <2> DEFINE j == [job[p] EXCEPT !.pc = "sync", !.kind = "adopt", !.mem = row']
    <2>1. row'.status = "ENTRY_OPEN" /\ row'.xid = i
      BY <1>3, RowFacts DEF Rows
    <2>2. j.pc = "sync" /\ j.mem = row'
      BY RowFacts DEF Jobs
    <2>3. Go(p, j)
      BY <1>3
    <2> HIDE DEF j
    <2>4. EntriesKept /\ EntryKnown(j, Entries', LiveEntries')
      BY <1>1, <2>1, <2>2, SameEntries DEF EntriesKept, EntryKnown, SellingOut
    <2> QED
      BY <1>1, <2>1, <2>3, <2>4, EntryStep DEF Admitted, CanStillBuy
  <1>4. CASE Finish(p) /\ row' = row
    BY <1>1, <1>4, EntryFinish DEF EntryInv
  <1>5. CASE Finish(p) /\ Entries = {} /\ row' = [row EXCEPT !.status = "CANCELED"]
    <2>1. row'.status = "CANCELED" /\ row'.xid = row.xid
      BY <1>5, RowFacts DEF Rows
    <2>2. LiveEntries = {}
      BY <1>5 DEF LiveEntries
    <2> QED
      BY <1>1, <1>5, <2>1, <2>2, EntryFinish DEF EntryInv
  <1> QED
    BY <1>1, <1>2, <1>3, <1>4, <1>5 DEF ResolvePending

LEMMA SyncEntryEntry ==
    ASSUME TypeInv, LedgerInv, StageInv, EntryInv, NEW p \in Procs, SyncEntry(p)
    PROVE  EntryInv'
  <1> DEFINE m == job[p].mem
             found == Lookup(m.xid, EntryCid)
  <1>1. ~At(p, "idle") /\ UNCHANGED orders /\ m = row /\ row.status \in OpenStatuses
        /\ row.status # "NONE" /\ (LiveEntries = {} \/ row.status \in CanStillBuy)
        /\ row.xid \in Entries \cup {NoId}
    BY DEF SyncEntry, At, StageInv, Stage, OpenStatuses, EntryInv
  <1>2. found = Entries
    BY <1>1, EntryFound
  <1>3. \A i \in Entries : LET r == SyncedEntry(row, i) IN
          /\ r.xid = i
          /\ \/ r.status = row.status
             \/ ~orders[i].live /\ r.status \in {"POSITION_OPEN", "CANCELED"}
    BY RowFacts, SyncedEntryShape DEF Entries
  <1>4. row' \in Rows /\ exited \in Int
    BY SyncEntryType DEF TypeInv, TypeOK
  <1>5. CASE /\ row' = [m EXCEPT !.exStatus = "UNKNOWN"]
             /\ Go(p, Refreshed(job[p], row', m.exStatus # "UNKNOWN", exited))
    <2>1. row'.status = row.status /\ row'.xid = row.xid
      BY <1>1, <1>5, RowFacts DEF Rows
    <2> QED
      BY <1>1, <1>4, <1>5, <2>1, EntryRefresh
  <1>6. ASSUME NEW i \in Entries, row' = SyncedEntry(m, i),
               Go(p, Refreshed(job[p], row', Observed(row') # Observed(m), exited))
        PROVE  EntryInv'
    <2>1. row'.xid = i /\ row'.status # "NONE"
      BY <1>1, <1>3, <1>6
    <2>2. LiveEntries = {} \/ row'.status \in CanStillBuy
      <3>1. CASE row'.status = row.status
        BY <1>1, <3>1
      <3>2. CASE ~orders[i].live
        BY <3>2 DEF LiveEntries, EntryInv
      <3> QED
        BY <1>1, <1>3, <1>6, <3>1, <3>2
    <2> QED
      BY <1>1, <1>4, <1>6, <2>1, <2>2, EntryRefresh
  <1>7. ASSUME NEW i \in Entries, UNCHANGED row,
               Go(p, [job[p] EXCEPT !.pc = "sync_exit", !.mem = SyncedEntry(m, i),
                                    !.dirty = Observed(SyncedEntry(m, i)) # Observed(m)])
        PROVE  EntryInv'
    <2> DEFINE r == SyncedEntry(m, i)
               d == Observed(r) # Observed(m)
               j == [job[p] EXCEPT !.pc = "sync_exit", !.mem = r, !.dirty = d]
    <2>1. r.xid = i
      BY <1>1, <1>3
    <2>2. Go(p, j)
      BY <1>7
    <2> HIDE DEF r, d
    <2>3. j.pc = "sync_exit" /\ j.mem = r
      BY RowFacts DEF Jobs
    <2> HIDE DEF j
    <2>4. EntriesKept /\ EntryKnown(j, Entries', LiveEntries')
      BY <1>1, <2>1, <2>3, SameEntries DEF EntriesKept, EntryKnown, SellingOut
    <2> QED
      BY <1>1, <1>7, <2>2, <2>4, EntryMove
  <1> QED
    BY <1>2, <1>5, <1>6, <1>7 DEF SyncEntry

LEMMA SyncExitEntry ==
    ASSUME TypeInv, LedgerInv, StageInv, EntryInv, NEW p \in Procs, SyncExit(p)
    PROVE  EntryInv'
  <1> DEFINE m == job[p].mem
  <1>1. /\ ~At(p, "idle") /\ UNCHANGED orders /\ m.status = "POSITION_OPEN"
        /\ row.status = "POSITION_OPEN" /\ m.xid \in Entries \cup {NoId} /\ LiveEntries = {}
    BY DEF SyncExit, At, StageInv, Stage, EntryInv, EntryKnown, CanStillBuy
  <1>2. row' \in Rows /\ exited' \in Int
    BY SyncExitType DEF TypeInv, TypeOK
  <1>3. row'.xid = m.xid /\ row'.status # "NONE"
    <2>1. row' = m \/ \E o : row' = SyncedExit(m, o)
      BY DEF SyncExit
    <2> QED
      BY <1>1, <2>1, RowFacts, SyncedExitShape
  <1>4. PICK changed : Go(p, Refreshed(job[p], row', changed, exited'))
    BY DEF SyncExit
  <1> QED
    BY <1>1, <1>2, <1>3, <1>4, EntryRefresh

\* Cancelling the entry by the pointer the record has kills the entry there is.
LEMMA CancelEntryEntry ==
    ASSUME TypeInv, LedgerInv, StageInv, EntryInv, NEW p \in Procs,
           CancelEntry(p) \/ CancelPartialEntry(p)
    PROVE  EntryInv'
  <1> DEFINE m == job[p].mem
  <1>1. ~At(p, "idle") /\ UNCHANGED row /\ m.xid \in Entries \cup {NoId}
        /\ orders' = Cancelled(Lookup(m.xid, EntryCid))
    BY DEF CancelEntry, CancelPartialEntry, At, EntryInv, EntryKnown
  <1>2. EntriesKept /\ LiveEntries' = {}
    BY <1>1, EntryFound, CancelKeepsEntries
  <1>3. ASSUME NEW j, Go(p, j), j.mem.xid = m.xid, j.pc \in {"cancel_saved", "cancel_legs"}
        PROVE  EntryInv'
    <2>1. EntryKnown(j, Entries', LiveEntries')
      BY <1>1, <1>2, <1>3 DEF EntryKnown, EntriesKept
    <2> QED
      BY <1>1, <1>2, <1>3, <2>1, EntryMove
  <1>4. CASE CancelEntry(p)
    <2> DEFINE j == [job[p] EXCEPT !.pc = "cancel_saved"]
    <2>1. j.pc = "cancel_saved" /\ j.mem = m
      BY RowFacts DEF Jobs
    <2>2. Go(p, j)
      BY <1>4 DEF CancelEntry
    <2> HIDE DEF j
    <2> QED
      BY <1>3, <2>1, <2>2
  <1>5. CASE CancelPartialEntry(p)
    <2> DEFINE j == [job[p] EXCEPT !.pc = "cancel_legs", !.mem.status = "POSITION_OPEN"]
    <2>1. j.pc = "cancel_legs" /\ j.mem.xid = m.xid
      BY RowFacts DEF Jobs, Rows
    <2>2. Go(p, j)
      BY <1>5 DEF CancelPartialEntry
    <2> HIDE DEF j
    <2> QED
      BY <1>3, <2>1, <2>2
  <1> QED
    BY <1>4, <1>5

LEMMA BoundEntry ==
    ASSUME TypeInv, LedgerInv, StageInv, EntryInv, NEW p \in Procs, AdoptLeg(p) \/ BindLeg(p)
    PROVE  EntryInv'
  <1> DEFINE m == job[p].mem
  <1>1. /\ ~At(p, "idle") /\ UNCHANGED orders /\ m = row /\ row.status = "POSITION_OPEN"
        /\ m.xid \in Entries \cup {NoId} /\ LiveEntries = {}
    BY DEF AdoptLeg, BindLeg, At, StageInv, Stage, EntryInv, EntryKnown, CanStillBuy
  <1>2. row' \in Rows /\ row'.xid = m.xid /\ row'.status = "POSITION_OPEN"
    <2>1. \E t, id : row' = [m EXCEPT !.plan = Bound(m.plan, t, id)]
      BY DEF AdoptLeg, BindLeg
    <2>2. row'.xid = m.xid /\ row'.status = "POSITION_OPEN"
      BY <1>1, <2>1, RowFacts DEF Rows
    <2> QED
      BY <2>2, AdoptLegType, BindLegType DEF TypeInv, TypeOK
  <1>3. PICK next \in Nat, left \in Int :
          Go(p, Placing([job[p] EXCEPT !.mem = row', !.tier = next, !.avail = left]))
    BY BoundGoes
  <1> DEFINE k == [job[p] EXCEPT !.mem = row', !.tier = next, !.avail = left]
             j == Placing(k)
  <1>4. k \in Jobs /\ k.mem = row' /\ Go(p, j)
    BY <1>2, <1>3, RowFacts DEF Jobs
  <1> HIDE DEF k
  <1>5. j.mem = row' /\ j.pc \in {"legs", "sync_legs"}
    BY <1>4, PlacingShape
  <1> HIDE DEF j
  <1>6. EntriesKept /\ LiveEntries' = {} /\ EntryKnown(j, Entries', LiveEntries')
    BY <1>1, <1>2, <1>5, SameEntries DEF EntriesKept, EntryKnown, SellingOut
  <1> QED
    BY <1>1, <1>2, <1>4, <1>6, EntryStep DEF Admitted

\* Preparing and posting a sell keeps the record and the entry.
LEMMA SellEntry ==
    ASSUME TypeInv, LedgerInv, StageInv, EntryInv, NEW p \in Procs,
           PrepareLeg(p) \/ PostSell(p) \/ PrepareExit(p)
    PROVE  EntryInv'
  <1>1. ~At(p, "idle") /\ UNCHANGED row
    BY DEF PrepareLeg, PostSell, PrepareExit, At
  <1>2. ASSUME NEW j, Go(p, j), j.mem = job[p].mem, EntriesKept,
               \/ j.pc \in {"leg_post", "leg_bind"}
               \/ job[p].pc \in {"exit", "exit_post"} /\ j.pc \in {"exit_post", "exit_bind"}
        PROVE  EntryInv'
    <2>1. EntryKnown(job[p], Entries, LiveEntries)
      BY DEF EntryInv
    <2>2. EntryKnown(j, Entries', LiveEntries')
      BY <1>2, <2>1, KeptDead DEF EntryKnown, EntriesKept, SellingOut
    <2> QED
      BY <1>1, <1>2, <2>2, EntryMove
  <1>3. CASE PrepareLeg(p)
    <2>1. PICK t \in Tiers :
            Go(p, [job[p] EXCEPT !.pc = "leg_post", !.tier = t, !.want = LegQuantity(job[p], t)])
      BY <1>3 DEF PrepareLeg
    <2> DEFINE j == [job[p] EXCEPT !.pc = "leg_post", !.tier = t, !.want = LegQuantity(job[p], t)]
    <2>2. j.pc = "leg_post" /\ j.mem = job[p].mem
      BY RowFacts DEF Jobs
    <2> HIDE DEF j
    <2>3. Go(p, j)
      BY <2>1 DEF j
    <2> QED
      BY <1>2, <1>3, <2>2, <2>3, SameEntries DEF PrepareLeg
  <1>4. CASE PostSell(p)
    <2> DEFINE cid == Cid(job[p])
               pc == IF job[p].pc = "leg_post" THEN "leg_bind" ELSE "exit_bind"
               j == [job[p] EXCEPT !.pc = pc, !.ref = Len(orders) + 1]
    <2>1. j.pc = pc /\ j.mem = job[p].mem
      BY RowFacts DEF Jobs
    <2>2. Go(p, j) /\ job[p].pc \in {"leg_post", "exit_post"}
          /\ orders' = Placed(cid, job[p].want)
      BY <1>4 DEF PostSell
    <2>3. job[p].want \in Nat /\ cid \in Cids /\ cid # EntryCid
      BY <2>2, JobFacts, LadderConstants DEF JobOK, Cid, Cids, ExitCid, EntryCid, Tiers
    <2> HIDE DEF j, cid
    <2>4. EntriesKept
      BY <2>2, <2>3, PostKeepsEntries
    <2> QED
      BY <1>2, <2>1, <2>2, <2>4
  <1>5. CASE PrepareExit(p)
    <2> DEFINE j == [job[p] EXCEPT !.pc = "exit_post", !.want = LotsLeft(p)]
    <2>1. j.pc = "exit_post" /\ j.mem = job[p].mem
      BY RowFacts DEF Jobs
    <2>2. Go(p, j) /\ job[p].pc = "exit"
      BY <1>5 DEF PrepareExit, At
    <2> HIDE DEF j
    <2> QED
      BY <1>2, <1>5, <2>1, <2>2, SameEntries DEF PrepareExit
  <1> QED
    BY <1>3, <1>4, <1>5

LEMMA LegsEntry ==
    ASSUME TypeInv, LedgerInv, StageInv, EntryInv, NEW p \in Procs,
           SyncLeg(p) \/ FinishLegs(p) \/ CancelLegs(p)
    PROVE  EntryInv'
  <1> DEFINE m == job[p].mem
  <1>1. ~At(p, "idle") /\ m.xid \in Entries \cup {NoId} /\ row.xid \in Entries \cup {NoId}
        /\ m \in Rows /\ row \in Rows /\ LiveEntries = {}
    BY RowFacts DEF SyncLeg, FinishLegs, CancelLegs, At, StageInv, Stage, EntryInv, EntryKnown,
                    SellingOut, CanStillBuy
  <1>2. CASE SyncLeg(p)
    <2>1. PICK plan, t, d : Go(p, [job[p] EXCEPT !.mem.plan = plan, !.tier = t, !.dirty = d])
      BY <1>2 DEF SyncLeg
    <2> DEFINE j == [job[p] EXCEPT !.mem.plan = plan, !.tier = t, !.dirty = d]
    <2>2. j.pc = "sync_legs" /\ j.mem.xid = m.xid
      BY <1>2, RowFacts DEF SyncLeg, At, Jobs, Rows
    <2> HIDE DEF j
    <2>3. Go(p, j)
      BY <2>1 DEF j
    <2>4. EntriesKept /\ EntryKnown(j, Entries', LiveEntries')
      BY <1>1, <1>2, <2>2, SameEntries DEF SyncLeg, EntriesKept, EntryKnown, SellingOut
    <2> QED
      BY <1>1, <1>2, <2>3, <2>4, EntryMove DEF SyncLeg
  <1>3. CASE FinishLegs(p)
    <2> DEFINE soldOut == /\ \A t \in Tiers : m.plan.filled[t]
                          /\ RemainingQuantity(m.plan, Held(m)) <= 0
               m2 == IF soldOut THEN [m EXCEPT !.status = "CLOSED"] ELSE m
               stops == m2.status = "POSITION_OPEN" /\ job[p].mark # NoMark
               m3 == IF stops THEN [m2 EXCEPT !.plan = Trailed(m2.plan, job[p].mark)] ELSE m2
               j == [job[p] EXCEPT !.pc = "cancel_legs", !.mem = m3, !.tier = 1, !.dirty = FALSE]
    <2>1. UNCHANGED orders /\ row.status = "POSITION_OPEN" /\ m.status = "POSITION_OPEN"
      BY <1>3 DEF FinishLegs, At, StageInv, Stage
    <2>2. m2 \in Rows /\ m2.xid = m.xid /\ m2.status # "NONE"
      BY <1>1, <2>1 DEF Rows, Statuses, FinalStatuses
    <2>3. m3.xid = m.xid /\ m3.status # "NONE"
      <3> HIDE DEF m2, stops
      <3> QED
        BY <2>2 DEF Rows
    <2> HIDE DEF m2, m3, soldOut, stops
    <2>4. EntriesKept /\ LiveEntries' = {} /\ Entries' = Entries
      BY <1>1, <2>1, SameEntries DEF EntriesKept
    <2>5. CASE row' = (IF job[p].dirty THEN m2 ELSE row) /\ Go(p, j)
      <3>1. j.pc = "cancel_legs" /\ j.mem = m3
        BY RowFacts DEF Jobs
      <3> HIDE DEF j
      <3>2. row'.status # "NONE" /\ row'.xid \in Entries \cup {NoId}
        BY <1>1, <2>1, <2>2, <2>5
      <3>3. EntryKnown(j, Entries', LiveEntries')
        BY <1>1, <2>3, <2>4, <3>1 DEF EntryKnown
      <3> QED
        BY <1>1, <2>4, <2>5, <3>2, <3>3, EntryStep DEF Admitted
    <2>6. CASE row' = (IF job[p].dirty \/ m3 # m THEN m3 ELSE row) /\ Finish(p)
      <3>1. row'.status # "NONE" /\ row'.xid \in Entries \cup {NoId}
        BY <1>1, <2>1, <2>3, <2>6
      <3> QED
        BY <1>1, <2>1, <2>6, <3>1, EntryFinish
    <2> QED
      BY <1>3, <2>5, <2>6 DEF FinishLegs, m2, m3, soldOut, stops
  <1>4. CASE CancelLegs(p)
    <2> DEFINE plan2 == Unbound(m.plan, Resting(m.plan))
               j == [job[p] EXCEPT !.pc = "exit", !.mem.plan = plan2]
    <2>1. Go(p, j) /\ UNCHANGED row /\ \E S : orders' = Cancelled(S)
      BY <1>4 DEF CancelLegs
    <2> HIDE DEF plan2
    <2>2. j.pc = "exit" /\ j.mem.xid = m.xid
      BY RowFacts DEF Jobs, Rows
    <2> HIDE DEF j
    <2>3. EntriesKept
      BY <2>1, CancelKeepsEntries
    <2>4. EntryKnown(j, Entries', LiveEntries')
      BY <1>1, <2>2, <2>3, KeptDead DEF EntriesKept, EntryKnown
    <2> QED
      BY <1>1, <2>1, <2>3, <2>4, EntryMove
  <1> QED
    BY <1>2, <1>3, <1>4

\* The other steps of a handler are its last.
LEMMA LastStepEntry ==
    ASSUME TypeInv, LedgerInv, StageInv, EntryInv, NEW p \in Procs,
           \/ BindEntry(p) \/ SaveCancelled(p) \/ RefuseSmallLeg(p) \/ RejectSell(p)
           \/ CloseSoldOut(p) \/ RefuseSmallExit(p) \/ AdoptExit(p) \/ BindExit(p) \/ Fail(p)
    PROVE  EntryInv'
  <1> DEFINE m == job[p].mem
  <1>1. /\ ~At(p, "idle") /\ Finish(p) /\ UNCHANGED orders
        /\ m \in Rows /\ m.xid \in Entries \cup {NoId} /\ EntryKnown(job[p], Entries, LiveEntries)
    BY RowFacts DEF BindEntry, SaveCancelled, RefuseSmallLeg, RejectSell, CloseSoldOut,
           RefuseSmallExit, AdoptExit, BindExit, Fail, At, EntryInv, EntryKnown
  <1>2. ASSUME row'.status # "NONE", row'.xid \in Entries \cup {NoId},
               LiveEntries = {} \/ row'.status \in CanStillBuy
        PROVE  EntryInv'
    BY <1>1, <1>2, EntryFinish
  <1>3. CASE UNCHANGED row
    BY <1>1, <1>2, <1>3, RunningOpen DEF EntryInv
  <1>4. CASE BindEntry(p) /\ row' # row
    <2>1. job[p].ref \in Entries
      BY <1>1, <1>4 DEF BindEntry, At, EntryKnown
    <2>2. row'.status = "ENTRY_OPEN" /\ row'.xid = job[p].ref
      BY <1>1, <1>4 DEF BindEntry, Rows
    <2> QED
      BY <1>2, <2>1, <2>2 DEF CanStillBuy
  <1>5. CASE SaveCancelled(p) \/ CloseSoldOut(p)
    <2>1. LiveEntries = {}
      BY <1>1, <1>5 DEF SaveCancelled, CloseSoldOut, At, EntryKnown, SellingOut
    <2>2. row'.status # "NONE" /\ row'.xid = m.xid
      BY <1>1, <1>5 DEF SaveCancelled, CloseSoldOut, Rows
    <2> QED
      BY <1>1, <1>2, <2>1, <2>2
  <1>6. CASE AdoptExit(p) \/ BindExit(p)
    <2>1. LiveEntries = {} /\ m.status = "POSITION_OPEN"
      BY <1>1, <1>6 DEF AdoptExit, BindExit, At, EntryKnown, SellingOut, StageInv, Stage
    <2>2. row'.status # "NONE" /\ row'.xid = m.xid
      BY <1>1, <1>6, <2>1 DEF AdoptExit, BindExit, Rows
    <2> QED
      BY <1>1, <1>2, <2>1, <2>2
  <1> QED
    BY <1>3, <1>4, <1>5, <1>6
       DEF BindEntry, RefuseSmallLeg, RejectSell, RefuseSmallExit, Fail

\* A fill is of an order that was live already; the venue expires what it likes.
LEMMA VenueKeepsEntries == ASSUME TypeInv, Venue PROVE EntriesKept /\ UNCHANGED <<row, job>>
  <1>1. ASSUME NEW i \in DOMAIN orders, Fill(i) PROVE EntriesKept /\ UNCHANGED <<row, job>>
    <2>1. orders[i] \in VenueOrders /\ orders[i].live
      BY <1>1, OrderOK, VenueCount DEF Fill
    <2>2. PICK got, live :
            orders' = [orders EXCEPT ![i] = [orders[i] EXCEPT !.exec = got, !.live = live]]
      BY <1>1, <2>1 DEF Fill, VenueOrders
    <2>3. DOMAIN orders' = DOMAIN orders /\ orders'[i].cid = orders[i].cid
          /\ \A k \in DOMAIN orders : k # i => orders'[k] = orders[k]
      BY <2>1, <2>2 DEF VenueOrders
    <2> QED
      BY <1>1, <2>1, <2>3 DEF EntriesKept, Entries, LiveEntries, Fill
  <1>2. ASSUME NEW i \in DOMAIN orders, Expire(i) PROVE EntriesKept /\ UNCHANGED <<row, job>>
    BY <1>2, CancelKeepsEntries DEF Expire
  <1> QED
    BY <1>1, <1>2 DEF Venue

LEMMA OutsideEntry ==
    ASSUME EntryInv, EntriesKept, UNCHANGED <<row, job>> PROVE EntryInv'
  BY KeptDead DEF EntryInv, EntryKnown, EntriesKept

LEMMA InitEntry == Init => EntryInv
  <1> SUFFICES ASSUME Init PROVE EntryInv
    OBVIOUS
  <1>1. Entries = {} /\ LiveEntries = {} /\ row.xid = NoId /\ \A p \in Procs : job[p] = Idle
    BY DEF Init, Entries, LiveEntries, NoRow
  <1>2. EntryKnown(Idle, Entries, LiveEntries)
    BY DEF EntryKnown, Idle, NoRow, NoId, SellingOut
  <1> QED
    BY <1>1, <1>2 DEF EntryInv

LEMMA NextEntry ==
    ASSUME TypeInv, LedgerInv, StageInv, EntryInv, Unlocked = {}, [Next]_vars PROVE EntryInv'
  <1>1. ASSUME NEW p \in Procs, Continue(p) PROVE EntryInv'
    BY <1>1, PostEntryEntry, ResolvePendingEntry, SyncEntryEntry, SyncExitEntry,
       CancelEntryEntry, BoundEntry, SellEntry, LegsEntry, LastStepEntry DEF Continue
  <1>2. ASSUME NEW p \in Procs, Fail(p) PROVE EntryInv'
    BY <1>2, LastStepEntry
  <1>3. CASE Venue
    BY <1>3, VenueKeepsEntries, OutsideEntry
  <1>4. CASE GetOlder \/ UNCHANGED vars
    BY <1>4, SameEntries, OutsideEntry DEF GetOlder, vars
  <1> QED
    BY <1>1, <1>2, <1>3, <1>4, StartEntry DEF Next

\* The invariants of parts 1 and 5 together with the types and the ledger.
LifeInv == TypeInv /\ LedgerInv /\ StageInv /\ EntryInv

LEMMA InitLife == Init => LifeInv
  BY InitTypeInv, InitLedger, InitStage, InitEntry DEF LifeInv

LEMMA NextLife == ASSUME LifeInv, Unlocked = {}, [Next]_vars PROVE LifeInv'
  BY NextTypeInv, NextLedger, NextStage, NextEntry DEF LifeInv

\* Under the invocation lock an entry that can still buy belongs to a row that
\* reconcile visits, whatever is lost, refused or crashes in between.
THEOREM EntryNeverLost ==
    ASSUME Unlocked = {} PROVE Spec => []LiveEntryTracked
  <1>1. LifeInv => LiveEntryTracked
    BY DEF LifeInv, EntryInv, LiveEntries, CanStillBuy, LiveEntryTracked
  <1>2. LifeInv /\ [Next]_vars => LifeInv'
    BY NextLife
  <1> QED
    BY <1>1, <1>2, InitLife, PTL DEF Spec

-----------------------------------------------------------------------------
(* Part 6.  What a step may do to the row, and the lifecycle it implements.*)

\* Under the invocation lock no handler, however late, writes to a row that has
\* been closed or cancelled.
THEOREM FinalHolds ==
    ASSUME Unlocked = {} PROVE Spec => FinalRowFrozen
  <1>1. LifeInv /\ [Next]_vars => LifeInv'
    BY NextLife
  <1>2. LifeInv /\ [Next]_vars => [row.status \in FinalStatuses => row' = row]_vars
    BY NextStage DEF LifeInv, Follows
  <1> QED
    BY <1>1, <1>2, InitLife, PTL DEF Spec, FinalRowFrozen

LEMMA RowFollows ==
    ASSUME LifeInv, Unlocked = {}, "adjust" \notin Operator, [Next]_vars
    PROVE  Follows(row, row')
  BY NextStage DEF LifeInv, Adjust

\* Under the invocation lock, and as long as no operator moves it by hand, the
\* stored stop only moves up: no handler saves a plan older than the row's.
THEOREM StopRises ==
    ASSUME Unlocked = {}, "adjust" \notin Operator PROVE Spec => StopOnlyRises
  <1>1. LifeInv /\ [Next]_vars => LifeInv'
    BY NextLife
  <1>2. LifeInv /\ [Next]_vars => [row.status # "NONE" => row'.plan.stop >= row.plan.stop]_vars
    BY RowFollows DEF Follows
  <1> QED
    BY <1>1, <1>2, InitLife, PTL DEF Spec, StopOnlyRises

\* The abstract state of the tiers.
TierStates == {"unsold", "resting", "sold"}
TierNow == [t \in Tiers |-> TierState(t)]

LEMMA TierStateType == TierNow \in [Tiers -> TierStates] /\ TierNow' \in [Tiers -> TierStates]
  BY DEF TierNow, TierState, TierStates

LEMMA TierStateIs ==
    ASSUME NEW t \in Tiers
    PROVE  /\ TierState(t) = "resting" <=> \E i \in DOMAIN orders : orders[i].cid = t /\ orders[i].live
           /\ TierState(t) = "unsold" <=> TierFree(t)
  <1>1. CASE \E i \in {i \in DOMAIN orders : orders[i].cid = t} : orders[i].live
    BY <1>1 DEF TierState, TierFree, Active
  <1>2. CASE ~\E i \in {i \in DOMAIN orders : orders[i].cid = t} : orders[i].live
    BY <1>2 DEF TierState, TierFree
  <1> QED
    BY <1>1, <1>2

\* A tier whose orders stay what they are keeps its state.
LEMMA TierSame ==
    ASSUME NEW t \in Tiers,
           {i \in DOMAIN orders' : orders'[i].cid = t} = {i \in DOMAIN orders : orders[i].cid = t},
           \A i \in DOMAIN orders : orders[i].cid = t => orders'[i] = orders[i]
    PROVE  TierState(t)' = TierState(t)
  <1> DEFINE own == {i \in DOMAIN orders : orders[i].cid = t}
  <1>1. own' = own /\ \A i \in own : orders'[i] = orders[i]
    OBVIOUS
  <1>2. TierState(t) = CASE \E i \in own : orders[i].live -> "resting"
                         [] \A i \in own : ~Active(orders[i]) -> "unsold"
                         [] OTHER -> "sold"
    BY DEF TierState
  <1>3. TierState(t)' = CASE \E i \in own' : orders'[i].live -> "resting"
                          [] \A i \in own' : ~Active(orders'[i]) -> "unsold"
                          [] OTHER -> "sold"
    BY DEF TierState, Active
  <1>4. (\E i \in own' : orders'[i].live) <=> (\E i \in own : orders[i].live)
    BY <1>1
  <1>5. (\A i \in own' : ~Active(orders'[i])) <=> (\A i \in own : ~Active(orders[i]))
    BY <1>1
  <1> HIDE DEF own
  <1> QED
    BY <1>2, <1>3, <1>4, <1>5

\* A step that leaves the orders alone maps to Save.
LEMMA SaveMaps ==
    ASSUME TypeInv, TypeInv', UNCHANGED orders, Follows(row, row')
    PROVE  Lifecycle!Save
  <1>1. TierNow' = TierNow
    BY DEF TierNow, TierState, Active
  <1>2. row.status \in Statuses /\ row'.status \in Statuses /\ row'.plan.stop \in Nat
    BY DEF TypeInv, TypeOK, Rows, Plans
  <1>3. row'.status \in {row.status} \cup Lifecycle!Diagram[row.status]
    BY <1>2 DEF Follows, Edges, Lifecycle!Diagram
  <1> QED
    BY <1>1, <1>2, <1>3 DEF Lifecycle!Save, TierNow, Follows

\* One in which orders stop resting, or fill further, maps to Settle.
LEMMA SettleMaps ==
    ASSUME UNCHANGED row, DOMAIN orders' = DOMAIN orders,
           \A i \in DOMAIN orders :
             orders'[i].cid = orders[i].cid /\ (~orders[i].live => orders'[i] = orders[i])
    PROVE  Lifecycle!Settle
  <1>1. ASSUME NEW t \in Tiers, TierNow[t] # "resting" PROVE TierNow'[t] = TierNow[t]
    <2>1. \A i \in DOMAIN orders : orders[i].cid = t => ~orders[i].live
      BY <1>1, TierStateIs DEF TierNow
    <2>2. TierState(t)' = TierState(t)
      BY <2>1, TierSame
    <2> QED
      BY <2>2 DEF TierNow
  <1>2. TierNow' \in [Tiers -> TierStates]
    BY TierStateType
  <1> QED
    BY <1>1, <1>2 DEF Lifecycle!Settle, TierNow, TierStates

\* A post maps to Rest when it is a tier's, and to a step of Settle that changes
\* nothing when it is the entry's or the exit's.
LEMMA PostMaps ==
    ASSUME TypeInv, UNCHANGED row, NEW cid \in Cids, NEW qty \in Nat, orders' = Placed(cid, qty),
           cid \in Tiers => row.status = "POSITION_OPEN" /\ TierFree(cid)
    PROVE  Lifecycle!Settle \/ \E t \in Tiers : Lifecycle!Rest(t)
  <1> DEFINE n == Len(orders)
             o == [cid |-> cid, qty |-> qty, exec |-> 0, live |-> TRUE]
  <1>1. /\ n \in Nat /\ DOMAIN orders = 1..n /\ DOMAIN orders' = 1..(n + 1)
        /\ \A i \in 1..n : orders'[i] = orders[i]
        /\ orders'[n + 1] = o
    BY PostedShape
  <1>2. o.cid = cid /\ o.live
    OBVIOUS
  <1> HIDE DEF n, o
  <1>3. ASSUME NEW t \in Tiers, t # cid PROVE TierState(t)' = TierState(t)
    <2>1. {i \in DOMAIN orders' : orders'[i].cid = t} = {i \in DOMAIN orders : orders[i].cid = t}
      BY <1>1, <1>2, <1>3
    <2> QED
      BY <1>1, <2>1, TierSame
  <1>4. CASE cid \notin Tiers
    <2>1. TierNow' = TierNow
      BY <1>3, <1>4 DEF TierNow
    <2> QED
      BY <2>1, TierStateType DEF Lifecycle!Settle, TierNow, TierStates
  <1>5. CASE cid \in Tiers
    <2>1. TierState(cid) = "unsold" /\ row.status = "POSITION_OPEN"
      BY <1>5, TierStateIs
    <2>2. TierState(cid)' = "resting"
      <3>1. n + 1 \in DOMAIN orders' /\ orders'[n + 1].cid = cid /\ orders'[n + 1].live
        BY <1>1, <1>2
      <3>2. (\E i \in {i \in DOMAIN orders : orders[i].cid = cid} : orders[i].live)'
        BY <3>1
      <3> QED
        BY <3>2 DEF TierState, Active
    <2>3. TierNow' = [TierNow EXCEPT ![cid] = "resting"]
      BY <1>3, <1>5, <2>2 DEF TierNow
    <2>4. Lifecycle!Rest(cid)
      BY <1>5, <2>1, <2>3 DEF Lifecycle!Rest, TierNow
    <2> QED
      BY <1>5, <2>4
  <1> QED
    BY <1>4, <1>5

LEMMA CancelMaps ==
    ASSUME TypeInv, UNCHANGED row, NEW S, orders' = Cancelled(S) PROVE Lifecycle!Settle
  <1>1. /\ DOMAIN orders' = DOMAIN orders
        /\ \A i \in DOMAIN orders :
             /\ orders[i] \in VenueOrders
             /\ orders'[i] = IF i \in S THEN [orders[i] EXCEPT !.live = FALSE] ELSE orders[i]
    BY OrderOK, VenueCount DEF Cancelled
  <1>2. \A i \in DOMAIN orders :
          orders'[i].cid = orders[i].cid /\ (~orders[i].live => orders'[i] = orders[i])
    BY <1>1 DEF VenueOrders
  <1> QED
    BY <1>1, <1>2, SettleMaps

LEMMA FillMaps ==
    ASSUME TypeInv, NEW i \in DOMAIN orders, Fill(i) PROVE Lifecycle!Settle
  <1>1. orders[i] \in VenueOrders /\ orders[i].live /\ UNCHANGED row
    BY OrderOK, VenueCount DEF Fill
  <1>2. PICK got, live :
          orders' = [orders EXCEPT ![i] = [orders[i] EXCEPT !.exec = got, !.live = live]]
    BY <1>1 DEF Fill, VenueOrders
  <1>3. DOMAIN orders' = DOMAIN orders /\ orders'[i].cid = orders[i].cid
        /\ \A k \in DOMAIN orders : k # i => orders'[k] = orders[k]
    BY <1>1, <1>2 DEF VenueOrders
  <1> QED
    BY <1>1, <1>3, SettleMaps

LEMMA ContinueMaps ==
    ASSUME LifeInv, TypeInv', Follows(row, row'), NEW p \in Procs, Continue(p)
    PROVE  Lifecycle!Next
  <1>1. TypeInv /\ LedgerInv /\ StageInv
    BY DEF LifeInv
  <1>2. CASE UNCHANGED orders
    BY <1>1, <1>2, SaveMaps DEF Lifecycle!Next
  <1>3. CASE CancelEntry(p) \/ CancelPartialEntry(p) \/ CancelLegs(p)
    <2>1. UNCHANGED row /\ \E S : orders' = Cancelled(S)
      BY <1>3 DEF CancelEntry, CancelPartialEntry, CancelLegs
    <2> QED
      BY <1>1, <2>1, CancelMaps DEF Lifecycle!Next
  <1>4. CASE PostEntry(p)
    <2>1. UNCHANGED row /\ orders' = Placed(EntryCid, Qty)
      BY <1>4 DEF PostEntry
    <2>2. EntryCid \in Cids /\ EntryCid \notin Tiers
      BY LadderConstants DEF EntryCid, Cids, ExitCid, Tiers
    <2> QED
      BY <1>1, <2>1, <2>2, SyncConstants, PostMaps DEF Lifecycle!Next
  <1>5. CASE PostSell(p)
    <2> DEFINE cid == Cid(job[p])
    <2>1. UNCHANGED row /\ orders' = Placed(cid, job[p].want)
          /\ job[p].pc \in {"leg_post", "exit_post"}
      BY <1>5 DEF PostSell
    <2>2. job[p].want \in Nat /\ cid \in Cids
      BY <1>1, <2>1, JobFacts, LadderConstants DEF JobOK, Cid, Cids, ExitCid, Tiers
    <2>3. cid \in Tiers => row.status = "POSITION_OPEN" /\ TierFree(cid)
      <3>1. cid \in Tiers => job[p].pc = "leg_post" /\ cid = job[p].tier
        BY <2>1, LadderConstants DEF Cid, ExitCid, Tiers
      <3> QED
        BY <1>1, <3>1 DEF LedgerInv, PostingInv, At, StageInv, Stage
    <2> HIDE DEF cid
    <2> QED
      BY <1>1, <2>1, <2>2, <2>3, PostMaps DEF Lifecycle!Next
  <1>6. UNCHANGED orders \/ CancelEntry(p) \/ CancelPartialEntry(p) \/ CancelLegs(p)
        \/ PostEntry(p) \/ PostSell(p)
    BY DEF Continue, BindEntry, ResolvePending, SyncEntry, SyncExit, SaveCancelled,
           RefuseSmallLeg, AdoptLeg, PrepareLeg, BindLeg, RejectSell, SyncLeg, FinishLegs,
           CloseSoldOut, RefuseSmallExit, AdoptExit, PrepareExit, BindExit
  <1> QED
    BY <1>2, <1>3, <1>4, <1>5, <1>6

LEMMA NextMaps ==
    ASSUME LifeInv, Unlocked = {}, "adjust" \notin Operator, [Next]_vars
    PROVE  [Lifecycle!Next]_(Lifecycle!vars)
  <1>1. TypeInv /\ TypeInv' /\ Follows(row, row')
    BY NextLife, RowFollows DEF LifeInv
  <1>2. ASSUME NEW p \in Procs, Start(p) \/ Fail(p) PROVE Lifecycle!Next
    <2>1. UNCHANGED orders
      BY <1>2 DEF Start, Tick, SubmitEntry, StartReconcile, StartClose, Adjust, Fail
    <2> QED
      BY <1>1, <2>1, SaveMaps DEF Lifecycle!Next
  <1>3. ASSUME NEW p \in Procs, Continue(p) PROVE Lifecycle!Next
    BY <1>1, <1>3, ContinueMaps
  <1>4. CASE Venue
    <2>1. ASSUME NEW i \in DOMAIN orders, Expire(i) PROVE Lifecycle!Settle
      BY <1>1, <2>1, CancelMaps DEF Expire
    <2> QED
      BY <1>1, <1>4, <2>1, FillMaps DEF Venue, Lifecycle!Next
  <1>5. CASE GetOlder
    BY <1>1, <1>5, SaveMaps DEF GetOlder, Lifecycle!Next
  <1>6. CASE UNCHANGED vars
    BY <1>1, <1>6, SaveMaps DEF vars, Lifecycle!Next
  <1> QED
    BY <1>2, <1>3, <1>4, <1>5, <1>6 DEF Next

LEMMA InitMaps == Init => Lifecycle!Init
  <1> SUFFICES ASSUME Init PROVE Lifecycle!Init
    OBVIOUS
  <1>1. row.status = "NONE" /\ row.plan.stop = InitialStop
    BY DEF Init, NoRow, FreshPlan
  <1>2. \A t \in Tiers : TierState(t) = "unsold"
    BY TierStateIs DEF Init, TierFree
  <1> QED
    BY <1>1, <1>2 DEF Lifecycle!Init

\* The reconciler implements the lifecycle of the documents, for every ladder,
\* quantity, number of processes and mixture of faults: the row follows the
\* diagram, a tier rests only while unsold and for an open position, and the
\* stop only moves up.
THEOREM Refinement ==
    ASSUME Unlocked = {}, "adjust" \notin Operator PROVE Spec => RefinesLifecycle
  <1>1. LifeInv /\ [Next]_vars => LifeInv'
    BY NextLife
  <1>2. LifeInv /\ [Next]_vars => [Lifecycle!Next]_(Lifecycle!vars)
    BY NextMaps
  <1> QED
    BY <1>1, <1>2, InitLife, InitMaps, PTL DEF Spec, RefinesLifecycle, Lifecycle!Spec

-----------------------------------------------------------------------------
(* Part 7.  A cancelled row leaves nothing at the venue, unless the venue  *)
(* moves between two calls of a handler.  What a row and a record in       *)
(* memory say is true of the entry: that it has bought, or that it has not.*)

BoughtSome == \E i \in Entries : orders[i].exec > 0

\* Nothing is sold of an entry that has bought nothing, which is for Qty lots.
Stocked ==
    /\ Sells # {} => BoughtSome
    /\ \A i \in Entries : orders[i].qty = Qty

Says(r) == r.status \in {"POSITION_OPEN", "CLOSED"} \/ r.exec > 0 => BoughtSome

JobSays(j) ==
    /\ Says(j.mem)
    /\ j.pc \in {"cancel_entry", "cancel_saved"} => ~BoughtSome
    /\ j.pc = "cancel_partial" => BoughtSome

FlatInv ==
    /\ Stocked
    /\ Says(row) /\ (row.status = "CANCELED" => ~BoughtSome)
    /\ \A p \in Procs : JobSays(job[p])

\* The entry has bought what it had.
SameBought == (BoughtSome' <=> BoughtSome) /\ (Stocked => Stocked')

LEMMA SameOrdersBought == UNCHANGED orders => SameBought
  BY DEF SameBought, Stocked, BoughtSome, Sells, Entries

LEMMA CancelBought == ASSUME TypeInv, NEW S, orders' = Cancelled(S) PROVE SameBought
  <1>1. /\ DOMAIN orders' = DOMAIN orders
        /\ \A i \in DOMAIN orders :
             /\ orders[i] \in VenueOrders
             /\ orders'[i] = IF i \in S THEN [orders[i] EXCEPT !.live = FALSE] ELSE orders[i]
    BY OrderOK, VenueCount DEF Cancelled
  <1>2. \A i \in DOMAIN orders : /\ orders'[i].cid = orders[i].cid
                                 /\ orders'[i].exec = orders[i].exec
                                 /\ orders'[i].qty = orders[i].qty
    BY <1>1 DEF VenueOrders
  <1>3. Entries' = Entries /\ Sells' = Sells
    BY <1>1, <1>2 DEF Entries, Sells
  <1>4. \A i \in Entries : i \in DOMAIN orders
    BY DEF Entries
  <1> QED
    BY <1>2, <1>3, <1>4 DEF SameBought, Stocked, BoughtSome

LEMMA PostBought ==
    ASSUME TypeInv, NEW cid \in Cids, NEW qty \in Nat, orders' = Placed(cid, qty),
           (cid = EntryCid /\ qty = Qty) \/ (cid # EntryCid /\ BoughtSome)
    PROVE  SameBought
  <1> DEFINE n == Len(orders)
             o == [cid |-> cid, qty |-> qty, exec |-> 0, live |-> TRUE]
  <1>1. /\ n \in Nat /\ DOMAIN orders = 1..n /\ DOMAIN orders' = 1..(n + 1)
        /\ \A i \in 1..n : orders'[i] = orders[i]
        /\ orders'[n + 1] = o
    BY PostedShape
  <1>2. o.cid = cid /\ o.qty = qty /\ o.exec = 0
    OBVIOUS
  <1> HIDE DEF n, o
  <1>3. \A i \in Entries : i \in Entries' /\ orders'[i] = orders[i]
    BY <1>1 DEF Entries
  <1>4. \A i \in Entries' : i \in Entries \/ (i = n + 1 /\ cid = EntryCid)
    BY <1>1, <1>2 DEF Entries
  <1>5. BoughtSome' <=> BoughtSome
    BY <1>1, <1>2, <1>3, <1>4 DEF BoughtSome
  <1>6. cid = EntryCid => (\A i \in Sells' : i \in Sells)
    BY <1>1, <1>2 DEF Sells, Entries
  <1>7. ASSUME Stocked PROVE Stocked'
    <2>1. \A i \in Entries' : orders'[i].qty = Qty
      BY <1>1, <1>2, <1>3, <1>4, <1>7 DEF Stocked
    <2>2. Sells' # {} => BoughtSome'
      BY <1>5, <1>6, <1>7 DEF Stocked
    <2> QED
      BY <2>1, <2>2 DEF Stocked
  <1> QED
    BY <1>5, <1>7 DEF SameBought

\* A handler moves; what it says, and what it saves, is true of the entry.
LEMMA FlatStep ==
    ASSUME TypeInv, FlatInv, SameBought, NEW p \in Procs, NEW j, Go(p, j), JobSays(j),
           Says(row'), row'.status = "CANCELED" => ~BoughtSome
    PROVE  FlatInv'
  <1>1. ASSUME NEW q \in Procs PROVE JobSays(job[q])'
    <2>1. job'[q] = j \/ job'[q] = job[q]
      BY DEF Go, TypeInv, TypeOK
    <2>2. JobSays(job'[q])
      BY <2>1 DEF FlatInv
    <2> QED
      BY <2>2 DEF JobSays, Says, SameBought
  <1> QED
    BY <1>1 DEF FlatInv, Says, SameBought

LEMMA IdleSays == JobSays(Idle)
  BY DEF JobSays, Says, Idle, NoRow

LEMMA FlatFinish ==
    ASSUME TypeInv, FlatInv, SameBought, NEW p \in Procs, Finish(p),
           Says(row'), row'.status = "CANCELED" => ~BoughtSome
    PROVE  FlatInv'
  BY IdleSays, FlatStep DEF Finish

\* A handler goes on without saving.
LEMMA FlatMove ==
    ASSUME TypeInv, FlatInv, SameBought, NEW p \in Procs, NEW j, Go(p, j), JobSays(j), UNCHANGED row
    PROVE  FlatInv'
  BY FlatStep DEF FlatInv

\* A refreshed order that has bought nothing is cancelled, and one that has is sold.
LEMMA FlatRefresh ==
    ASSUME TypeInv, FlatInv, NEW p \in Procs, UNCHANGED orders,
           row' \in Rows, NEW changed, NEW sold \in Int,
           Go(p, Refreshed(job[p], row', changed, sold)),
           Says(row'), row'.status = "CANCELED" => ~BoughtSome,
           row'.status = "ENTRY_OPEN" /\ row'.exec = 0 => ~BoughtSome
    PROVE  FlatInv'
  <1> DEFINE j == Refreshed(job[p], row', changed, sold)
  <1>1. \/ j = Idle
        \/ j.mem = row' /\ \/ /\ j.pc = IF row'.exec = 0 THEN "cancel_entry" ELSE "cancel_partial"
                              /\ row'.status = "ENTRY_OPEN"
                           \/ /\ j.pc \in {"sync", "legs", "sync_legs", "cancel_legs"}
                              /\ row'.status = "POSITION_OPEN"
    BY RefreshedShape, RowFacts
  <1>2. row'.exec \in Nat
    BY DEF Rows
  <1>3. JobSays(j)
    <2>1. CASE j = Idle
      BY <2>1, IdleSays
    <2>2. CASE j # Idle
      <3> HIDE DEF j
      <3> QED
        BY <1>1, <1>2, <2>2 DEF JobSays, Says
    <2> QED
      BY <2>1, <2>2
  <1> QED
    BY <1>3, SameOrdersBought, FlatStep

LEMMA StartFlat ==
    ASSUME LifeInv, FlatInv, NEW p \in Procs, Start(p) PROVE FlatInv'
  <1>1. TypeInv /\ SameBought
    BY SameOrdersBought DEF LifeInv, Start, Tick, SubmitEntry, StartReconcile, StartClose, Adjust
  <1>2. CASE SubmitEntry(p)
    <2> DEFINE j == [Idle EXCEPT !.pc = "entry_post", !.kind = "submit", !.mem = row']
    <2>1. j.mem = row' /\ j.pc = "entry_post" /\ row'.exec = 0 /\ row'.status = "PENDING_SUBMIT"
      BY <1>2 DEF SubmitEntry, Idle, NoRow
    <2>2. Go(p, j)
      BY <1>2 DEF SubmitEntry
    <2> HIDE DEF j
    <2> QED
      BY <1>1, <2>1, <2>2, FlatStep DEF JobSays, Says
  <1>3. ASSUME UNCHANGED row, NEW j, Go(p, j), j.mem = row, j.pc \in {"pending", "sync"}
        PROVE  FlatInv'
    BY <1>1, <1>3, FlatMove DEF JobSays, FlatInv
  <1>4. ASSUME NEW mark, StartReconcile(p, mark) PROVE FlatInv'
    <2> DEFINE pc == IF row.status = "PENDING_SUBMIT" THEN "pending" ELSE "sync"
               j == [Idle EXCEPT !.pc = pc, !.kind = "reconcile", !.mem = row, !.mark = mark]
    <2>1. j.mem = row /\ j.pc \in {"pending", "sync"}
      BY DEF Idle
    <2>2. Go(p, j) /\ UNCHANGED row
      BY <1>4 DEF StartReconcile
    <2> HIDE DEF j
    <2> QED
      BY <1>3, <2>1, <2>2
  <1>5. CASE StartClose(p)
    <2> DEFINE j == [Idle EXCEPT !.pc = "sync", !.kind = "close", !.mem = row]
    <2>1. j.mem = row /\ j.pc = "sync"
      BY DEF Idle
    <2>2. Go(p, j) /\ UNCHANGED row
      BY <1>5 DEF StartClose
    <2> HIDE DEF j
    <2> QED
      BY <1>3, <2>1, <2>2
  <1>6. ASSUME NEW stop, Adjust(p, stop) PROVE FlatInv'
    <2>1. UNCHANGED job /\ row'.status = row.status /\ row'.exec = row.exec
      BY <1>1, <1>6, RowFacts DEF Adjust, Rows
    <2> QED
      BY <1>1, <2>1 DEF FlatInv, JobSays, Says, SameBought
  <1> QED
    BY <1>2, <1>4, <1>5, <1>6 DEF Start, Tick

\* The entry is posted and bound, or found and adopted, or discarded if there is none.
LEMMA SubmitFlat ==
    ASSUME LifeInv, FlatInv, NEW p \in Procs,
           PostEntry(p) \/ BindEntry(p) \/ ResolvePending(p)
    PROVE  FlatInv'
  <1> DEFINE m == job[p].mem
  <1>1. TypeInv /\ m = row /\ row.status = "PENDING_SUBMIT" /\ JobSays(job[p]) /\ m \in Rows
    BY RowFacts DEF LifeInv, PostEntry, BindEntry, ResolvePending, At, StageInv, Stage, FlatInv
  <1>2. CASE PostEntry(p)
    <2> DEFINE j == [job[p] EXCEPT !.pc = "entry_bind", !.ref = Len(orders) + 1]
    <2>1. EntryCid \in Cids /\ orders' = Placed(EntryCid, Qty) /\ Qty \in Nat
      BY <1>2, LadderConstants, SyncConstants DEF PostEntry, EntryCid, Cids, ExitCid
    <2>2. SameBought
      BY <1>1, <2>1, PostBought
    <2>3. j.pc = "entry_bind" /\ j.mem = m
      BY <1>1, RowFacts DEF Jobs
    <2>4. Go(p, j) /\ UNCHANGED row
      BY <1>2 DEF PostEntry
    <2> HIDE DEF j
    <2> QED
      BY <1>1, <2>2, <2>3, <2>4, FlatMove DEF JobSays
  <1>3. CASE BindEntry(p)
    <2>1. job[p].ref \in Entries /\ UNCHANGED orders /\ Finish(p)
      BY <1>3 DEF BindEntry, At, LifeInv, EntryInv, EntryKnown
    <2>2. \/ row' = row
          \/ row'.status = "ENTRY_OPEN" /\ row'.exec = orders[job[p].ref].exec
      BY <1>1, <1>3 DEF BindEntry, Rows
    <2>3. Says(row') /\ (row'.status = "CANCELED" => ~BoughtSome)
      BY <1>1, <2>1, <2>2 DEF Says, BoughtSome, FlatInv
    <2> QED
      BY <1>1, <2>1, <2>3, SameOrdersBought, FlatFinish
  <1>4. CASE ResolvePending(p)
    <2>1. UNCHANGED orders /\ Lookup(NoId, EntryCid) = Entries
      BY <1>4, EntryFound DEF ResolvePending, LifeInv
    <2>2. ASSUME NEW i \in Entries, row' = [m EXCEPT !.status = "ENTRY_OPEN", !.xid = i],
                 Go(p, [job[p] EXCEPT !.pc = "sync", !.kind = "adopt", !.mem = row'])
          PROVE  FlatInv'
      <3> DEFINE j == [job[p] EXCEPT !.pc = "sync", !.kind = "adopt", !.mem = row']
      <3>1. row'.status = "ENTRY_OPEN" /\ row'.exec = m.exec
        BY <1>1, <2>2 DEF Rows
      <3>2. j.pc = "sync" /\ j.mem = row'
        BY <1>1, RowFacts DEF Jobs
      <3>3. Go(p, j)
        BY <2>2
      <3> HIDE DEF j
      <3> QED
        BY <1>1, <2>1, <3>1, <3>2, <3>3, SameOrdersBought, FlatStep DEF JobSays, Says
    <2>3. CASE Finish(p) /\ row' = row
      BY <1>1, <2>1, <2>3, SameOrdersBought, FlatFinish DEF FlatInv
    <2>4. CASE Finish(p) /\ Entries = {} /\ row' = [m EXCEPT !.status = "CANCELED"]
      <3>1. row'.status = "CANCELED" /\ row'.exec = m.exec
        BY <1>1, <2>4 DEF Rows
      <3> QED
        BY <1>1, <2>1, <2>4, <3>1, SameOrdersBought, FlatFinish DEF JobSays, Says, BoughtSome
    <2> QED
      BY <1>1, <1>4, <2>1, <2>2, <2>3, <2>4 DEF ResolvePending
  <1> QED
    BY <1>2, <1>3, <1>4

\* The venue's answer about the one entry is the truth about it.
LEMMA SyncedSays ==
    ASSUME LifeInv, FlatInv, NEW i \in Entries, NEW m \in Rows, Says(m),
           m.status \in OpenStatuses
    PROVE  LET r == SyncedEntry(m, i) IN
           /\ Says(r) /\ (r.status = "CANCELED" => ~BoughtSome)
           /\ (r.exec = 0 => ~BoughtSome)
  <1> DEFINE o == orders[i]
             m2 == [m EXCEPT !.xid = i, !.exStatus = StatusOf(o), !.exec = o.exec]
  <1>1. i \in Nat /\ o \in VenueOrders /\ o.exec \in Nat /\ o.qty = Qty /\ Qty \in Nat \ {0}
    BY OrderOK, VenueCount, SyncAssumption
       DEF LifeInv, VenueOrders, Entries, FlatInv, Stocked, SyncAssumption
  <1>2. BoughtSome <=> o.exec > 0
    BY <1>1 DEF BoughtSome, LifeInv, EntryInv
  <1>3. m2 \in Rows /\ m2.exec = o.exec /\ m2.status = m.status
    BY <1>1, StatusOK DEF Rows
  <1>4. StatusOf(o) = "FILLED" => o.exec = Qty
    BY <1>1 DEF StatusOf
  <1>5. SyncedEntry(m, i) =
          IF m.status # "ENTRY_OPEN" THEN m2
          ELSE IF StatusOf(o) = "FILLED" THEN [m2 EXCEPT !.status = "POSITION_OPEN"]
          ELSE IF StatusOf(o) = "CANCELED" /\ o.exec = 0 THEN [m2 EXCEPT !.status = "CANCELED"]
          ELSE m2
    BY DEF SyncedEntry
  <1> HIDE DEF m2, o
  <1> QED
    BY <1>1, <1>2, <1>3, <1>4, <1>5 DEF Rows, Says, OpenStatuses

LEMMA SyncEntryFlat ==
    ASSUME LifeInv, FlatInv, NEW p \in Procs, SyncEntry(p) PROVE FlatInv'
  <1> DEFINE m == job[p].mem
             found == Lookup(m.xid, EntryCid)
  <1>1. /\ TypeInv /\ UNCHANGED orders /\ m = row /\ row.status \in OpenStatuses
        /\ NoExit(row, exited) /\ row \in Rows /\ Says(row)
    BY RowFacts DEF LifeInv, SyncEntry, At, StageInv, Stage, FlatInv
  <1>2. found = Entries
    BY <1>1, EntryFound DEF LifeInv, EntryInv
  <1>3. \A i \in Entries : LET r == SyncedEntry(m, i) IN
          /\ Says(r) /\ (r.status = "CANCELED" => ~BoughtSome)
          /\ (r.exec = 0 => ~BoughtSome)
    BY <1>1, SyncedSays
  <1>4. row' \in Rows /\ exited \in Int
    BY <1>1, SyncEntryType DEF TypeInv, TypeOK
  <1>5. CASE /\ Entries = {} /\ row' = [m EXCEPT !.exStatus = "UNKNOWN"]
             /\ Go(p, Refreshed(job[p], row', m.exStatus # "UNKNOWN", exited))
    <2>1. row'.status = row.status /\ row'.exec = row.exec
      BY <1>1, <1>5 DEF Rows
    <2>2. ~BoughtSome
      BY <1>5 DEF BoughtSome
    <2> QED
      BY <1>1, <1>4, <1>5, <2>1, <2>2, FlatRefresh DEF Says
  <1>6. ASSUME NEW i \in Entries, row' = SyncedEntry(m, i),
               Go(p, Refreshed(job[p], row', Observed(row') # Observed(m), exited))
        PROVE  FlatInv'
    BY <1>1, <1>3, <1>4, <1>6, FlatRefresh
  <1>7. ASSUME NEW i \in Entries, UNCHANGED row,
               Go(p, [job[p] EXCEPT !.pc = "sync_exit", !.mem = SyncedEntry(m, i),
                                    !.dirty = Observed(SyncedEntry(m, i)) # Observed(m)])
        PROVE  FlatInv'
    <2> DEFINE r == SyncedEntry(m, i)
               d == Observed(r) # Observed(m)
               j == [job[p] EXCEPT !.pc = "sync_exit", !.mem = r, !.dirty = d]
    <2>1. Says(r)
      BY <1>3, <1>7
    <2>2. Go(p, j)
      BY <1>7
    <2> HIDE DEF r, d
    <2>3. j.pc = "sync_exit" /\ j.mem = r
      BY <1>1, RowFacts DEF Jobs
    <2> HIDE DEF j
    <2> QED
      BY <1>1, <1>7, <2>1, <2>2, <2>3, SameOrdersBought, FlatMove DEF JobSays
  <1> QED
    BY <1>2, <1>5, <1>6, <1>7 DEF SyncEntry

LEMMA SyncExitFlat ==
    ASSUME LifeInv, FlatInv, NEW p \in Procs, SyncExit(p) PROVE FlatInv'
  <1> DEFINE m == job[p].mem
  <1>1. TypeInv /\ UNCHANGED orders /\ m.status = "POSITION_OPEN" /\ m \in Rows /\ BoughtSome
    BY RowFacts DEF LifeInv, SyncExit, At, StageInv, Stage, FlatInv, JobSays, Says
  <1>2. row' \in Rows /\ exited' \in Int
    BY <1>1, SyncExitType DEF TypeInv, TypeOK
  <1>3. row'.status \in {"POSITION_OPEN", "CLOSED"}
    <2>1. row' = m \/ \E o : row' = SyncedExit(m, o)
      BY DEF SyncExit
    <2> QED
      BY <1>1, <2>1, SyncedExitShape
  <1>4. PICK changed : Go(p, Refreshed(job[p], row', changed, exited'))
    BY DEF SyncExit
  <1> QED
    BY <1>1, <1>2, <1>3, <1>4, FlatRefresh DEF Says

\* The entry is cancelled without a fill in between: what was said of it still holds.
LEMMA CancelEntryFlat ==
    ASSUME LifeInv, FlatInv, NEW p \in Procs,
           CancelEntry(p) \/ SaveCancelled(p) \/ CancelPartialEntry(p)
    PROVE  FlatInv'
  <1> DEFINE m == job[p].mem
  <1>1. TypeInv /\ m \in Rows /\ JobSays(job[p])
    BY RowFacts DEF LifeInv, FlatInv
  <1>2. CASE CancelEntry(p)
    <2> DEFINE j == [job[p] EXCEPT !.pc = "cancel_saved"]
    <2>1. j.pc = "cancel_saved" /\ j.mem = m
      BY <1>1, RowFacts DEF Jobs
    <2>2. Go(p, j) /\ UNCHANGED row /\ job[p].pc = "cancel_entry"
      BY <1>2 DEF CancelEntry, At
    <2>3. SameBought
      BY <1>1, <1>2, CancelBought DEF CancelEntry
    <2> HIDE DEF j
    <2> QED
      BY <1>1, <2>1, <2>2, <2>3, FlatMove DEF JobSays
  <1>3. CASE SaveCancelled(p)
    <2>1. row'.status = "CANCELED" /\ row'.exec = m.exec
      BY <1>1, <1>3 DEF SaveCancelled, Rows
    <2>2. Finish(p) /\ UNCHANGED orders /\ job[p].pc = "cancel_saved"
      BY <1>3 DEF SaveCancelled, At
    <2> QED
      BY <1>1, <2>1, <2>2, SameOrdersBought, FlatFinish DEF JobSays, Says
  <1>4. CASE CancelPartialEntry(p)
    <2> DEFINE j == [job[p] EXCEPT !.pc = "cancel_legs", !.mem.status = "POSITION_OPEN"]
    <2>1. j.pc = "cancel_legs"
      BY <1>1, RowFacts DEF Jobs
    <2>2. Go(p, j) /\ UNCHANGED row /\ job[p].pc = "cancel_partial"
      BY <1>4 DEF CancelPartialEntry, At
    <2>3. SameBought
      BY <1>1, <1>4, CancelBought DEF CancelPartialEntry
    <2> HIDE DEF j
    <2> QED
      BY <1>1, <2>1, <2>2, <2>3, FlatMove DEF JobSays, Says
  <1> QED
    BY <1>2, <1>3, <1>4

\* From a position on, the entry has bought.
Opened == {"sync_legs", "legs", "leg_post", "leg_bind",
           "cancel_legs", "exit", "exit_post", "exit_bind"}

LEMMA OpenedFlat ==
    ASSUME LifeInv, FlatInv, NEW p \in Procs,
           \/ RefuseSmallLeg(p) \/ AdoptLeg(p) \/ PrepareLeg(p) \/ BindLeg(p)
           \/ PostSell(p) \/ RejectSell(p) \/ SyncLeg(p) \/ FinishLegs(p) \/ CancelLegs(p)
           \/ CloseSoldOut(p) \/ RefuseSmallExit(p) \/ AdoptExit(p) \/ PrepareExit(p) \/ BindExit(p)
    PROVE  FlatInv'
  <1> DEFINE m == job[p].mem
  <1>1. TypeInv /\ m \in Rows /\ job[p].pc \in Opened
    BY RowFacts
       DEF LifeInv, RefuseSmallLeg, AdoptLeg, PrepareLeg, BindLeg, PostSell, RejectSell, SyncLeg,
           FinishLegs, CancelLegs, CloseSoldOut, RefuseSmallExit, AdoptExit, PrepareExit, BindExit,
           At, Opened
  <1>2. m.status = "POSITION_OPEN" /\ BoughtSome
    <2>1. Stage(row, job[p]) /\ JobSays(job[p])
      BY DEF LifeInv, StageInv, FlatInv
    <2>2. m.status = "POSITION_OPEN"
      BY <1>1, <2>1 DEF Opened, Stage
    <2> QED
      BY <2>1, <2>2 DEF JobSays, Says
  <1>3. SameBought
    <2>1. CASE PostSell(p)
      <3>1. job[p].want \in Nat /\ job[p].pc \in {"leg_post", "exit_post"}
        BY <1>1, <2>1, JobFacts DEF PostSell, JobOK
      <3>2. Cid(job[p]) \in Cids /\ Cid(job[p]) # EntryCid
        BY <1>1, <3>1, JobFacts, LadderConstants DEF Cid, Cids, ExitCid, EntryCid, Tiers, JobOK
      <3> QED
        BY <1>1, <1>2, <2>1, <3>1, <3>2, PostBought DEF PostSell
    <2>2. CASE CancelLegs(p)
      BY <1>1, <2>2, CancelBought DEF CancelLegs
    <2>3. CASE UNCHANGED orders
      BY <2>3, SameOrdersBought
    <2> QED
      BY <2>1, <2>2, <2>3
         DEF RefuseSmallLeg, AdoptLeg, PrepareLeg, BindLeg, RejectSell, SyncLeg, FinishLegs,
             CloseSoldOut, RefuseSmallExit, AdoptExit, PrepareExit, BindExit
  <1>4. ASSUME row'.status # "CANCELED", NEW j, Go(p, j), j.pc \in Opened \cup {"idle"}
        PROVE  FlatInv'
    BY <1>1, <1>2, <1>3, <1>4, FlatStep DEF JobSays, Says, Opened
  <1>5. ASSUME row'.status # "CANCELED", Finish(p) PROVE FlatInv'
    BY <1>4, <1>5 DEF Finish, Idle
  <1>6. row.status # "CANCELED"
    BY <1>2 DEF FlatInv
  <1>7. CASE RefuseSmallLeg(p) \/ RejectSell(p) \/ RefuseSmallExit(p)
    BY <1>5, <1>6, <1>7 DEF RefuseSmallLeg, RejectSell, RefuseSmallExit
  <1>8. CASE CloseSoldOut(p) \/ AdoptExit(p) \/ BindExit(p)
    <2>1. row'.status # "CANCELED"
      BY <1>1, <1>2, <1>8 DEF CloseSoldOut, AdoptExit, BindExit, Rows
    <2> QED
      BY <1>5, <1>8, <2>1 DEF CloseSoldOut, AdoptExit, BindExit
  <1>9. CASE AdoptLeg(p) \/ BindLeg(p)
    <2>1. row' \in Rows /\ row'.status # "CANCELED"
      <3>1. \E t, id : row' = [m EXCEPT !.plan = Bound(m.plan, t, id)]
        BY <1>9 DEF AdoptLeg, BindLeg
      <3>2. row'.status # "CANCELED"
        BY <1>1, <1>2, <3>1 DEF Rows
      <3> QED
        BY <1>1, <1>9, <3>2, AdoptLegType, BindLegType DEF TypeInv, TypeOK
    <2>2. PICK next \in Nat, left \in Int :
            Go(p, Placing([job[p] EXCEPT !.mem = row', !.tier = next, !.avail = left]))
      BY <1>1, <1>9, BoundGoes
    <2> DEFINE k == [job[p] EXCEPT !.mem = row', !.tier = next, !.avail = left]
               j == Placing(k)
    <2>3. k \in Jobs /\ Go(p, j)
      BY <1>1, <2>1, <2>2, RowFacts DEF Jobs
    <2> HIDE DEF k
    <2>4. j.pc \in Opened
      BY <2>3, PlacingShape DEF Opened
    <2> HIDE DEF j
    <2> QED
      BY <1>4, <2>1, <2>3, <2>4
  <1>10. CASE PrepareLeg(p)
    <2>1. PICK t, want : Go(p, [job[p] EXCEPT !.pc = "leg_post", !.tier = t, !.want = want])
      BY <1>10 DEF PrepareLeg
    <2> DEFINE j == [job[p] EXCEPT !.pc = "leg_post", !.tier = t, !.want = want]
    <2>2. j.pc \in Opened
      BY <1>1, RowFacts DEF Jobs, Opened
    <2> HIDE DEF j
    <2> QED
      BY <1>4, <1>6, <1>10, <2>1, <2>2 DEF PrepareLeg, j
  <1>11. CASE PostSell(p)
    <2> DEFINE pc == IF job[p].pc = "leg_post" THEN "leg_bind" ELSE "exit_bind"
               j == [job[p] EXCEPT !.pc = pc, !.ref = Len(orders) + 1]
    <2>1. j.pc \in Opened
      BY <1>1, RowFacts DEF Jobs, Opened
    <2>2. Go(p, j) /\ UNCHANGED row
      BY <1>11 DEF PostSell
    <2> HIDE DEF j
    <2> QED
      BY <1>4, <1>6, <2>1, <2>2
  <1>12. CASE PrepareExit(p)
    <2> DEFINE j == [job[p] EXCEPT !.pc = "exit_post", !.want = LotsLeft(p)]
    <2>1. j.pc \in Opened
      BY <1>1, RowFacts DEF Jobs, Opened
    <2>2. Go(p, j) /\ UNCHANGED row
      BY <1>12 DEF PrepareExit
    <2> HIDE DEF j
    <2> QED
      BY <1>4, <1>6, <2>1, <2>2
  <1>13. CASE SyncLeg(p)
    <2>1. PICK plan, t, d : Go(p, [job[p] EXCEPT !.mem.plan = plan, !.tier = t, !.dirty = d])
      BY <1>13 DEF SyncLeg
    <2> DEFINE j == [job[p] EXCEPT !.mem.plan = plan, !.tier = t, !.dirty = d]
    <2>2. j.pc \in Opened
      BY <1>1, RowFacts DEF Jobs
    <2> HIDE DEF j
    <2> QED
      BY <1>4, <1>6, <1>13, <2>1, <2>2 DEF SyncLeg, j
  <1>14. CASE FinishLegs(p)
    <2> DEFINE soldOut == /\ \A t \in Tiers : m.plan.filled[t]
                          /\ RemainingQuantity(m.plan, Held(m)) <= 0
               m2 == IF soldOut THEN [m EXCEPT !.status = "CLOSED"] ELSE m
               stops == m2.status = "POSITION_OPEN" /\ job[p].mark # NoMark
               m3 == IF stops THEN [m2 EXCEPT !.plan = Trailed(m2.plan, job[p].mark)] ELSE m2
               j == [job[p] EXCEPT !.pc = "cancel_legs", !.mem = m3, !.tier = 1, !.dirty = FALSE]
    <2>1. m2 \in Rows /\ m2.status # "CANCELED"
      BY <1>1, <1>2 DEF Rows, Statuses, FinalStatuses
    <2>2. m3.status # "CANCELED"
      <3> HIDE DEF m2, stops
      <3> QED
        BY <2>1 DEF Rows
    <2> HIDE DEF m2, m3, soldOut, stops
    <2>3. j.pc \in Opened
      BY <1>1, RowFacts DEF Jobs, Opened
    <2> HIDE DEF j
    <2>4. CASE row' = (IF job[p].dirty THEN m2 ELSE row) /\ Go(p, j)
      BY <1>4, <1>6, <2>1, <2>3, <2>4
    <2>5. CASE row' = (IF job[p].dirty \/ m3 # m THEN m3 ELSE row) /\ Finish(p)
      BY <1>5, <1>6, <2>2, <2>5
    <2> QED
      BY <1>14, <2>4, <2>5 DEF FinishLegs, m2, m3, soldOut, stops, j
  <1>15. CASE CancelLegs(p)
    <2>1. PICK plan : Go(p, [job[p] EXCEPT !.pc = "exit", !.mem.plan = plan])
      BY <1>15 DEF CancelLegs
    <2> DEFINE j == [job[p] EXCEPT !.pc = "exit", !.mem.plan = plan]
    <2>2. j.pc \in Opened
      BY <1>1, RowFacts DEF Jobs, Opened
    <2> HIDE DEF j
    <2> QED
      BY <1>4, <1>6, <1>15, <2>1, <2>2 DEF CancelLegs, j
  <1> QED
    BY <1>7, <1>8, <1>9, <1>10, <1>11, <1>12, <1>13, <1>14, <1>15

\* While the venue rests, a bid can fill only when no handler counts on it:
\* and then its row is open.
LEMMA FillFlat ==
    ASSUME LifeInv, FlatInv, "race" \notin Faults, NEW i \in DOMAIN orders, Fill(i)
    PROVE  FlatInv'
  <1>1. TypeInv /\ orders[i] \in VenueOrders /\ orders[i].live /\ UNCHANGED <<row, job>>
        /\ \A p \in Procs : job[p].pc = "idle"
    BY OrderOK, VenueCount DEF LifeInv, Fill, Quiet, At
  <1>2. PICK live : orders' = [orders EXCEPT ![i] = [orders[i] EXCEPT !.exec = orders[i].exec + 1,
                                                                     !.live = live]]
    BY <1>1 DEF Fill, VenueOrders
  <1>3. /\ DOMAIN orders' = DOMAIN orders
        /\ \A k \in DOMAIN orders : /\ orders'[k].cid = orders[k].cid
                                    /\ orders'[k].qty = orders[k].qty
                                    /\ orders[k].exec > 0 => orders'[k].exec > 0
                                    /\ k # i => orders'[k] = orders[k]
    BY <1>1, <1>2 DEF VenueOrders
  <1>4. Entries' = Entries /\ Sells' = Sells /\ Entries \subseteq DOMAIN orders
    BY <1>3 DEF Entries, Sells
  <1>5. BoughtSome => BoughtSome'
    BY <1>3, <1>4 DEF BoughtSome
  <1>6. Stocked'
    BY <1>3, <1>4, <1>5 DEF FlatInv, Stocked
  <1>7. ASSUME row.status = "CANCELED" PROVE ~BoughtSome'
    <2>1. ~BoughtSome /\ Sells = {} /\ LiveEntries = {}
      BY <1>7 DEF FlatInv, Stocked, LifeInv, EntryInv, CanStillBuy
    <2>2. i \in LiveEntries
      BY <1>1, <2>1 DEF Sells, LiveEntries
    <2> QED
      BY <2>1, <2>2
  <1> QED
    BY <1>1, <1>5, <1>6, <1>7 DEF FlatInv, JobSays, Says

LEMMA NextFlat ==
    ASSUME LifeInv, FlatInv, "race" \notin Faults, [Next]_vars PROVE FlatInv'
  <1>1. TypeInv
    BY DEF LifeInv
  <1>2. ASSUME SameBought, UNCHANGED <<row, job>> PROVE FlatInv'
    BY <1>2 DEF FlatInv, JobSays, Says, SameBought
  <1>3. ASSUME NEW p \in Procs, Start(p) PROVE FlatInv'
    BY <1>3, StartFlat
  <1>4. ASSUME NEW p \in Procs, Continue(p) PROVE FlatInv'
    BY <1>4, SubmitFlat, SyncEntryFlat, SyncExitFlat, CancelEntryFlat, OpenedFlat DEF Continue
  <1>5. ASSUME NEW p \in Procs, Fail(p) PROVE FlatInv'
    BY <1>1, <1>5, SameOrdersBought, FlatFinish DEF Fail, FlatInv
  <1>6. ASSUME NEW i \in DOMAIN orders, Expire(i) PROVE FlatInv'
    BY <1>1, <1>2, <1>6, CancelBought DEF Expire
  <1>7. CASE GetOlder \/ UNCHANGED vars
    BY <1>2, <1>7, SameOrdersBought DEF GetOlder, vars
  <1> QED
    BY <1>3, <1>4, <1>5, <1>6, <1>7, FillFlat DEF Next, Venue

LEMMA InitFlat == Init => FlatInv
  <1> SUFFICES ASSUME Init PROVE FlatInv
    OBVIOUS
  <1>1. Entries = {} /\ Sells = {} /\ row = NoRow /\ \A p \in Procs : job[p] = Idle
    BY DEF Init, Entries, Sells
  <1>2. Says(NoRow)
    BY DEF Says, NoRow
  <1> QED
    BY <1>1, <1>2, IdleSays DEF FlatInv, Stocked, NoRow

\* A row is cancelled only when its entry can buy no more and has bought nothing,
\* and then nothing was ever sold (reconcile, close_position): with calls that
\* fail, answers that are lost and crashes, so long as the venue does not fill
\* the bid between the query and the cancel.
THEOREM CanceledHolds ==
    ASSUME Unlocked = {}, "race" \notin Faults PROVE Spec => []CanceledIsFlat
  <1>1. LifeInv /\ FlatInv => CanceledIsFlat
    <2> SUFFICES ASSUME LifeInv, FlatInv, row.status = "CANCELED"
                 PROVE  Bought = 0 /\ \A i \in DOMAIN orders : ~orders[i].live
      BY DEF CanceledIsFlat
    <2>1. ~BoughtSome /\ Sells = {} /\ LiveEntries = {} /\ TypeInv
      BY DEF FlatInv, Stocked, LifeInv, EntryInv, CanStillBuy
    <2>2. \A i \in DOMAIN orders : i \in Entries /\ ~orders[i].live
      BY <2>1 DEF Sells, LiveEntries
    <2>3. \A i \in Entries : ExecIn(Entries)[i] = 0
      <3>1. \A i \in Entries : orders[i].exec \in Nat
        BY <2>1, OrderOK, VenueCount DEF Entries, VenueOrders
      <3> QED
        BY <2>1, <3>1 DEF BoughtSome, ExecIn
    <2>4. IsFiniteSet(Entries)
      <3>1. DOMAIN orders = 1..Len(orders) /\ Len(orders) \in Nat
        BY <2>1, VenueCount, LenProperties
      <3>2. IsFiniteSet(DOMAIN orders) /\ Entries \in SUBSET (DOMAIN orders)
        BY <3>1, FS_Interval DEF Entries
      <3> QED
        BY <3>2, FS_Subset
    <2>5. Bought = 0
      BY <2>3, <2>4, LotsAreSum, SumZero DEF Bought
    <2> QED
      BY <2>2, <2>5
  <1>2. Init => LifeInv /\ FlatInv
    BY InitLife, InitFlat
  <1>3. LifeInv /\ FlatInv /\ [Next]_vars => LifeInv' /\ FlatInv'
    BY NextLife, NextFlat
  <1> QED
    BY <1>1, <1>2, <1>3, PTL DEF Spec

=============================================================================
