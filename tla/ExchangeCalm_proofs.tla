-------------------------- MODULE ExchangeCalm_proofs --------------------------
(***************************************************************************)
(* That a position is never oversold, and that a closed row is flat.  Both *)
(* are about four accounts of the same lots: what the entry bought, what   *)
(* the plan has resting or banked, what the table of fills counts, and     *)
(* what the venue's orders have sold.  The accounts agree only while       *)
(* nothing goes wrong between the steps of a handler (Calm): TLC shows     *)
(* each of the faults and the operator's close to break NeverOversold.     *)
(***************************************************************************)
EXTENDS ExchangeLifecycle_proofs

Calm == Unlocked = {} /\ Faults = {} /\ MaxFails = 0 /\ "close" \notin Operator

\* The tiers sell no more than the whole position.  The code does not check it;
\* the configuration it ships with has a runner, so less than the whole.
WholeLadder == SumOf(SizePct, Tiers) <= 100

-----------------------------------------------------------------------------
(* Part 1.  The accounts.                                                  *)

Exits == {i \in DOMAIN orders : orders[i].cid = ExitCid}
Legs == {i \in DOMAIN orders : orders[i].cid \in Tiers}

\* The table has all that the order sold; and the order can sell no more.
Counted(i) == fills[i] = orders[i].exec
Done(i) == ~orders[i].live /\ Counted(i)
LegsDone == \A i \in Legs : Done(i)

\* Each order of S is done or is the one the plan has for its tier.
Knows(plan, S) ==
    \A i \in S : Done(i) \/ (orders[i].cid \in Resting(plan) /\ plan.xid[orders[i].cid] = i)

\* The fills table: it counts sales only, none of them twice, and exited is its sum.
SaleSound(i) ==
    /\ orders[i].exec <= orders[i].qty /\ (orders[i].live => orders[i].exec < orders[i].qty)
    /\ fills[i] <= orders[i].exec

TableInv ==
    /\ exited = SumOf(fills, 1..MaxOrders)
    /\ \A i \in 1..MaxOrders : i \notin Sells => fills[i] = 0
    /\ \A i \in Sells : SaleSound(i)

NoExitStands == \A i \in Exits : ~Active(orders[i])

\* x is the order that sells what the legs have left of a position of `held` lots.
ExitStands(x, held) ==
    /\ x \in Exits /\ LegsDone
    /\ \A i \in Exits \ {x} : ~Active(orders[i])
    /\ exited - fills[x] + orders[x].qty = held
    /\ orders[x].live \/ orders[x].exec \in {0, orders[x].qty}

\* Nothing rests, and the sums of what was bought and sold agree.
Flat == LiveSells = {} /\ SumOf(ExecIn(Entries), Entries) = SumOf(ExecIn(Sells), Sells)

IsPosition(r) == r.status \in {"POSITION_OPEN", "CLOSED"}

RowCalm(r) ==
    /\ Sells # {} => IsPosition(r)
    /\ IsPosition(r) => \A e \in Entries : r.exec = orders[e].exec /\ r.exStatus = StatusOf(orders[e])
    /\ r.exitXid = NoId <=> ~r.exitCid
    /\ r.exitXid # NoId => ExitStands(r.exitXid, r.exec)
    /\ \A i \in Legs : orders[i].qty <= TierQuantity(orders[i].cid, r.exec)
    /\ r.status = "CLOSED" => Flat

\* The row knows every sell that stands, but one whose answer a handler at pc is
\* about to save.
RowKnows(r, exitBinds, legBinds) ==
    /\ r.exitXid = NoId /\ ~exitBinds => NoExitStands
    /\ ~legBinds => Knows(r.plan, Legs)

JobCalm(j, r) ==
    /\ j.pc # "idle" => j.mem.exitXid = r.exitXid /\ j.mem.exitCid = r.exitCid
    /\ j.pc # "idle" /\ IsPosition(r) => j.mem.exec = r.exec /\ j.mem.exStatus = r.exStatus
    /\ j.pc # "cancel_partial"
    /\ j.pc = "sync" /\ j.kind = "close" =>
         r.status = "POSITION_OPEN" /\ r.exitXid = NoId /\ LegsDone
    /\ j.pc = "sync_exit" => j.kind # "close" /\ r.exitXid # NoId /\ j.mem.plan = r.plan
    /\ j.pc \in Opened => r.status = "POSITION_OPEN" /\ r.exitXid = NoId
    /\ j.pc \in {"leg_post", "leg_bind"} => j.tier \in Unplaced(j.mem.plan)
    /\ j.pc = "leg_post" => j.want > 0 /\ j.want <= TierQuantity(j.tier, r.exec)
    /\ j.pc = "leg_bind" => Knows(j.mem.plan, Legs \ {j.ref})
    /\ j.pc \in {"sync_legs", "cancel_legs"} => Knows(j.mem.plan, Legs)
    /\ j.pc = "sync_legs" => \A i \in Legs : Counted(i) \/ orders[i].cid >= j.tier
    /\ j.pc = "cancel_legs" => \A i \in Legs : Counted(i)
    /\ j.pc \in {"exit", "exit_post"} => LegsDone
    /\ j.pc = "exit_post" => j.want > 0 /\ j.want = r.exec - exited
    /\ j.pc = "exit_bind" => ExitStands(j.ref, r.exec)

Binding(pc) == \E p \in Procs : At(p, pc)

CalmInv ==
    /\ TableInv
    /\ RowCalm(row)
    /\ RowKnows(row, Binding("exit_bind"), Binding("leg_bind"))
    /\ \A p \in Procs : JobCalm(job[p], row)

-----------------------------------------------------------------------------
(* Part 2.  Sums.  What a position has sold and offers is one sum over its *)
(* sells: a live one counts with its quantity, a dead one with its sales.  *)

Offer(i) == IF orders[i].live THEN orders[i].qty ELSE orders[i].exec
Offers == [i \in Sells |-> Offer(i)]

LEMMA OrderIs ==
    ASSUME TypeInv
    PROVE  /\ Len(orders) \in Nat /\ DOMAIN orders = 1..Len(orders) /\ DOMAIN orders \subseteq 1..MaxOrders
           /\ fills \in [1..MaxOrders -> Nat]
           /\ \A i \in DOMAIN orders : /\ i \in Nat /\ orders[i] \in VenueOrders /\ orders[i].cid \in Cids
                                       /\ orders[i].qty \in Nat /\ orders[i].exec \in Nat
                                       /\ orders[i].live \in BOOLEAN
  <1>1. Len(orders) \in Nat /\ DOMAIN orders = 1..Len(orders) /\ Len(orders) <= MaxOrders
    BY VenueCount, LenProperties DEF TypeInv
  <1>2. \A i \in DOMAIN orders : i \in Nat /\ orders[i] \in VenueOrders
    BY OrderOK, VenueCount
  <1>3. \A o \in VenueOrders : o.cid \in Cids /\ o.qty \in Nat /\ o.exec \in Nat /\ o.live \in BOOLEAN
    BY DEF VenueOrders
  <1>4. fills \in [1..MaxOrders -> Nat]
    BY DEF TypeInv, TypeOK
  <1>5. DOMAIN orders \subseteq 1..MaxOrders
    BY <1>1, SyncConstants
  <1> QED
    BY <1>1, <1>2, <1>3, <1>4, <1>5

LEMMA FiniteOrders ==
    ASSUME TypeInv, NEW S, S \subseteq DOMAIN orders PROVE IsFiniteSet(S)
  <1>1. IsFiniteSet(DOMAIN orders)
    BY OrderIs, FS_Interval
  <1> QED
    BY <1>1, FS_Subset

LEMMA SellsAre ==
    ASSUME TypeInv
    PROVE  /\ Sells = Exits \cup Legs /\ Exits \cap Legs = {} /\ Sells \subseteq DOMAIN orders
           /\ Legs \subseteq Sells /\ Exits \subseteq Sells /\ LiveSells \subseteq Sells
           /\ Entries \subseteq DOMAIN orders /\ Entries \cap Sells = {}
           /\ DOMAIN orders = Entries \cup Sells
  <1>1. \A c \in Cids : c # EntryCid <=> c = ExitCid \/ c \in Tiers
    BY LadderConstants DEF Cids, EntryCid, ExitCid, Tiers
  <1>2. ExitCid \notin Tiers
    BY LadderConstants DEF ExitCid, Tiers
  <1> QED
    BY <1>1, <1>2, OrderIs DEF Sells, Entries, Exits, Legs, LiveSells

UnsoldIn(S) == [i \in S |-> orders[i].qty - orders[i].exec]

AddingUnsold(g, S) ==
    [s \in SUBSET S |-> IF s = {} THEN 0
                        ELSE LET x == CHOOSE y \in s : TRUE
                             IN  (orders[x].qty - orders[x].exec) + g[s \ {x}]]

LEMMA UnsoldUnfolds ==
    ASSUME NEW S
    PROVE  \E h : /\ Unsold(S) = h[S]
                  /\ (\E g : g = AddingUnsold(g, S)) => h = AddingUnsold(h, S)
  BY DEF Unsold, Lots, MapThenSumSet, MapThenFoldSet, AddingUnsold

LEMMA UnsoldIsSum == ASSUME NEW S, IsFiniteSet(S) PROVE Unsold(S) = SumOf(UnsoldIn(S), S)
  <1> DEFINE f == UnsoldIn(S)
  <1>1. ASSUME NEW g PROVE AddingUnsold(g, S) = Adding(g, f, S)
    BY DEF AddingUnsold, Adding, UnsoldIn
  <1> HIDE DEF f
  <1>2. PICK i : i = Adding(i, f, S)
    BY SumExists DEF SumsOver
  <1>3. PICK h : Unsold(S) = h[S] /\ ((\E g : g = AddingUnsold(g, S)) => h = AddingUnsold(h, S))
    BY UnsoldUnfolds
  <1>4. h = Adding(h, f, S)
    BY <1>1, <1>2, <1>3
  <1>5. SumOf(f, S) = h[S]
    BY <1>4, SumIs DEF SumsOver
  <1> QED
    BY <1>3, <1>5 DEF f

LEMMA OffersSum ==
    ASSUME TypeInv
    PROVE  /\ Sold + Committed = SumOf(Offers, Sells)
           /\ Sold \in Int /\ Committed \in Int
           /\ LiveSells = {} => Committed = 0
  <1> DEFINE S == Sells
             L == LiveSells
             sold == ExecIn(S)
             rest == [i \in S |-> IF i \in L THEN orders[i].qty - orders[i].exec ELSE 0]
  <1>1. IsFiniteSet(S) /\ IsFiniteSet(L) /\ IsFiniteSet(S \ L) /\ L \subseteq S
    BY FiniteOrders, SellsAre, FS_Subset
  <1>2. Sold = SumOf(sold, S) /\ Committed = SumOf(UnsoldIn(L), L)
    BY <1>1, LotsAreSum, UnsoldIsSum DEF Sold, Committed
  <1>3. /\ \A i \in S : sold[i] \in Int /\ rest[i] \in Int /\ Offers[i] = sold[i] + rest[i]
        /\ \A i \in L : UnsoldIn(L)[i] \in Int /\ UnsoldIn(L)[i] = rest[i]
        /\ \A i \in S \ L : rest[i] = 0
    BY OrderIs, SellsAre DEF ExecIn, UnsoldIn, Offers, Offer, LiveSells
  <1>4. L \cap (S \ L) = {} /\ L \cup (S \ L) = S
    BY <1>1
  <1> HIDE DEF S, L, sold, rest
  <1>5. SumOf(UnsoldIn(L), L) = SumOf(rest, L)
    BY <1>1, <1>3, SumSame
  <1>6. SumOf(rest, S) = SumOf(rest, L)
    <2>1. SumOf(rest, S \ L) = 0
      BY <1>1, <1>3, SumZero
    <2>2. SumOf(rest, L \cup (S \ L)) = SumOf(rest, L) + SumOf(rest, S \ L)
      BY <1>1, <1>3, <1>4, SumUnion
    <2>3. \A i \in L : rest[i] \in Int
      BY <1>1, <1>3
    <2>4. SumOf(rest, L) \in Int
      BY <1>1, <2>3, SumInt
    <2> QED
      BY <1>4, <2>1, <2>2, <2>4
  <1>7. SumOf(Offers, S) = SumOf(sold, S) + SumOf(rest, S)
    BY <1>1, <1>3, SumPlus
  <1>8. SumOf(sold, S) \in Int /\ SumOf(rest, S) \in Int
    BY <1>1, <1>3, SumInt
  <1>9. L = {} => SumOf(rest, L) = 0
    BY SumEmpty
  <1> QED
    BY <1>2, <1>5, <1>6, <1>7, <1>8, <1>9 DEF S, L

\* What the table counts is what it counts for sells.
LEMMA TableSum == ASSUME TypeInv, TableInv PROVE exited = SumOf(fills, Sells)
  <1> DEFINE A == 1..MaxOrders
             S == Sells
  <1>1. IsFiniteSet(A) /\ S \subseteq A
    BY SyncConstants, FS_Interval, OrderIs, SellsAre
  <1>2. IsFiniteSet(S) /\ IsFiniteSet(A \ S) /\ S \cap (A \ S) = {} /\ S \cup (A \ S) = A
    BY <1>1, FS_Subset
  <1>3. (\A i \in A : fills[i] \in Int) /\ (\A i \in A \ S : fills[i] = 0)
    BY OrderIs DEF TableInv
  <1>4. exited = SumOf(fills, A)
    BY DEF TableInv
  <1> HIDE DEF A, S
  <1>5. SumOf(fills, S \cup (A \ S)) = SumOf(fills, S) + SumOf(fills, A \ S)
    BY <1>2, <1>3, SumUnion
  <1>6. SumOf(fills, A \ S) = 0
    BY <1>2, <1>3, SumZero
  <1>7. \A i \in S : fills[i] \in Int
    BY <1>1, <1>3
  <1>8. SumOf(fills, S) \in Int
    BY <1>2, <1>7, SumInt
  <1> QED
    BY <1>2, <1>4, <1>5, <1>6, <1>8 DEF S

\* The shares of the tiers, each rounded down to lots, are within the position.
LEMMA TierShares ==
    ASSUME NEW held \in Nat, WholeLadder, NEW share, share = [t \in Tiers |-> TierQuantity(t, held)]
    PROVE  SumOf(share, Tiers) <= held /\ \A t \in Tiers : share[t] \in Nat
  <1>1. IsFiniteSet(Tiers)
    BY LadderConstants, FS_Interval DEF Tiers
  <1>2. ASSUME NEW t \in Tiers
        PROVE  SizePct[t] \in Nat /\ share[t] \in Nat /\ 100 * share[t] <= held * SizePct[t]
    <2>1. SizePct[t] \in Nat /\ held * SizePct[t] \in Nat
      BY LadderConstants
    <2>2. share[t] = (held * SizePct[t]) \div 100
      BY DEF TierQuantity
    <2>3. ASSUME NEW v \in Nat PROVE v \div 100 \in Nat /\ 100 * (v \div 100) <= v
      OBVIOUS
    <2> QED
      BY <2>1, <2>2, <2>3
  <1>3. 100 * SumOf(share, Tiers) <= held * SumOf(SizePct, Tiers)
    BY <1>1, <1>2, SumShares
  <1>4. SumOf(share, Tiers) \in Nat /\ SumOf(SizePct, Tiers) \in Nat
    BY <1>1, <1>2, SumNat
  <1>5. ASSUME NEW a \in Nat, a <= 100 PROVE held * a <= held * 100
    BY <1>5
  <1>6. held * SumOf(SizePct, Tiers) <= held * 100
    BY <1>4, <1>5 DEF WholeLadder
  <1>7. held * SumOf(SizePct, Tiers) \in Nat
    BY <1>4
  <1> QED
    BY <1>2, <1>3, <1>4, <1>6, <1>7

\* Without an exit the tiers are all that is offered, one order of each at most.
LEMMA LegsFit ==
    ASSUME TypeInv, LedgerInv, TableInv, RowCalm(row), WholeLadder, NoExitStands
    PROVE  SumOf(Offers, Sells) <= row.exec
  <1> DEFINE S == Sells
             A == {i \in Legs : Active(orders[i])}
             tier == [i \in A |-> orders[i].cid]
             share == [t \in Tiers |-> TierQuantity(t, row.exec)]
             most == [i \in A |-> share[orders[i].cid]]
             image == {tier[i] : i \in A}
  <1>1. row.exec \in Nat
    BY RowFacts DEF Rows
  <1>2. IsFiniteSet(S) /\ IsFiniteSet(A) /\ IsFiniteSet(S \ A) /\ A \subseteq S
        /\ A \cap (S \ A) = {} /\ A \cup (S \ A) = S
    BY FiniteOrders, SellsAre, FS_Subset
  <1>3. SumOf(share, Tiers) <= row.exec /\ \A t \in Tiers : share[t] \in Nat
    BY <1>1, TierShares
  <1>4. \A i \in S : Offers[i] \in Nat
    BY OrderIs, SellsAre DEF Offers, Offer
  <1>5. ASSUME NEW i \in S \ A PROVE Offers[i] = 0
    <2>1. i \in DOMAIN orders /\ ~Active(orders[i])
      BY SellsAre DEF NoExitStands
    <2>2. ~orders[i].live /\ ~(orders[i].exec > 0) /\ orders[i].exec \in Nat
      BY <2>1, OrderIs DEF Active
    <2> QED
      BY <2>2 DEF Offers, Offer
  <1>6. ASSUME NEW i \in A
        PROVE  Offers[i] <= most[i] /\ most[i] = share[tier[i]] /\ most[i] \in Nat /\ tier[i] \in Tiers
    <2>1. i \in Legs /\ i \in Sells /\ i \in DOMAIN orders /\ orders[i].cid \in Tiers
      BY SellsAre DEF Legs
    <2>2. orders[i].qty <= share[orders[i].cid] /\ orders[i].exec <= orders[i].qty
      BY <2>1 DEF RowCalm, TableInv, SaleSound
    <2>3. share[orders[i].cid] \in Nat
      BY <1>3, <2>1
    <2> QED
      BY <2>1, <2>2, <2>3, OrderIs DEF Offers, Offer
  <1>7. ASSUME NEW i \in A, NEW j \in A, tier[i] = tier[j] PROVE i = j
    <2>1. i \in DOMAIN orders /\ j \in DOMAIN orders /\ orders[i].cid \in Tiers
          /\ orders[i].cid = orders[j].cid /\ Active(orders[i]) /\ Active(orders[j])
      BY <1>7 DEF Legs
    <2>2. i \in Nat /\ j \in Nat
      BY <2>1, OrderIs
    <2>3. ~(i < j) /\ ~(j < i)
      BY <2>1 DEF LedgerInv, OnlyLatestActive
    <2> QED
      BY <2>2, <2>3
  <1>8. image \subseteq Tiers
    BY <1>6
  <1>9. IsFiniteSet(Tiers)
    BY LadderConstants, FS_Interval DEF Tiers
  <1> HIDE DEF S, A, tier, share, most, image
  <1>10. SumOf(Offers, S) = SumOf(Offers, A) + SumOf(Offers, S \ A)
    BY <1>2, <1>4, SumUnion
  <1>11. SumOf(Offers, S \ A) = 0
    BY <1>2, <1>5, SumZero
  <1>12. \A i \in A : Offers[i] \in Int /\ most[i] \in Int
    BY <1>2, <1>4, <1>6
  <1>13. SumOf(Offers, A) <= SumOf(most, A)
    BY <1>2, <1>6, <1>12, SumLe
  <1>14. SumOf(most, A) = SumOf(share, image)
    BY <1>2, <1>6, <1>7, <1>12, SumRenamed DEF image
  <1>15. SumOf(share, image) <= SumOf(share, Tiers)
    BY <1>3, <1>8, <1>9, SumSubset
  <1>16. SumOf(Offers, A) \in Int /\ SumOf(most, A) \in Int /\ SumOf(share, Tiers) \in Nat
    BY <1>2, <1>3, <1>9, <1>12, SumInt, SumNat
  <1>17. SumOf(Offers, S) <= row.exec
    BY <1>1, <1>3, <1>10, <1>11, <1>13, <1>14, <1>15, <1>16
  <1> QED
    BY <1>17 DEF S

\* With an exit the legs are done, so the table has their sales and the exit
\* offers what they left.
LEMMA ExitFits ==
    ASSUME TypeInv, TableInv, NEW x, NEW held \in Nat, ExitStands(x, held)
    PROVE  /\ SumOf(Offers, Sells) <= held
           /\ ~orders[x].live /\ orders[x].exec = orders[x].qty
              => SumOf(Offers, Sells) = held /\ LiveSells = {}
  <1> DEFINE S == Sells
             R == S \ {x}
  <1>1. x \in S /\ x \in DOMAIN orders
    BY SellsAre DEF ExitStands
  <1>2. IsFiniteSet(S) /\ IsFiniteSet(R)
    BY FiniteOrders, SellsAre, FS_Subset
  <1>3. \A i \in S : Offers[i] \in Int /\ fills[i] \in Int
    BY OrderIs, SellsAre DEF Offers, Offer
  <1>4. ASSUME NEW i \in R PROVE Offers[i] = fills[i] /\ ~orders[i].live
    <2>1. i \in DOMAIN orders /\ i \in Sells /\ fills[i] \in Nat /\ orders[i].exec \in Nat
          /\ fills[i] <= orders[i].exec
      BY OrderIs, SellsAre DEF TableInv, SaleSound
    <2>2. CASE i \in Legs
      BY <2>1, <2>2 DEF ExitStands, LegsDone, Done, Counted, Offers, Offer
    <2>3. CASE i \in Exits
      <3>1. ~Active(orders[i])
        BY <2>3 DEF ExitStands
      <3> QED
        BY <2>1, <3>1 DEF Active, Offers, Offer
    <2> QED
      BY <2>2, <2>3, SellsAre
  <1>5. Offers[x] <= orders[x].qty /\ orders[x].qty \in Int /\ (~orders[x].live => Offers[x] = orders[x].exec)
    BY <1>1, OrderIs DEF Offers, Offer, TableInv, SaleSound
  <1>6. exited - fills[x] + orders[x].qty = held
    BY DEF ExitStands
  <1>7. exited = SumOf(fills, S)
    BY TableSum
  <1>8. ~orders[x].live => LiveSells = {}
    BY <1>4 DEF LiveSells
  <1> HIDE DEF S
  <1>9. SumOf(Offers, S) = SumOf(Offers, R) + Offers[x] /\ SumOf(Offers, R) \in Int
    BY <1>1, <1>2, <1>3, SumWithout
  <1>10. SumOf(fills, S) = SumOf(fills, R) + fills[x]
    BY <1>1, <1>2, <1>3, SumWithout
  <1>11. SumOf(Offers, R) = SumOf(fills, R)
    BY <1>2, <1>3, <1>4, SumSame
  <1>12. fills[x] \in Int /\ Offers[x] \in Int
    BY <1>1, <1>3
  <1>13. SumOf(Offers, S) = held - orders[x].qty + Offers[x]
    BY <1>5, <1>6, <1>7, <1>9, <1>10, <1>11, <1>12
  <1>14. SumOf(Offers, S) <= held
    BY <1>5, <1>12, <1>13
  <1>15. ~orders[x].live /\ orders[x].exec = orders[x].qty => SumOf(Offers, S) = held
    BY <1>5, <1>12, <1>13
  <1> QED
    BY <1>8, <1>14, <1>15 DEF S

LEMMA FlatIs == ASSUME TypeInv PROVE Flat <=> LiveSells = {} /\ Bought = Sold
  <1>1. IsFiniteSet(Entries) /\ IsFiniteSet(Sells)
    BY FiniteOrders, SellsAre
  <1> QED
    BY <1>1, LotsAreSum DEF Flat, Bought, Sold

\* The one entry of a position is done, and the row has what it bought.
LEMMA PositionBought ==
    ASSUME LifeInv, FlatInv, RowCalm(row), IsPosition(row)
    PROVE  /\ Bought = row.exec /\ row.exec \in Nat /\ row.exec > 0 /\ Held(row) = row.exec
           /\ Entries # {} /\ \A e \in Entries : Entries = {e}
  <1>1. TypeInv /\ (\A i, k \in Entries : i = k) /\ BoughtSome
    BY DEF LifeInv, EntryInv, FlatInv, Says, IsPosition
  <1>2. PICK e \in Entries : orders[e].exec > 0
    BY <1>1 DEF BoughtSome
  <1>3. Entries = {e} /\ row.exec = orders[e].exec /\ e \in DOMAIN orders
    BY <1>1, <1>2, SellsAre DEF RowCalm
  <1>4. orders[e].exec \in Nat
    BY <1>1, <1>3, OrderIs
  <1>5. Bought = orders[e].exec
    <2> DEFINE f == ExecIn(Entries)
    <2>1. Bought = SumOf(f, Entries) /\ f[e] = orders[e].exec
      BY <1>1, <1>3, FiniteOrders, LotsAreSum DEF Bought, ExecIn
    <2> HIDE DEF f
    <2>2. SumOf(f, {} \cup {e}) = SumOf(f, {}) + f[e]
      BY <1>4, <2>1, FS_EmptySet, SumAdd
    <2>3. Entries = {} \cup {e}
      BY <1>3
    <2> QED
      BY <1>4, <2>1, <2>2, <2>3, SumEmpty
  <1> QED
    BY <1>1, <1>2, <1>3, <1>4, <1>5 DEF Held

\* What a position has sold and offers is within what it bought.
LEMMA PositionFits ==
    ASSUME LifeInv, FlatInv, CalmInv, WholeLadder, IsPosition(row)
    PROVE  SumOf(Offers, Sells) <= row.exec
  <1>1. TypeInv /\ LedgerInv /\ TableInv /\ RowCalm(row) /\ row.exec \in Nat
    BY RowFacts DEF LifeInv, CalmInv, Rows
  <1>2. CASE NoExitStands
    BY <1>1, <1>2, LegsFit
  <1>3. CASE row.exitXid # NoId
    BY <1>1, <1>3, ExitFits DEF RowCalm
  <1>4. CASE row.exitXid = NoId /\ ~NoExitStands
    <2>1. PICK p \in Procs : At(p, "exit_bind")
      BY <1>4 DEF CalmInv, RowKnows, Binding
    <2>2. ExitStands(job[p].ref, row.exec)
      BY <2>1 DEF CalmInv, JobCalm, At
    <2> QED
      BY <1>1, <2>2, ExitFits
  <1> QED
    BY <1>2, <1>3, <1>4

LEMMA CalmNotOversold ==
    ASSUME LifeInv, FlatInv, CalmInv, WholeLadder PROVE NeverOversold
  <1>1. TypeInv
    BY DEF LifeInv
  <1>2. Sold + Committed = SumOf(Offers, Sells)
    BY <1>1, OffersSum
  <1>3. CASE IsPosition(row)
    BY <1>2, <1>3, PositionFits, PositionBought DEF NeverOversold, CalmInv
  <1>4. CASE ~IsPosition(row)
    <2>1. Sells = {}
      BY <1>4 DEF CalmInv, RowCalm
    <2>2. SumOf(Offers, Sells) = 0
      BY <2>1, SumEmpty
    <2>3. Bought \in Nat
      <3>1. IsFiniteSet(Entries) /\ Entries \subseteq DOMAIN orders
        BY <1>1, FiniteOrders, SellsAre
      <3>2. \A i \in Entries : ExecIn(Entries)[i] \in Nat
        BY <1>1, <3>1, OrderIs DEF ExecIn
      <3> QED
        BY <3>1, <3>2, LotsAreSum, SumNat DEF Bought
    <2> QED
      BY <1>2, <2>2, <2>3 DEF NeverOversold
  <1> QED
    BY <1>3, <1>4

\* Three ways to be flat.  The exit has filled:
LEMMA FlatByExit ==
    ASSUME LifeInv, FlatInv, TableInv, RowCalm(row), IsPosition(row),
           NEW x, ExitStands(x, row.exec), ~orders[x].live, orders[x].exec = orders[x].qty
    PROVE  Flat
  <1>1. TypeInv /\ row.exec \in Nat /\ Bought = row.exec
    BY PositionBought DEF LifeInv
  <1>2. SumOf(Offers, Sells) = row.exec /\ LiveSells = {}
    BY <1>1, ExitFits
  <1> QED
    BY <1>1, <1>2, OffersSum, FlatIs

\* nothing rests and the table has as much as was bought:
LEMMA FlatByTable ==
    ASSUME LifeInv, FlatInv, CalmInv, WholeLadder, IsPosition(row),
           LegsDone, NoExitStands, exited >= row.exec
    PROVE  Flat
  <1>1. TypeInv /\ TableInv /\ row.exec \in Nat /\ Bought = row.exec
    BY PositionBought DEF LifeInv, CalmInv
  <1>2. ASSUME NEW i \in Sells PROVE Offers[i] = fills[i] /\ ~orders[i].live /\ fills[i] \in Int
    <2>1. i \in DOMAIN orders /\ i \in Sells /\ fills[i] \in Nat /\ orders[i].exec \in Nat
          /\ fills[i] <= orders[i].exec
      BY <1>1, OrderIs, SellsAre DEF TableInv, SaleSound
    <2>2. CASE i \in Legs
      BY <2>1, <2>2 DEF LegsDone, Done, Counted, Offers, Offer
    <2>3. CASE i \in Exits
      <3>1. ~Active(orders[i])
        BY <2>3 DEF NoExitStands
      <3> QED
        BY <2>1, <3>1 DEF Active, Offers, Offer
    <2> QED
      BY <1>1, <2>2, <2>3, SellsAre
  <1>3. LiveSells = {}
    BY <1>2 DEF LiveSells
  <1>4. SumOf(Offers, Sells) = exited
    <2>1. IsFiniteSet(Sells)
      BY <1>1, FiniteOrders, SellsAre
    <2>2. SumOf(Offers, Sells) = SumOf(fills, Sells)
      BY <1>2, <2>1, SumSame
    <2> QED
      BY <1>1, <2>2, TableSum
  <1>5. exited <= row.exec /\ exited \in Int
    BY <1>1, <1>4, PositionFits, RowFacts
  <1> QED
    BY <1>1, <1>3, <1>4, <1>5, OffersSum, FlatIs

AddingBanked(g, plan, S) ==
    [s \in SUBSET S |-> IF s = {} THEN 0
                        ELSE LET x == CHOOSE y \in s : TRUE
                             IN  (IF plan.filled[x] THEN plan.sold[x] ELSE 0) + g[s \ {x}]]

LEMMA RemainingUnfolds ==
    ASSUME NEW plan, NEW held
    PROVE  \E h : /\ RemainingQuantity(plan, held) = held - h[Tiers]
                  /\ (\E g : g = AddingBanked(g, plan, Tiers)) => h = AddingBanked(h, plan, Tiers)
  <1> DEFINE h == CHOOSE g : g = AddingBanked(g, plan, Tiers)
  <1>1. RemainingQuantity(plan, held) = held - h[Tiers]
    BY Zenon DEF RemainingQuantity, MapThenSumSet, MapThenFoldSet, AddingBanked
  <1>2. (\E g : g = AddingBanked(g, plan, Tiers)) => h = AddingBanked(h, plan, Tiers)
    BY Zenon
  <1> QED
    BY <1>1, <1>2, Zenon

BankedOn(plan) == [t \in Tiers |-> IF plan.filled[t] THEN plan.sold[t] ELSE 0]

LEMMA RemainingIs ==
    ASSUME NEW plan \in Plans, NEW held, \A t \in Tiers : plan.filled[t]
    PROVE  RemainingQuantity(plan, held) = held - SumOf(plan.sold, Tiers)
  <1> DEFINE f == BankedOn(plan)
  <1>0. IsFiniteSet(Tiers)
    BY LadderConstants, FS_Interval DEF Tiers
  <1>1. ASSUME NEW g PROVE AddingBanked(g, plan, Tiers) = Adding(g, f, Tiers)
    BY DEF AddingBanked, Adding, BankedOn
  <1>2. \A t \in Tiers : f[t] \in Int /\ f[t] = plan.sold[t]
    BY DEF BankedOn, Plans
  <1> HIDE DEF f
  <1>3. PICK i : i = Adding(i, f, Tiers)
    BY <1>0, SumExists DEF SumsOver
  <1>4. PICK h : /\ RemainingQuantity(plan, held) = held - h[Tiers]
                 /\ (\E g : g = AddingBanked(g, plan, Tiers)) => h = AddingBanked(h, plan, Tiers)
    BY RemainingUnfolds
  <1>5. h = Adding(h, f, Tiers)
    BY <1>1, <1>3, <1>4
  <1>6. SumOf(f, Tiers) = h[Tiers]
    BY <1>0, <1>5, SumIs DEF SumsOver
  <1>7. SumOf(f, Tiers) = SumOf(plan.sold, Tiers)
    BY <1>0, <1>2, SumSame
  <1> QED
    BY <1>4, <1>6, <1>7

\* or every tier is banked and the plan has as much as was bought.
LEMMA FlatByPlan ==
    ASSUME LifeInv, FlatInv, CalmInv, WholeLadder, IsPosition(row), NoExitStands,
           NEW plan \in Plans, PlanBacked(plan), \A t \in Tiers : plan.filled[t],
           RemainingQuantity(plan, row.exec) <= 0
    PROVE  Flat
  <1> DEFINE S == Sells
             f == ExecIn(S)
             behind(t) == CHOOSE i \in DOMAIN orders :
                            /\ orders[i].cid = t /\ ~orders[i].live
                            /\ orders[i].exec > 0 /\ plan.sold[t] = orders[i].exec
             h == [t \in Tiers |-> behind(t)]
             image == {h[t] : t \in Tiers}
  <1>1. TypeInv /\ LedgerInv /\ row.exec \in Nat /\ Bought = row.exec
    BY PositionBought DEF LifeInv, CalmInv
  <1>2. ASSUME NEW t \in Tiers
        PROVE  /\ h[t] \in DOMAIN orders /\ orders[h[t]].cid = t /\ ~orders[h[t]].live
               /\ orders[h[t]].exec > 0 /\ plan.sold[t] = orders[h[t]].exec /\ h[t] \in S
    <2>1. /\ behind(t) \in DOMAIN orders /\ orders[behind(t)].cid = t /\ ~orders[behind(t)].live
          /\ orders[behind(t)].exec > 0 /\ plan.sold[t] = orders[behind(t)].exec
      BY DEF PlanBacked, Backed
    <2>2. h[t] = behind(t)
      OBVIOUS
    <2> HIDE DEF behind, h
    <2>3. h[t] \in Legs
      BY <2>1, <2>2 DEF Legs
    <2> QED
      BY <1>1, <2>1, <2>2, <2>3, SellsAre
  <1>3. LiveSells = {}
    <2> SUFFICES ASSUME NEW i \in Sells, orders[i].live PROVE FALSE
      BY DEF LiveSells
    <2>1. CASE i \in Exits
      BY <2>1 DEF NoExitStands, Active
    <2>2. CASE i \in Legs
      <3>1. orders[i].cid \in Tiers
        BY <2>2 DEF Legs
      <3>2. PICK t \in Tiers : t = orders[i].cid
        BY <3>1
      <3>3. PICK k \in DOMAIN orders : orders[k].cid = t /\ ~orders[k].live /\ orders[k].exec > 0
        BY <1>2
      <3> QED
        BY <1>1, <3>2, <3>3, BackedAlone
    <2> QED
      BY <1>1, <2>1, <2>2, SellsAre
  <1>4. IsFiniteSet(S) /\ IsFiniteSet(Tiers) /\ image \subseteq S
    <2>1. IsFiniteSet(Tiers)
      BY LadderConstants, FS_Interval DEF Tiers
    <2>2. IsFiniteSet(S)
      BY <1>1, FiniteOrders, SellsAre
    <2> HIDE DEF h, S
    <2>3. image \subseteq S
      BY <1>2
    <2> QED
      BY <2>1, <2>2, <2>3
  <1>5. \A i \in S : f[i] \in Nat
    BY <1>1, OrderIs, SellsAre DEF ExecIn
  <1>6. \A t \in Tiers : plan.sold[t] \in Int /\ plan.sold[t] = f[h[t]]
    BY <1>2 DEF ExecIn, Plans
  <1>7. \A t, u \in Tiers : h[t] = h[u] => t = u
    BY <1>2
  <1>8. Sold = SumOf(f, S)
    BY <1>4, LotsAreSum DEF Sold
  <1>9. SumOf(plan.sold, Tiers) \in Int
    BY <1>4, <1>6, SumInt
  <1>10. row.exec <= SumOf(plan.sold, Tiers)
    BY <1>1, <1>9, RemainingIs
  <1> HIDE DEF S, f, h
  <1>11. SumOf(plan.sold, Tiers) = SumOf(f, image)
    BY <1>4, <1>6, <1>7, SumRenamed
  <1> HIDE DEF image
  <1>12. SumOf(f, image) <= SumOf(f, S)
    BY <1>4, <1>5, SumSubset
  <1>13. row.exec <= Sold
    BY <1>1, <1>8, <1>9, <1>10, <1>11, <1>12, OffersSum
  <1>14. Sold <= row.exec
    BY <1>1, <1>3, OffersSum, PositionFits
  <1> QED
    BY <1>1, <1>3, <1>13, <1>14, OffersSum, FlatIs

-----------------------------------------------------------------------------
(* Part 3.  What a step leaves alone.                                      *)

\* The accounts are read from the orders and the table.
LEMMA SameSets ==
    ASSUME UNCHANGED orders
    PROVE  /\ Entries' = Entries /\ Sells' = Sells /\ Exits' = Exits /\ Legs' = Legs
           /\ LiveSells' = LiveSells
  BY DEF Entries, Sells, Exits, Legs, LiveSells

LEMMA SameDone ==
    ASSUME UNCHANGED <<orders, fills>>, NEW plan, NEW S
    PROVE  /\ LegsDone' <=> LegsDone
           /\ NoExitStands' <=> NoExitStands
           /\ Knows(plan, S)' <=> Knows(plan, S)
  <1>1. Legs' = Legs /\ Exits' = Exits
    BY SameSets
  <1> QED
    BY <1>1 DEF LegsDone, Done, Counted, NoExitStands, Knows

LEMMA SameTable == ASSUME UNCHANGED <<orders, fills, exited>>, TableInv PROVE TableInv'
  <1>1. Sells' = Sells
    BY SameSets
  <1> QED
    BY <1>1 DEF TableInv, SaleSound

LEMMA SameExit ==
    ASSUME UNCHANGED <<orders, fills, exited>>, NEW x, NEW held
    PROVE  ExitStands(x, held)' <=> ExitStands(x, held)
  <1>1. Exits' = Exits /\ (LegsDone' <=> LegsDone)
    BY SameSets, SameDone
  <1> QED
    BY <1>1 DEF ExitStands

LEMMA SameRow ==
    ASSUME UNCHANGED <<orders, fills, exited>>, NEW r, RowCalm(r)
    PROVE  RowCalm(r)'
  <1>1. Sells' = Sells /\ Entries' = Entries /\ Legs' = Legs /\ LiveSells' = LiveSells
    BY SameSets
  <1>2. Flat' <=> Flat
    BY <1>1 DEF Flat, ExecIn
  <1>3. ExitStands(r.exitXid, r.exec)' <=> ExitStands(r.exitXid, r.exec)
    BY SameExit
  <1> QED
    BY <1>1, <1>2, <1>3 DEF RowCalm, StatusOf

LEMMA SameJob ==
    ASSUME UNCHANGED <<orders, fills, exited>>, NEW j, NEW r, JobCalm(j, r)
    PROVE  JobCalm(j, r)'
  <1>1. Legs' = Legs /\ (LegsDone' <=> LegsDone)
    BY SameSets, SameDone
  <1>2. ExitStands(j.ref, r.exec)' <=> ExitStands(j.ref, r.exec)
    BY SameExit
  <1>3. Knows(j.mem.plan, Legs)' <=> Knows(j.mem.plan, Legs)
    BY <1>1 DEF Knows, Done, Counted
  <1>4. Knows(j.mem.plan, Legs \ {j.ref})' <=> Knows(j.mem.plan, Legs \ {j.ref})
    BY <1>1 DEF Knows, Done, Counted
  <1> QED
    BY <1>1, <1>2, <1>3, <1>4 DEF JobCalm, Counted

LEMMA IdleCalm == ASSUME NEW j, j.pc = "idle", NEW r PROVE JobCalm(j, r)
  BY DEF JobCalm, Opened

\* One handler moves; under the lock the others are idle.
LEMMA CalmSettles ==
    ASSUME TypeInv, LedgerInv, NEW p \in Procs, NEW j, Go(p, j), Admitted(p),
           TableInv', RowCalm(row)', JobCalm(j, row)',
           row'.exitXid = NoId /\ j.pc # "exit_bind" => NoExitStands',
           j.pc # "leg_bind" => Knows(row.plan, Legs)'
    PROVE  CalmInv'
  <1>1. \A q \in Procs : q # p => At(q, "idle") /\ job'[q] = job[q]
    BY MutexKept DEF LedgerInv
  <1>2. job'[p] = j
    BY DEF Go, TypeInv, TypeOK
  <1>3. ASSUME NEW q \in Procs PROVE JobCalm(job[q], row)'
    <2>1. CASE q = p
      BY <1>2, <2>1 DEF JobCalm
    <2>2. CASE q # p
      <3>1. job'[q].pc = "idle"
        BY <1>1, <2>2 DEF At
      <3> QED
        BY <3>1 DEF JobCalm, Opened
    <2> QED
      BY <2>1, <2>2
  <1>4. (\E q \in Procs : job'[q].pc = "exit_bind") <=> j.pc = "exit_bind"
    BY <1>1, <1>2 DEF At
  <1>5. (\E q \in Procs : job'[q].pc = "leg_bind") <=> j.pc = "leg_bind"
    BY <1>1, <1>2 DEF At
  <1>6. RowKnows(row, Binding("exit_bind"), Binding("leg_bind"))'
    BY <1>4, <1>5 DEF RowKnows, Binding, At
  <1> QED
    BY <1>3, <1>6 DEF CalmInv

\* The same when nothing moves at the venue and no trade is ingested.
LEMMA CalmStep ==
    ASSUME TypeInv, LedgerInv, TableInv, UNCHANGED <<orders, fills, exited>>,
           NEW p \in Procs, NEW j, Go(p, j), Admitted(p),
           RowCalm(row'), JobCalm(j, row'),
           row'.exitXid = NoId /\ j.pc # "exit_bind" => NoExitStands,
           j.pc # "leg_bind" => Knows(row'.plan, Legs)
    PROVE  CalmInv'
  <1>1. PICK r : r = row'
    OBVIOUS
  <1>2. RowCalm(r)' /\ JobCalm(j, r)' /\ TableInv'
    BY <1>1, SameRow, SameJob, SameTable
  <1>3. RowCalm(row)' /\ JobCalm(j, row)'
    BY <1>1, <1>2 DEF RowCalm, JobCalm
  <1>4. Legs' = Legs /\ (NoExitStands' <=> NoExitStands)
        /\ (Knows(r.plan, Legs)' <=> Knows(r.plan, Legs))
    BY SameSets, SameDone DEF Knows, Done, Counted
  <1>5. j.pc # "leg_bind" => Knows(row.plan, Legs)'
    BY <1>1, <1>4 DEF Knows
  <1> QED
    BY <1>2, <1>3, <1>4, <1>5, CalmSettles

\* Before a handler moves: the row knows all sells but the one it may be saving.
LEMMA RunningKnows ==
    ASSUME LedgerInv, CalmInv, NEW p \in Procs, Admitted(p)
    PROVE  /\ TableInv /\ RowCalm(row) /\ JobCalm(job[p], row)
           /\ row.exitXid = NoId /\ job[p].pc # "exit_bind" => NoExitStands
           /\ job[p].pc # "leg_bind" => Knows(row.plan, Legs)
  <1>1. \A q \in Procs : q # p => At(q, "idle")
    BY DEF LedgerInv, Mutex, Admitted, CanStart
  <1>2. /\ job[p].pc # "exit_bind" => ~Binding("exit_bind")
        /\ job[p].pc # "leg_bind" => ~Binding("leg_bind")
    BY <1>1 DEF Binding, At
  <1> QED
    BY <1>2 DEF CalmInv, RowKnows

\* It goes on without saving.
LEMMA CalmMove ==
    ASSUME TypeInv, LedgerInv, CalmInv, UNCHANGED <<orders, fills, exited, row>>,
           NEW p \in Procs, Admitted(p), job[p].pc \notin {"exit_bind", "leg_bind"},
           NEW j, Go(p, j), JobCalm(j, row)
    PROVE  CalmInv'
  BY RunningKnows, CalmStep

LEMMA IdleIsCalm == ASSUME NEW r PROVE JobCalm(Idle, r)
  BY IdleCalm DEF Idle

\* It stops without saving.
LEMMA CalmQuit ==
    ASSUME TypeInv, LedgerInv, CalmInv, UNCHANGED <<orders, fills, exited, row>>,
           NEW p \in Procs, ~At(p, "idle"), job[p].pc \notin {"exit_bind", "leg_bind"}, Finish(p)
    PROVE  CalmInv'
  BY IdleIsCalm, CalmMove DEF Finish, Admitted

\* It stops, having saved.
LEMMA CalmFinish ==
    ASSUME TypeInv, LedgerInv, TableInv, UNCHANGED <<orders, fills, exited>>,
           NEW p \in Procs, ~At(p, "idle"), Finish(p), RowCalm(row'),
           row'.exitXid = NoId => NoExitStands, Knows(row'.plan, Legs)
    PROVE  CalmInv'
  BY IdleIsCalm, CalmStep DEF Finish, Admitted

\* Nothing is known of no sells.
LEMMA EmptyBooks ==
    ASSUME TypeInv, Sells = {}
    PROVE  /\ Exits = {} /\ Legs = {} /\ LiveSells = {} /\ NoExitStands /\ LegsDone
           /\ \A plan : Knows(plan, Legs)
  BY SellsAre DEF NoExitStands, LegsDone, Knows

\* What is asked of a row is read from these fields of it, and of a plan from these.
LEMMA RowAgrees ==
    ASSUME NEW r, NEW r2, RowCalm(r), r2.status = r.status, r2.exec = r.exec,
           r2.exStatus = r.exStatus, r2.exitXid = r.exitXid, r2.exitCid = r.exitCid
    PROVE  RowCalm(r2)
  BY DEF RowCalm, IsPosition

LEMMA PlanAgrees ==
    ASSUME NEW plan, NEW plan2, plan2.filled = plan.filled, plan2.xid = plan.xid, NEW S
    PROVE  Knows(plan, S) => Knows(plan2, S)
  BY DEF Knows, Resting

\* The operator's adjustment moves the stop and nothing else.
LEMMA AdjustCalm ==
    ASSUME Calm, LifeInv, CalmInv, NEW p \in Procs, NEW stop \in Marks, Adjust(p, stop)
    PROVE  CalmInv'
  <1>1. TypeInv /\ LedgerInv /\ row \in Rows /\ row.plan \in Plans
    BY RowFacts DEF LifeInv
  <1>2. Admitted(p) /\ job[p].pc = "idle" /\ Go(p, job[p]) /\ UNCHANGED <<orders, fills, exited>>
    BY <1>1 DEF Calm, Adjust, CanStart, Admitted, At, Go, TypeInv, TypeOK
  <1>3. /\ row'.status = row.status /\ row'.exec = row.exec /\ row'.exStatus = row.exStatus
        /\ row'.exitXid = row.exitXid /\ row'.exitCid = row.exitCid
        /\ row'.plan.filled = row.plan.filled /\ row'.plan.xid = row.plan.xid
    BY <1>1 DEF Adjust, Rows, Plans
  <1>4. /\ TableInv /\ RowCalm(row) /\ Knows(row.plan, Legs)
        /\ row.exitXid = NoId => NoExitStands
    BY <1>1, <1>2, RunningKnows
  <1>5. RowCalm(row') /\ Knows(row'.plan, Legs) /\ JobCalm(job[p], row')
    BY <1>2, <1>3, <1>4, RowAgrees, PlanAgrees, IdleCalm
  <1> QED
    BY <1>1, <1>2, <1>3, <1>4, <1>5, CalmStep

LEMMA TickCalm ==
    ASSUME Calm, LifeInv, CalmInv, NEW p \in Procs, Tick(p) PROVE CalmInv'
  <1>1. PICK mark : StartReconcile(p, mark)
    BY DEF Tick
  <1> DEFINE pc == IF row.status = "PENDING_SUBMIT" THEN "pending" ELSE "sync"
             j == [Idle EXCEPT !.pc = pc, !.kind = "reconcile", !.mem = row, !.mark = mark]
  <1>2. Go(p, j) /\ pc \in {"pending", "sync"}
    BY <1>1 DEF StartReconcile
  <1> HIDE DEF pc
  <1>3. j.pc = pc /\ j.kind = "reconcile" /\ j.mem = row
    BY DEF Idle
  <1>4. /\ TypeInv /\ LedgerInv /\ Admitted(p) /\ job[p].pc = "idle"
        /\ UNCHANGED <<orders, fills, exited, row>>
    BY DEF LifeInv, Calm, Tick, StartReconcile, CanStart, Admitted, At
  <1> HIDE DEF j
  <1>5. JobCalm(j, row)
    BY <1>2, <1>3 DEF JobCalm, Opened
  <1> QED
    BY <1>2, <1>4, <1>5, CalmMove

\* While nothing has been sold: the steps up to the position.
LEMMA BuyingCalm ==
    ASSUME TypeInv, LedgerInv, CalmInv, Sells = {}, Sells' = {},
           UNCHANGED <<fills, exited>>, NEW p \in Procs, NEW j, Go(p, j), Admitted(p),
           ~IsPosition(row'), row'.exitXid = NoId, row'.exitCid = FALSE,
           j.pc # "idle" => j.mem.exitXid = NoId /\ j.mem.exitCid = FALSE,
           \/ j.pc \in {"idle", "entry_post", "entry_bind", "cancel_entry", "cancel_saved"}
           \/ j.pc = "sync" /\ j.kind # "close"
    PROVE  CalmInv'
  <1>1. TableInv'
    BY DEF CalmInv, TableInv
  <1>2. Legs' = {} /\ NoExitStands' /\ Knows(row.plan, Legs)'
    <2>1. ExitCid # EntryCid /\ \A t \in Tiers : t # EntryCid
      BY LadderConstants DEF ExitCid, EntryCid, Tiers
    <2>2. Exits' = {} /\ Legs' = {}
      BY <2>1 DEF Exits, Legs, Sells, Entries
    <2> QED
      BY <2>2 DEF NoExitStands, Knows
  <1>3. RowCalm(row)'
    BY <1>2 DEF RowCalm, IsPosition
  <1>4. JobCalm(j, row)'
    BY DEF JobCalm, Opened, IsPosition
  <1> QED
    BY <1>1, <1>2, <1>3, <1>4, CalmSettles

LEMMA CancelShape ==
    ASSUME TypeInv, NEW S, orders' = Cancelled(S)
    PROVE  /\ DOMAIN orders' = DOMAIN orders
           /\ \A i \in DOMAIN orders :
                /\ orders'[i].cid = orders[i].cid /\ orders'[i].qty = orders[i].qty
                /\ orders'[i].exec = orders[i].exec
                /\ orders'[i].live <=> orders[i].live /\ i \notin S
  <1>1. /\ DOMAIN orders' = DOMAIN orders
        /\ \A i \in DOMAIN orders :
             /\ orders[i] \in VenueOrders
             /\ orders'[i] = IF i \in S THEN [orders[i] EXCEPT !.live = FALSE] ELSE orders[i]
    BY OrderIs DEF Cancelled
  <1> QED
    BY <1>1 DEF VenueOrders

\* Submitting the entry, adopting it, and cancelling a bid that has bought nothing.
LEMMA EntryStepsCalm ==
    ASSUME Calm, LifeInv, CalmInv, NEW p \in Procs,
           \/ SubmitEntry(p) \/ PostEntry(p) \/ BindEntry(p) \/ ResolvePending(p)
           \/ CancelEntry(p) \/ SaveCancelled(p)
    PROVE  CalmInv'
  <1>1. /\ TypeInv /\ LedgerInv /\ row \in Rows /\ job[p] \in Jobs
        /\ UNCHANGED <<fills, exited>> /\ Admitted(p)
    BY RowFacts DEF LifeInv, Calm, SubmitEntry, PostEntry, BindEntry, ResolvePending, CancelEntry,
                    SaveCancelled, Admitted, At
  <1>2. /\ row.status \in {"NONE", "PENDING_SUBMIT", "ENTRY_OPEN"}
        /\ ~SubmitEntry(p) => job[p].mem = row /\ row.status # "NONE"
    BY DEF LifeInv, StageInv, Stage, At, SubmitEntry, PostEntry, BindEntry, ResolvePending,
           CancelEntry, SaveCancelled
  <1>3. row.exitXid = NoId /\ row.exitCid = FALSE /\ ~IsPosition(row) /\ Sells = {}
    BY <1>1, <1>2 DEF LifeInv, StageInv, NoExit, Unopened, Rows, IsPosition, CalmInv, RowCalm
  <1>4. Sells' = {}
    <2>1. CASE PostEntry(p)
      <3>1. orders' = Placed(EntryCid, Qty) /\ EntryCid \in Cids /\ Qty \in Nat
        BY <2>1, SyncConstants, LadderConstants DEF PostEntry, EntryCid, Cids, ExitCid
      <3>2. /\ DOMAIN orders = 1..Len(orders) /\ DOMAIN orders' = 1..(Len(orders) + 1)
            /\ Len(orders) \in Nat
            /\ \A i \in 1..Len(orders) : orders'[i] = orders[i]
            /\ orders'[Len(orders) + 1] = [cid |-> EntryCid, qty |-> Qty, exec |-> 0, live |-> TRUE]
        BY <1>1, <3>1, PostedShape
      <3>3. orders'[Len(orders) + 1].cid = EntryCid
        BY <3>2
      <3> QED
        BY <1>3, <3>2, <3>3 DEF Sells, Entries
    <2>2. CASE CancelEntry(p)
      <3>1. DOMAIN orders' = DOMAIN orders /\ \A i \in DOMAIN orders : orders'[i].cid = orders[i].cid
        BY <1>1, <2>2, CancelShape DEF CancelEntry
      <3> QED
        BY <1>3, <3>1 DEF Sells, Entries
    <2>3. CASE UNCHANGED orders
      BY <1>3, <2>3, SameSets
    <2> QED
      BY <2>1, <2>2, <2>3 DEF SubmitEntry, BindEntry, ResolvePending, SaveCancelled
  <1>5. ASSUME NEW j, Go(p, j), ~IsPosition(row'), row'.exitXid = NoId, row'.exitCid = FALSE,
               j.pc # "idle" => j.mem.exitXid = NoId /\ j.mem.exitCid = FALSE,
               \/ j.pc \in {"idle", "entry_post", "entry_bind", "cancel_entry", "cancel_saved"}
               \/ j.pc = "sync" /\ j.kind # "close"
        PROVE  CalmInv'
    BY <1>1, <1>3, <1>4, <1>5, BuyingCalm
  <1>6. ASSUME Finish(p), ~IsPosition(row'), row'.exitXid = NoId, row'.exitCid = FALSE PROVE CalmInv'
    BY <1>5, <1>6 DEF Finish, Idle
  <1>7. CASE SubmitEntry(p)
    <2>1. row'.status = "PENDING_SUBMIT" /\ row'.exitXid = NoId /\ row'.exitCid = FALSE
      BY <1>7 DEF SubmitEntry, NoRow
    <2> DEFINE j == [Idle EXCEPT !.pc = "entry_post", !.kind = "submit", !.mem = row']
    <2>2. Go(p, j) /\ j.pc = "entry_post" /\ j.mem = row'
      BY <1>7 DEF SubmitEntry, Idle
    <2> HIDE DEF j
    <2> QED
      BY <1>5, <2>1, <2>2 DEF IsPosition
  <1>8. CASE PostEntry(p)
    <2> DEFINE j == [job[p] EXCEPT !.pc = "entry_bind", !.ref = Len(orders) + 1]
    <2>1. Go(p, j) /\ row' = row
      BY <1>8 DEF PostEntry
    <2>2. j.pc = "entry_bind" /\ j.mem = job[p].mem
      BY <1>1 DEF Jobs
    <2>3. job[p].mem = row
      BY <1>2, <1>8 DEF PostEntry, SubmitEntry, At, CanStart
    <2> HIDE DEF j
    <2> QED
      BY <1>3, <1>5, <2>1, <2>2, <2>3
  <1>9. CASE BindEntry(p)
    <2>1. \/ row' = row
          \/ /\ row'.status = "ENTRY_OPEN" /\ row'.exitXid = job[p].mem.exitXid
             /\ row'.exitCid = job[p].mem.exitCid
      BY <1>1, <1>9 DEF BindEntry, Jobs, Rows
    <2>2. job[p].mem = row /\ Finish(p)
      BY <1>2, <1>9 DEF BindEntry, SubmitEntry, At, CanStart
    <2> QED
      BY <1>3, <1>6, <2>1, <2>2 DEF IsPosition
  <1>10. CASE ResolvePending(p)
    <2>1. job[p].mem = row
      BY <1>2, <1>10 DEF ResolvePending, SubmitEntry, At, CanStart
    <2>2. ASSUME NEW i, row' = [row EXCEPT !.status = "ENTRY_OPEN", !.xid = i],
                 Go(p, [job[p] EXCEPT !.pc = "sync", !.kind = "adopt", !.mem = row'])
          PROVE  CalmInv'
      <3> DEFINE j == [job[p] EXCEPT !.pc = "sync", !.kind = "adopt", !.mem = row']
      <3>1. row'.status = "ENTRY_OPEN" /\ row'.exitXid = row.exitXid /\ row'.exitCid = row.exitCid
        BY <1>1, <2>2 DEF Rows
      <3>2. j.pc = "sync" /\ j.kind = "adopt" /\ j.mem = row' /\ Go(p, j)
        BY <1>1, <2>2 DEF Jobs
      <3> HIDE DEF j
      <3> QED
        BY <1>3, <1>5, <3>1, <3>2 DEF IsPosition
    <2>3. ASSUME Finish(p), row' = row \/ row' = [row EXCEPT !.status = "CANCELED"]
          PROVE  CalmInv'
      <3>1. row'.status \in {row.status, "CANCELED"} /\ row'.exitXid = row.exitXid
            /\ row'.exitCid = row.exitCid
        BY <1>1, <2>3 DEF Rows
      <3> QED
        BY <1>3, <1>6, <2>3, <3>1 DEF IsPosition
    <2> QED
      BY <1>10, <2>1, <2>2, <2>3 DEF ResolvePending
  <1>11. CASE CancelEntry(p)
    <2> DEFINE j == [job[p] EXCEPT !.pc = "cancel_saved"]
    <2>1. Go(p, j) /\ row' = row
      BY <1>11 DEF CancelEntry
    <2>2. j.pc = "cancel_saved" /\ j.mem = job[p].mem
      BY <1>1 DEF Jobs
    <2>3. job[p].mem = row
      BY <1>2, <1>11 DEF CancelEntry, SubmitEntry, At, CanStart
    <2> HIDE DEF j
    <2> QED
      BY <1>3, <1>5, <2>1, <2>2, <2>3
  <1>12. CASE SaveCancelled(p)
    <2>1. job[p].mem = row /\ Finish(p)
      BY <1>2, <1>12 DEF SaveCancelled, SubmitEntry, At, CanStart
    <2>2. row'.status = "CANCELED" /\ row'.exitXid = row.exitXid /\ row'.exitCid = row.exitCid
      BY <1>1, <1>12, <2>1 DEF SaveCancelled, Rows
    <2> QED
      BY <1>3, <1>6, <2>1, <2>2 DEF IsPosition
  <1> QED
    BY <1>7, <1>8, <1>9, <1>10, <1>11, <1>12

LEMMA PlacingCalm ==
    ASSUME NEW j \in Jobs
    PROVE  /\ Placing(j).mem = j.mem
           /\ Placing(j).pc = "legs" \/ (Placing(j).pc = "sync_legs" /\ Placing(j).tier = 1)
  <1> DEFINE rest == [j EXCEPT !.pc = "sync_legs", !.tier = 1, !.avail = 0, !.want = 0, !.ref = NoId]
             go == [j EXCEPT !.pc = "legs"]
  <1>1. rest.tier = 1 /\ rest.pc = "sync_legs" /\ go.pc = "legs"
    BY DEF Jobs
  <1>2. Placing(j) = go \/ Placing(j) = rest
    BY DEF Placing
  <1> HIDE DEF rest, go
  <1> QED
    BY <1>1, <1>2, PlacingShape

\* Where a refreshed order sends its handler, and which handler it was.
LEMMA RefreshedCalm ==
    ASSUME NEW j \in Jobs, NEW m \in Rows, NEW changed, NEW sold \in Int
    PROVE  LET j2 == Refreshed(j, m, changed, sold) IN
           \/ j2 = Idle
           \/ /\ j2.mem = m
              /\ \/ j2.pc = "cancel_entry" /\ m.status = "ENTRY_OPEN"
                 \/ j2.pc = "cancel_partial" /\ j.kind = "close" /\ m.status = "ENTRY_OPEN"
                 \/ j2.pc = "cancel_legs" /\ j.kind = "close" /\ m.status = "POSITION_OPEN"
                 \/ /\ m.status = "POSITION_OPEN" /\ m.exitXid = NoId
                    /\ \/ j2.pc = "sync" /\ j.kind = "reconcile" /\ changed
                       \/ j2.pc = "legs"
                       \/ j2.pc = "sync_legs" /\ j2.tier = 1
  <1> DEFINE armed == [j EXCEPT !.mem = m, !.tier = 1, !.avail = Held(m) - sold]
             a == Placing(armed)
             expired == [j EXCEPT !.pc = "cancel_entry", !.mem = m]
             partly == [j EXCEPT !.pc = "cancel_partial", !.mem = m]
             legs == [j EXCEPT !.pc = "cancel_legs", !.mem = m]
             closing == [j EXCEPT !.pc = "sync", !.kind = "close", !.mem = m]
             next == CASE j.kind = "reconcile" -> Reconciled(j, m, changed, sold)
                       [] j.kind = "close" -> Closing(j, m)
                       [] OTHER -> Idle
             open == m.status = "POSITION_OPEN" /\ m.exitXid = NoId
             fell == changed /\ j.mark # NoMark /\ j.mark < m.plan.stop
  <1>1. armed \in Jobs /\ armed.mem = m
    <2>1. Held(m) - sold \in Int
      BY HeldOK
    <2> QED
      BY <2>1 DEF Jobs
  <1>2. /\ expired.pc = "cancel_entry" /\ expired.mem = m /\ expired \in Jobs
        /\ partly.pc = "cancel_partial" /\ partly.mem = m /\ partly \in Jobs
        /\ legs.pc = "cancel_legs" /\ legs.mem = m /\ legs \in Jobs
        /\ closing.pc = "sync" /\ closing.mem = m /\ closing \in Jobs
    BY DEF Jobs, Points, Kinds
  <1>3. Reconciled(j, m, changed, sold)
            = CASE BidExpired(m) -> expired
                [] open /\ fell -> closing
                [] open /\ ~fell -> a
                [] OTHER -> Idle
    BY DEF Reconciled
  <1>4. Closing(j, m)
            = CASE m.status = "ENTRY_OPEN" /\ m.exec = 0 -> expired
                [] m.status = "ENTRY_OPEN" /\ m.exec > 0 -> partly
                [] m.status = "POSITION_OPEN" -> legs
                [] OTHER -> Idle
    BY DEF Closing
  <1>5. Refreshed(j, m, changed, sold) = IF next.pc = "idle" THEN Idle ELSE [next EXCEPT !.dirty = FALSE]
    BY DEF Refreshed
  <1>6. fell => changed
    OBVIOUS
  <1> HIDE DEF armed, expired, partly, legs, closing, fell
  <1>7. /\ a \in Jobs /\ a.mem = m
        /\ a.pc = "legs" \/ (a.pc = "sync_legs" /\ a.tier = 1)
    BY <1>1, PlacingCalm, PlacingShape
  <1> HIDE DEF a
  <1>8. \/ next = Idle
        \/ next = expired /\ m.status = "ENTRY_OPEN"
        \/ next = partly /\ j.kind = "close" /\ m.status = "ENTRY_OPEN"
        \/ next = legs /\ j.kind = "close" /\ m.status = "POSITION_OPEN"
        \/ next = closing /\ j.kind = "reconcile" /\ changed /\ open
        \/ next = a /\ open
    BY <1>3, <1>4, <1>6 DEF BidExpired
  <1> HIDE DEF next
  <1>9. \A n \in Jobs : /\ [n EXCEPT !.dirty = FALSE].pc = n.pc /\ [n EXCEPT !.dirty = FALSE].mem = n.mem
                        /\ [n EXCEPT !.dirty = FALSE].tier = n.tier
    BY DEF Jobs
  <1>10. Idle.pc = "idle"
    BY DEF Idle
  <1>11. next # Idle => next \in Jobs
    BY <1>2, <1>7, <1>8
  <1>12. next = Idle \/ Refreshed(j, m, changed, sold) = Idle
         \/ LET j2 == Refreshed(j, m, changed, sold) IN
            j2.pc = next.pc /\ j2.mem = next.mem /\ j2.tier = next.tier
    BY <1>5, <1>9, <1>11
  <1> QED
    BY <1>2, <1>5, <1>7, <1>8, <1>10, <1>12

\* A refreshed order is saved, and whoever goes on to close it finds the legs done.
LEMMA CalmRefresh ==
    ASSUME TypeInv, LedgerInv, UNCHANGED orders, NEW p \in Procs, ~At(p, "idle"),
           row' \in Rows, NEW changed, NEW sold \in Int,
           Go(p, Refreshed(job[p], row', changed, sold)),
           TableInv', RowCalm(row)', row'.exitXid = NoId => NoExitStands', Knows(row.plan, Legs)',
           job[p].kind = "close" =>
               row'.status = "POSITION_OPEN" /\ row'.exitXid = NoId /\ LegsDone',
           changed /\ row'.status = "POSITION_OPEN" /\ row'.exitXid = NoId => LegsDone'
    PROVE  CalmInv'
  <1>0. PICK j : j = Refreshed(job[p], row', changed, sold)
    OBVIOUS
  <1>1. \/ j = Idle
        \/ /\ j.mem = row'
           /\ \/ j.pc = "cancel_entry" /\ row'.status = "ENTRY_OPEN"
              \/ j.pc = "cancel_partial" /\ job[p].kind = "close" /\ row'.status = "ENTRY_OPEN"
              \/ j.pc = "cancel_legs" /\ job[p].kind = "close" /\ row'.status = "POSITION_OPEN"
              \/ /\ row'.status = "POSITION_OPEN" /\ row'.exitXid = NoId
                 /\ \/ j.pc = "sync" /\ job[p].kind = "reconcile" /\ changed
                    \/ j.pc = "legs"
                    \/ j.pc = "sync_legs" /\ j.tier = 1
    BY <1>0, RefreshedCalm, RowFacts
  <1>2. Legs' = Legs /\ \A i \in Legs : orders'[i].cid \in Tiers /\ orders'[i].cid >= 1
    BY SameSets DEF Legs, Tiers
  <1>3. Go(p, j)
    BY <1>0
  <1>4. JobCalm(j, row)'
    <2>1. CASE j = Idle
      BY <2>1 DEF JobCalm, Idle, Opened
    <2>2. CASE j.mem = row' /\ j.pc = "cancel_entry"
      BY <2>2 DEF JobCalm, Opened
    <2>3. CASE j.mem = row' /\ j.pc = "cancel_legs" /\ job[p].kind = "close"
      BY <2>3 DEF JobCalm, Opened, LegsDone, Done
    <2>4. CASE j.mem = row' /\ row'.status = "POSITION_OPEN" /\ row'.exitXid = NoId
               /\ j.pc = "sync" /\ changed
      BY <2>4 DEF JobCalm, Opened
    <2>5. CASE j.mem = row' /\ row'.status = "POSITION_OPEN" /\ row'.exitXid = NoId /\ j.pc = "legs"
      BY <2>5 DEF JobCalm, Opened
    <2>6. CASE j.mem = row' /\ row'.status = "POSITION_OPEN" /\ row'.exitXid = NoId
               /\ j.pc = "sync_legs" /\ j.tier = 1
      BY <1>2, <2>6 DEF JobCalm, Opened
    <2> QED
      BY <1>1, <2>1, <2>2, <2>3, <2>4, <2>5, <2>6
  <1>5. j.pc \notin {"exit_bind", "leg_bind"} /\ Admitted(p)
    BY <1>1 DEF Idle, Admitted
  <1> QED
    BY <1>3, <1>4, <1>5, CalmSettles

\* The record after the venue is asked about the entry.
LEMMA SyncedEntryIs ==
    ASSUME TypeInv, NEW i \in DOMAIN orders, NEW m \in Rows
    PROVE  LET r == SyncedEntry(m, i) IN
           /\ r.exec = orders[i].exec /\ r.exStatus = StatusOf(orders[i])
           /\ r.plan = m.plan /\ r.exitXid = m.exitXid /\ r.exitCid = m.exitCid
           /\ m.status # "ENTRY_OPEN" => r.status = m.status
           /\ r.status \in {m.status, "POSITION_OPEN", "CANCELED"}
  <1> DEFINE o == orders[i]
             m2 == [m EXCEPT !.xid = i, !.exStatus = StatusOf(o), !.exec = o.exec]
  <1>1. m2 \in Rows
    BY OrderIs, StatusOK DEF Rows
  <1>2. /\ m2.exec = o.exec /\ m2.exStatus = StatusOf(o) /\ m2.plan = m.plan
        /\ m2.exitXid = m.exitXid /\ m2.exitCid = m.exitCid /\ m2.status = m.status
    BY DEF Rows
  <1>3. SyncedEntry(m, i) =
          IF m.status # "ENTRY_OPEN" THEN m2
          ELSE IF StatusOf(o) = "FILLED" THEN [m2 EXCEPT !.status = "POSITION_OPEN"]
          ELSE IF StatusOf(o) = "CANCELED" /\ o.exec = 0 THEN [m2 EXCEPT !.status = "CANCELED"]
          ELSE m2
    BY DEF SyncedEntry
  <1> HIDE DEF m2
  <1> QED
    BY <1>1, <1>2, <1>3 DEF Rows

LEMMA SyncEntryCalm ==
    ASSUME Calm, LifeInv, FlatInv, CalmInv, NEW p \in Procs, SyncEntry(p) PROVE CalmInv'
  <1> DEFINE m == job[p].mem
             found == Lookup(m.xid, EntryCid)
  <1>1. /\ TypeInv /\ LedgerInv /\ row \in Rows /\ m = row /\ row.status \in OpenStatuses
        /\ UNCHANGED <<orders, fills, exited>> /\ ~At(p, "idle") /\ job[p].pc = "sync"
        /\ exited \in Int /\ (\A e, k \in Entries : e = k) /\ Entries \subseteq DOMAIN orders
        /\ job[p] \in Jobs
    BY RowFacts, SellsAre DEF LifeInv, EntryInv, SyncEntry, At, StageInv, Stage
  <1>2. found = Entries
    BY <1>1, EntryFound DEF LifeInv, EntryInv
  <1>3. /\ TableInv /\ RowCalm(row) /\ JobCalm(job[p], row) /\ Knows(row.plan, Legs)
        /\ row.exitXid = NoId => NoExitStands
    BY <1>1, RunningKnows DEF Admitted
  <1>4. row' \in Rows
    BY <1>1, SyncEntryType DEF TypeInv, TypeOK
  <1>5. ~IsPosition(row) =>
          /\ Sells = {} /\ row.exitXid = NoId /\ row.exitCid = FALSE /\ job[p].kind # "close"
          /\ LegsDone /\ NoExitStands /\ \A plan : Knows(plan, Legs)
    <2>1. ~IsPosition(row) => Sells = {} /\ row.exitXid = NoId /\ row.exitCid = FALSE
                              /\ job[p].kind # "close"
      BY <1>1, <1>3 DEF RowCalm, JobCalm, LifeInv, StageInv, NoExit, Unopened, IsPosition,
                        OpenStatuses, Rows
    <2> QED
      BY <1>1, <2>1, EmptyBooks
  <1>6. IsPosition(row) => Entries # {}
    BY DEF FlatInv, Says, IsPosition, BoughtSome
  \* What is left to show of a saved row.
  <1>7. ASSUME NEW changed, Go(p, Refreshed(job[p], row', changed, exited)), RowCalm(row'),
               row'.exitXid = row.exitXid, row'.plan = row.plan,
               IsPosition(row) => row'.status = row.status /\ ~changed
        PROVE  CalmInv'
    <2>1. PICK r : r = row'
      OBVIOUS
    <2>2. TableInv' /\ RowCalm(r)' /\ (LegsDone' <=> LegsDone) /\ (NoExitStands' <=> NoExitStands)
          /\ Legs' = Legs
      BY <1>1, <1>3, <1>7, <2>1, SameTable, SameRow, SameDone, SameSets
    <2>3. RowCalm(row)' /\ Knows(row.plan, Legs)'
      BY <1>1, <1>3, <1>7, <2>1, <2>2 DEF RowCalm, Knows, Done, Counted
    <2>4. row'.exitXid = NoId => NoExitStands'
      BY <1>3, <1>7, <2>2
    <2>5. job[p].kind = "close" =>
               row'.status = "POSITION_OPEN" /\ row'.exitXid = NoId /\ LegsDone'
      BY <1>1, <1>3, <1>7, <2>2 DEF JobCalm, IsPosition
    <2>6. changed /\ row'.status = "POSITION_OPEN" /\ row'.exitXid = NoId => LegsDone'
      BY <1>5, <1>7, <2>2
    <2> QED
      BY <1>1, <1>4, <1>7, <2>2, <2>3, <2>4, <2>5, <2>6, CalmRefresh
  <1>8. CASE /\ Entries = {} /\ row' = [m EXCEPT !.exStatus = "UNKNOWN"]
             /\ Go(p, Refreshed(job[p], row', m.exStatus # "UNKNOWN", exited))
    <2>1. /\ row'.status = row.status /\ row'.exitXid = row.exitXid /\ row'.plan = row.plan
          /\ row'.exitCid = row.exitCid
      BY <1>1, <1>8 DEF Rows
    <2>2. ~IsPosition(row) /\ Legs = {}
      BY <1>1, <1>5, <1>6, <1>8, EmptyBooks
    <2>3. RowCalm(row')
      BY <1>5, <2>1, <2>2 DEF RowCalm, IsPosition
    <2> QED
      BY <1>7, <1>8, <2>1, <2>2, <2>3
  <1>9. ASSUME NEW i \in Entries
        PROVE  LET r == SyncedEntry(row, i) IN
               /\ RowCalm(r) /\ r.exitXid = row.exitXid /\ r.exitCid = row.exitCid /\ r.plan = row.plan
               /\ IsPosition(row) => /\ r.status = row.status /\ r.exec = row.exec
                                     /\ r.exStatus = row.exStatus
    <2>1. PICK r : r = SyncedEntry(row, i)
      OBVIOUS
    <2>2. /\ r.exec = orders[i].exec /\ r.exStatus = StatusOf(orders[i])
          /\ r.plan = row.plan /\ r.exitXid = row.exitXid /\ r.exitCid = row.exitCid
          /\ row.status # "ENTRY_OPEN" => r.status = row.status
          /\ r.status \in {row.status, "POSITION_OPEN", "CANCELED"}
      BY <1>1, <2>1, SyncedEntryIs
    <2>3. CASE IsPosition(row)
      <3>1. r.status = row.status /\ r.exec = row.exec /\ r.exStatus = row.exStatus
        BY <1>3, <2>2, <2>3 DEF RowCalm, IsPosition
      <3> QED
        BY <1>3, <2>1, <2>2, <3>1, RowAgrees
    <2>4. CASE ~IsPosition(row)
      <3>1. Legs = {} /\ Sells = {}
        BY <1>1, <1>5, <2>4, EmptyBooks
      <3>2. r.status # "CLOSED"
        BY <2>2, <2>4 DEF IsPosition
      <3>3. \A e \in Entries : r.exec = orders[e].exec /\ r.exStatus = StatusOf(orders[e])
        BY <1>1, <2>2
      <3>4. RowCalm(r)
        BY <1>5, <2>2, <2>4, <3>1, <3>2, <3>3 DEF RowCalm
      <3> QED
        BY <2>1, <2>2, <2>4, <3>4
    <2> QED
      BY <2>3, <2>4
  <1>10. ASSUME NEW i \in Entries, row' = SyncedEntry(m, i),
                Go(p, Refreshed(job[p], row', Observed(row') # Observed(m), exited))
         PROVE  CalmInv'
    <2>1. /\ RowCalm(row') /\ row'.exitXid = row.exitXid /\ row'.exitCid = row.exitCid
          /\ row'.plan = row.plan
          /\ IsPosition(row) => row'.status = row.status /\ row'.exec = row.exec
                                /\ row'.exStatus = row.exStatus
      BY <1>1, <1>9, <1>10
    <2>2. PICK changed : changed = (Observed(row') # Observed(m))
      OBVIOUS
    <2>3. IsPosition(row) => ~changed
      BY <1>1, <2>1, <2>2 DEF Observed
    <2>4. Go(p, Refreshed(job[p], row', changed, exited))
      BY <1>10, <2>2
    <2> QED
      BY <1>7, <2>1, <2>3, <2>4
  <1>11. ASSUME NEW i \in Entries, UNCHANGED row, m.exitXid # NoId \/ m.exitCid,
                Go(p, [job[p] EXCEPT !.pc = "sync_exit", !.mem = SyncedEntry(m, i),
                                     !.dirty = Observed(SyncedEntry(m, i)) # Observed(m)])
         PROVE  CalmInv'
    <2> DEFINE r == SyncedEntry(row, i)
               d == Observed(r) # Observed(m)
               j == [job[p] EXCEPT !.pc = "sync_exit", !.mem = r, !.dirty = d]
    <2>1. Go(p, j)
      BY <1>1, <1>11
    <2>2. row.exitXid # NoId /\ IsPosition(row) /\ job[p].kind # "close"
      BY <1>1, <1>3, <1>5, <1>11 DEF RowCalm, JobCalm
    <2>3. /\ r.exitXid = row.exitXid /\ r.exitCid = row.exitCid /\ r.plan = row.plan
          /\ r.exec = row.exec /\ r.exStatus = row.exStatus
      BY <1>9, <1>11, <2>2
    <2> HIDE DEF r, d
    <2>4. j.pc = "sync_exit" /\ j.mem = r /\ j.kind = job[p].kind
      BY <1>1 DEF Jobs
    <2> HIDE DEF j
    <2>5. JobCalm(j, row)
      BY <2>2, <2>3, <2>4 DEF JobCalm, Opened
    <2> QED
      BY <1>1, <1>11, <2>1, <2>5, CalmMove DEF Admitted
  <1> QED
    BY <1>2, <1>8, <1>10, <1>11 DEF SyncEntry

\* The trades of a sell are ingested: its sum in the table is what it has sold.
LEMMA IngestCalm ==
    ASSUME Calm, TypeInv, TableInv, UNCHANGED orders, NEW i \in Sells, Ingest(i)
    PROVE  /\ TableInv' /\ Counted(i)'
           /\ \A k \in DOMAIN orders : Counted(k) => Counted(k)'
           /\ LegsDone => LegsDone'
           /\ NoExitStands' <=> NoExitStands
           /\ \A plan : Knows(plan, Legs) => Knows(plan, Legs)'
           /\ \A held : ExitStands(i, held) => ExitStands(i, held)'
  <1> DEFINE A == 1..MaxOrders
  <1>1. fills' = [fills EXCEPT ![i] = orders[i].exec] /\ exited' = exited + orders[i].exec - fills[i]
    BY DEF Ingest, Calm
  <1>2. /\ i \in DOMAIN orders /\ i \in A /\ DOMAIN orders \subseteq A /\ fills \in [A -> Nat]
        /\ IsFiniteSet(A) /\ orders[i].exec \in Nat /\ exited \in Int
    <2>1. IsFiniteSet(A)
      BY SyncConstants, FS_Interval
    <2> HIDE DEF A
    <2>2. exited \in Int
      BY RowFacts
    <2>3. i \in DOMAIN orders
      BY SellsAre
    <2> QED
      BY <2>1, <2>2, <2>3, OrderIs DEF A
  <1>3. /\ fills'[i] = orders[i].exec /\ fills'[i] \in Int /\ fills[i] \in Int
        /\ \A k \in A : /\ k # i => fills'[k] = fills[k]
                        /\ fills[k] \in Int /\ fills'[k] \in Int
    BY <1>1, <1>2
  <1>4. Sells' = Sells /\ Legs' = Legs /\ Exits' = Exits
    BY SameSets
  <1>5. SumOf(fills', A) = SumOf(fills, A) - fills[i] + fills'[i]
    <2> PICK g : g = fills'
      OBVIOUS
    <2> HIDE DEF A
    <2>1. \A k \in A : g[k] \in Int /\ fills[k] \in Int /\ (k # i => g[k] = fills[k])
      BY <1>3
    <2>2. SumOf(g, A) = SumOf(fills, A) - fills[i] + g[i]
      BY <1>2, <2>1, SumChanged
    <2> QED
      BY <2>2
  <1>6. exited' = SumOf(fills', A)
    <2>1. exited = SumOf(fills, A) /\ SumOf(fills, A) \in Int
      BY <1>2 DEF TableInv
    <2> QED
      BY <1>1, <1>2, <1>3, <1>5, <2>1
  <1>7. TableInv'
    <2>1. \A k \in Sells : SaleSound(k)'
      <3>1. \A k \in Sells : k \in A /\ SaleSound(k)
        BY <1>2, SellsAre DEF TableInv
      <3> QED
        BY <1>2, <1>3, <3>1 DEF SaleSound
    <2> QED
      BY <1>3, <1>4, <1>6, <2>1 DEF TableInv
  <1>8. Counted(i)' /\ \A k \in DOMAIN orders : Counted(k) => Counted(k)'
    BY <1>2, <1>3 DEF Counted
  <1>9. \A k \in DOMAIN orders : Done(k) => Done(k)'
    BY <1>8 DEF Done
  <1>10. Legs \subseteq DOMAIN orders
    BY DEF Legs
  <1>11. (LegsDone => LegsDone') /\ (NoExitStands' <=> NoExitStands)
    BY <1>4, <1>9, <1>10 DEF LegsDone, NoExitStands
  <1>12. \A plan : Knows(plan, Legs) => Knows(plan, Legs)'
    BY <1>4, <1>9, <1>10 DEF Knows
  <1>13. exited' - fills'[i] = exited - fills[i]
    BY <1>1, <1>2, <1>3
  <1>14. \A held : ExitStands(i, held) => ExitStands(i, held)'
    BY <1>4, <1>11, <1>13 DEF ExitStands
  <1> QED
    BY <1>7, <1>8, <1>11, <1>12, <1>14

LEMMA KeptRow ==
    ASSUME UNCHANGED orders, NEW r, RowCalm(r),
           r.exitXid # NoId => ExitStands(r.exitXid, r.exec)'
    PROVE  RowCalm(r)'
  <1>1. Sells' = Sells /\ Entries' = Entries /\ Legs' = Legs /\ LiveSells' = LiveSells
    BY SameSets
  <1>2. Flat' <=> Flat
    BY <1>1 DEF Flat, ExecIn
  <1> QED
    BY <1>1, <1>2 DEF RowCalm, StatusOf

\* The exit is asked about: it has filled and the row is flat, it has died unsold
\* and is forgotten, or it stands.
LEMMA SyncExitCalm ==
    ASSUME Calm, LifeInv, FlatInv, CalmInv, NEW p \in Procs, SyncExit(p) PROVE CalmInv'
  <1> DEFINE m == job[p].mem
  <1>1. /\ TypeInv /\ LedgerInv /\ row \in Rows /\ m \in Rows /\ UNCHANGED orders
        /\ ~At(p, "idle") /\ job[p].pc = "sync_exit"
        /\ m.status = "POSITION_OPEN" /\ row.status = "POSITION_OPEN"
    BY RowFacts DEF LifeInv, SyncExit, At, StageInv, Stage
  <1>2. /\ TableInv /\ RowCalm(row) /\ JobCalm(job[p], row) /\ Knows(row.plan, Legs)
        /\ row.exitXid = NoId => NoExitStands
    BY <1>1, RunningKnows DEF Admitted
  <1>3. PICK x : x = row.exitXid
    OBVIOUS
  <1>4. /\ x # NoId /\ m.exitXid = x /\ m.exitCid = row.exitCid /\ m.plan = row.plan
        /\ m.exec = row.exec /\ m.exStatus = row.exStatus /\ job[p].kind # "close"
        /\ ExitStands(x, row.exec) /\ row.exitCid = TRUE
    BY <1>1, <1>2, <1>3 DEF JobCalm, RowCalm, IsPosition, Rows
  <1>5. x \in Exits /\ x \in Sells /\ x \in DOMAIN orders /\ LegsDone
    BY <1>1, <1>4, SellsAre DEF ExitStands
  <1>6. Ingest(x) /\ row' = SyncedExit(m, orders[x])
    BY <1>3, <1>4 DEF SyncExit, Lookup
  <1>7. PICK changed : Go(p, Refreshed(job[p], row', changed, exited'))
    BY DEF SyncExit
  <1>8. /\ TableInv' /\ LegsDone'
        /\ NoExitStands' <=> NoExitStands
        /\ \A plan : Knows(plan, Legs) => Knows(plan, Legs)'
        /\ \A held : ExitStands(x, held) => ExitStands(x, held)'
    BY <1>1, <1>2, <1>5, <1>6, IngestCalm
  <1>9. PICK r : r = row'
    OBVIOUS
  <1>10. /\ r \in Rows /\ r.plan = row.plan /\ r.exec = row.exec /\ r.exStatus = row.exStatus
         /\ \/ r.status = "CLOSED" /\ r.exitXid = x /\ r.exitCid = TRUE
               /\ StatusOf(orders[x]) = "FILLED"
            \/ r.status = "POSITION_OPEN" /\ r.exitXid = NoId /\ r.exitCid = FALSE
               /\ StatusOf(orders[x]) = "CANCELED"
            \/ r.status = "POSITION_OPEN" /\ r.exitXid = x /\ r.exitCid = TRUE
    BY <1>1, <1>4, <1>6, <1>9 DEF SyncedExit, Rows, Statuses, FinalStatuses, NoId
  <1>11. RowCalm(r) /\ (r.exitXid = NoId => NoExitStands)
    <2>1. CASE r.status = "CLOSED" /\ StatusOf(orders[x]) = "FILLED" /\ r.exitXid = x /\ r.exitCid = TRUE
      <3>1. ~orders[x].live /\ orders[x].exec = orders[x].qty
        BY <2>1 DEF StatusOf
      <3>2. Flat
        BY <1>1, <1>2, <1>4, <3>1, FlatByExit DEF IsPosition
      <3> QED
        BY <1>1, <1>2, <1>4, <1>10, <2>1, <3>2 DEF RowCalm, IsPosition
    <2>2. CASE r.status = "POSITION_OPEN" /\ r.exitXid = NoId /\ r.exitCid = FALSE
               /\ StatusOf(orders[x]) = "CANCELED"
      <3>1. ~orders[x].live /\ orders[x].exec # orders[x].qty
        BY <2>2 DEF StatusOf
      <3>2. ~Active(orders[x])
        BY <1>4, <3>1 DEF ExitStands, Active
      <3>3. NoExitStands
        BY <1>4, <3>2 DEF ExitStands, NoExitStands
      <3> QED
        BY <1>1, <1>2, <1>10, <2>2, <3>3 DEF RowCalm, IsPosition
    <2>3. CASE r.status = "POSITION_OPEN" /\ r.exitXid = x /\ r.exitCid = TRUE
      BY <1>1, <1>2, <1>3, <1>4, <1>10, <2>3, RowAgrees
    <2> QED
      BY <1>10, <2>1, <2>2, <2>3
  <1>12. RowCalm(r)'
    BY <1>1, <1>4, <1>8, <1>10, <1>11, KeptRow
  <1>13. RowCalm(row)' /\ Knows(row.plan, Legs)' /\ (row'.exitXid = NoId => NoExitStands')
    <2>1. PICK plan : plan = row.plan
      OBVIOUS
    <2>2. Knows(plan, Legs)' /\ row'.plan = plan
      BY <1>2, <1>8, <1>9, <1>10, <2>1
    <2> QED
      BY <1>8, <1>9, <1>11, <1>12, <2>2 DEF RowCalm, Knows
  <1>14. row' \in Rows /\ exited' \in Int
    BY <1>1, SyncExitType DEF TypeInv, TypeOK
  <1> QED
    BY <1>1, <1>4, <1>7, <1>8, <1>13, <1>14, CalmRefresh

-----------------------------------------------------------------------------
(* Part 4.  The steps that rest the legs, confirm them and sell out.       *)

LEMMA OpenedIs ==
    ASSUME LifeInv, FlatInv, CalmInv, NEW p \in Procs, job[p].pc \in Opened
    PROVE  /\ TypeInv /\ LedgerInv /\ TableInv /\ RowCalm(row) /\ JobCalm(job[p], row)
           /\ row \in Rows /\ job[p] \in Jobs /\ job[p].mem \in Rows
           /\ row.plan \in Plans /\ job[p].mem.plan \in Plans
           /\ ~At(p, "idle") /\ Admitted(p) /\ IsPosition(row)
           /\ row.status = "POSITION_OPEN" /\ row.exitXid = NoId /\ row.exitCid = FALSE
           /\ job[p].mem.exitXid = NoId /\ job[p].mem.exitCid = FALSE
           /\ job[p].mem.status = "POSITION_OPEN"
           /\ job[p].mem.exec = row.exec /\ job[p].mem.exStatus = row.exStatus
           /\ row.exec \in Nat /\ row.exec > 0 /\ Held(job[p].mem) = row.exec
           /\ job[p].pc \in {"legs", "leg_post", "leg_bind"} => job[p].mem = row
           /\ job[p].pc # "exit_bind" => NoExitStands
           /\ job[p].pc # "leg_bind" => Knows(row.plan, Legs)
  <1>1. /\ TypeInv /\ LedgerInv /\ row \in Rows /\ job[p] \in Jobs /\ job[p].mem \in Rows
        /\ row.plan \in Plans /\ job[p].mem.plan \in Plans
        /\ ~At(p, "idle") /\ Admitted(p)
    BY RowFacts DEF LifeInv, Opened, At, Admitted
  <1>2. TableInv /\ RowCalm(row) /\ JobCalm(job[p], row)
    BY <1>1, RunningKnows
  <1>3. row.status = "POSITION_OPEN" /\ row.exitXid = NoId
    BY <1>2 DEF JobCalm
  <1>4. IsPosition(row) /\ job[p].pc # "idle"
    BY <1>3 DEF IsPosition, Opened
  <1>5. row.exitCid = FALSE
    BY <1>1, <1>2, <1>3 DEF RowCalm, Rows
  <1>6. /\ job[p].mem.exitXid = NoId /\ job[p].mem.exitCid = FALSE
        /\ job[p].mem.exec = row.exec /\ job[p].mem.exStatus = row.exStatus
    BY <1>2, <1>3, <1>4, <1>5 DEF JobCalm
  <1>7. row.exec \in Nat /\ row.exec > 0 /\ Held(job[p].mem) = row.exec
    BY <1>2, <1>4, <1>6, PositionBought DEF Held
  <1>8. /\ job[p].mem.status = "POSITION_OPEN"
        /\ job[p].pc \in {"legs", "leg_post", "leg_bind"} => job[p].mem = row
    BY <1>3 DEF LifeInv, StageInv, Stage, Opened
  <1> QED
    BY <1>1, <1>2, <1>3, <1>4, <1>5, <1>6, <1>7, <1>8, RunningKnows

LEMMA RefusedCalm ==
    ASSUME LifeInv, FlatInv, CalmInv, NEW p \in Procs,
           RefuseSmallLeg(p) \/ RejectSell(p) \/ RefuseSmallExit(p)
    PROVE  CalmInv'
  <1>1. /\ job[p].pc \in Opened /\ job[p].pc \notin {"exit_bind", "leg_bind"}
        /\ UNCHANGED <<orders, fills, exited, row>> /\ Finish(p)
    BY DEF RefuseSmallLeg, RejectSell, RefuseSmallExit, At, Opened
  <1> QED
    BY <1>1, OpenedIs, CalmQuit

\* A leg is prepared for no more than its tier's share.
LEMMA PrepareLegCalm ==
    ASSUME LifeInv, FlatInv, CalmInv, NEW p \in Procs, PrepareLeg(p) PROVE CalmInv'
  <1>1. /\ job[p].pc \in Opened /\ job[p].pc = "legs" /\ UNCHANGED <<orders, fills, exited, row>>
    BY DEF PrepareLeg, At, Opened
  <1>2. PICK t \in Tiers :
          /\ t \in Unplaced(job[p].mem.plan) /\ LegQuantity(job[p], t) >= MinQty
          /\ Go(p, [job[p] EXCEPT !.pc = "leg_post", !.tier = t, !.want = LegQuantity(job[p], t)])
    BY DEF PrepareLeg, NextUnplaced
  <1>3. PICK want : want = LegQuantity(job[p], t)
    OBVIOUS
  <1>4. want > 0 /\ want <= TierQuantity(t, row.exec)
    <2>1. want \in Int /\ job[p].avail \in Int
      BY <1>1, <1>3, OpenedIs, LegQuantityOK DEF Jobs
    <2>2. Held(job[p].mem) = row.exec /\ row.exec \in Nat
      BY <1>1, OpenedIs
    <2>3. TierQuantity(t, row.exec) \in Int
      <3>1. row.exec * SizePct[t] \in Int
        BY <2>2, LadderConstants
      <3> QED
        BY <3>1 DEF TierQuantity
    <2> QED
      BY <1>2, <1>3, <2>1, <2>2, <2>3, SyncConstants DEF LegQuantity
  <1> DEFINE j == [job[p] EXCEPT !.pc = "leg_post", !.tier = t, !.want = want]
  <1>5. Go(p, j)
    BY <1>2, <1>3
  <1>6. j.pc = "leg_post" /\ j.tier = t /\ j.want = want /\ j.mem = job[p].mem
    BY <1>1, OpenedIs DEF Jobs
  <1> HIDE DEF j
  <1>7. JobCalm(j, row)
    BY <1>1, <1>2, <1>4, <1>6, OpenedIs DEF JobCalm, Opened
  <1> QED
    BY <1>1, <1>5, <1>7, OpenedIs, CalmMove

\* Binding a free leg loses no order that the plan knows.
LEMMA KnowsBound ==
    ASSUME NEW plan \in Plans, NEW t \in Unplaced(plan), NEW id \in Nat, NEW S, Knows(plan, S)
    PROVE  Knows(Bound(plan, t, id), S)
  <1> DEFINE plan2 == Bound(plan, t, id)
  <1>1. /\ t \in Tiers /\ t \notin Resting(plan)
        /\ \A u \in Tiers : u # t => plan2.filled[u] = plan.filled[u] /\ plan2.xid[u] = plan.xid[u]
    BY DEF Unplaced, Resting, Bound, Plans
  <1> HIDE DEF plan2
  <1>2. \A u \in Resting(plan) : u \in Resting(plan2) /\ plan2.xid[u] = plan.xid[u]
    BY <1>1 DEF Resting
  <1>3. Knows(plan2, S)
    BY <1>2 DEF Knows
  <1> QED
    BY <1>3 DEF plan2

\* A leg is bound and the handler goes on to the next.
LEMMA BoundCalm ==
    ASSUME LifeInv, FlatInv, CalmInv, NEW p \in Procs, job[p].pc \in {"legs", "leg_bind"},
           AdoptLeg(p) \/ BindLeg(p),
           NEW t, NEW id, row' = [row EXCEPT !.plan = Bound(row.plan, t, id)],
           Knows(Bound(row.plan, t, id), Legs)
    PROVE  CalmInv'
  <1>1. job[p].pc \in Opened /\ job[p].pc # "exit_bind" /\ UNCHANGED <<orders, fills, exited>>
    BY DEF AdoptLeg, BindLeg, Opened
  <1>2. /\ row'.status = row.status /\ row'.exec = row.exec /\ row'.exStatus = row.exStatus
        /\ row'.exitXid = row.exitXid /\ row'.exitCid = row.exitCid
        /\ row'.plan = Bound(row.plan, t, id)
    BY <1>1, OpenedIs DEF Rows
  <1>3. row' \in Rows
    BY <1>1, OpenedIs, AdoptLegType, BindLegType DEF TypeInv, TypeOK
  <1>4. PICK next \in Nat, left \in Int :
          Go(p, Placing([job[p] EXCEPT !.mem = row', !.tier = next, !.avail = left]))
    BY <1>1, OpenedIs, BoundGoes
  <1> DEFINE k == [job[p] EXCEPT !.mem = row', !.tier = next, !.avail = left]
             j == Placing(k)
  <1>5. k \in Jobs /\ k.mem = row' /\ Go(p, j)
    BY <1>1, <1>3, <1>4, OpenedIs DEF Jobs
  <1> HIDE DEF k
  <1>6. j.mem = row' /\ (j.pc = "legs" \/ (j.pc = "sync_legs" /\ j.tier = 1))
    BY <1>5, PlacingCalm
  <1> HIDE DEF j
  <1>7. \A i \in Legs : orders[i].cid >= 1
    BY DEF Legs, Tiers
  <1>8. RowCalm(row')
    BY <1>1, <1>2, OpenedIs, RowAgrees
  <1>9. JobCalm(j, row')
    BY <1>1, <1>2, <1>6, <1>7, OpenedIs DEF JobCalm, Opened
  <1> QED
    BY <1>1, <1>2, <1>5, <1>8, <1>9, OpenedIs, CalmStep

LEMMA AdoptLegCalm ==
    ASSUME LifeInv, FlatInv, CalmInv, NEW p \in Procs, AdoptLeg(p) PROVE CalmInv'
  <1>1. job[p].pc \in Opened /\ job[p].pc = "legs"
    BY DEF AdoptLeg, At, Opened
  <1>2. PICK t \in Tiers, i \in DOMAIN orders :
          /\ t \in Unplaced(job[p].mem.plan)
          /\ row' = [job[p].mem EXCEPT !.plan = Bound(job[p].mem.plan, t, i)]
    BY DEF AdoptLeg, NextUnplaced
  <1>3. job[p].mem = row /\ row.plan \in Plans /\ Knows(row.plan, Legs) /\ i \in Nat
    BY <1>1, OpenedIs, OrderIs
  <1>4. Knows(Bound(row.plan, t, i), Legs)
    BY <1>2, <1>3, KnowsBound
  <1> QED
    BY <1>1, <1>2, <1>3, <1>4, BoundCalm

LEMMA BindLegCalm ==
    ASSUME Calm, LifeInv, FlatInv, AnswerInv, CalmInv, NEW p \in Procs, BindLeg(p) PROVE CalmInv'
  <1>1. job[p].pc \in Opened /\ job[p].pc = "leg_bind"
    BY DEF BindLeg, At, Opened
  <1>2. PICK t, i : t = job[p].tier /\ i = job[p].ref
    OBVIOUS
  <1>3. /\ t \in Tiers /\ i \in DOMAIN orders /\ orders[i].cid = t /\ i \in Nat /\ i # NoId
        /\ job[p].mem = row /\ row.plan \in Plans /\ t \in Unplaced(row.plan)
        /\ Knows(row.plan, Legs \ {i})
    <2>1. t \in Tiers /\ i \in DOMAIN orders /\ orders[i].cid = t
      BY <1>1, <1>2 DEF AnswerInv, At
    <2>2. i \in Nat /\ i # NoId
      BY <1>1, <2>1, OpenedIs, OrderIs DEF NoId
    <2>3. job[p].mem = row /\ row.plan \in Plans /\ JobCalm(job[p], row)
      BY <1>1, OpenedIs
    <2> QED
      BY <1>1, <1>2, <2>1, <2>2, <2>3 DEF JobCalm
  <1>4. row' = [row EXCEPT !.plan = Bound(row.plan, t, i)]
    BY <1>2, <1>3 DEF BindLeg, AnsweredIds, Calm
  <1>5. Knows(Bound(row.plan, t, i), Legs)
    <2> DEFINE plan == Bound(row.plan, t, i)
    <2>1. Knows(plan, Legs \ {i})
      BY <1>3, KnowsBound
    <2>2. t \in Resting(plan) /\ plan.xid[t] = i
      BY <1>3 DEF Bound, Resting, Unplaced, Plans, NoId
    <2> HIDE DEF plan
    <2>3. Knows(plan, Legs)
      BY <1>3, <2>1, <2>2 DEF Knows
    <2> QED
      BY <2>3 DEF plan
  <1> QED
    BY <1>1, <1>4, <1>5, BoundCalm

\* A sell is posted: the books have one order more, which has sold nothing.
LEMMA PostedBooks ==
    ASSUME TypeInv, TableInv, RowCalm(row), UNCHANGED <<row, fills, exited>>, IsPosition(row),
           NEW cid \in Cids, cid # EntryCid, NEW want \in Nat, want > 0,
           Len(orders) < MaxOrders, orders' = Placed(cid, want),
           row.exitXid = NoId, row.status # "CLOSED",
           cid \in Tiers => want <= TierQuantity(cid, row.exec),
           NEW n, n = Len(orders) + 1
    PROVE  /\ TableInv' /\ RowCalm(row)' /\ n \in Nat
           /\ DOMAIN orders' = DOMAIN orders \cup {n} /\ n \notin DOMAIN orders
           /\ \A i \in DOMAIN orders : orders'[i] = orders[i]
           /\ orders'[n] = [cid |-> cid, qty |-> want, exec |-> 0, live |-> TRUE]
           /\ Legs' = (IF cid \in Tiers THEN Legs \cup {n} ELSE Legs)
           /\ Exits' = (IF cid = ExitCid THEN Exits \cup {n} ELSE Exits)
           /\ fills[n] = 0 /\ Legs \subseteq DOMAIN orders /\ Exits \subseteq DOMAIN orders
  <1> DEFINE o == [cid |-> cid, qty |-> want, exec |-> 0, live |-> TRUE]
  <1>1. /\ n \in Nat /\ n \notin DOMAIN orders /\ DOMAIN orders' = DOMAIN orders \cup {n}
        /\ \A i \in DOMAIN orders : orders'[i] = orders[i]
        /\ orders'[n] = o
    <2>1. /\ Len(orders) \in Nat /\ DOMAIN orders = 1..Len(orders)
          /\ DOMAIN orders' = 1..(Len(orders) + 1)
          /\ \A i \in 1..Len(orders) : orders'[i] = orders[i]
          /\ orders'[Len(orders) + 1] = o
      BY PostedShape
    <2> HIDE DEF o
    <2>2. PICK k : k = Len(orders)
      OBVIOUS
    <2>3. k \in Nat /\ n = k + 1 /\ DOMAIN orders = 1..k /\ DOMAIN orders' = 1..(k + 1)
      BY <2>1, <2>2
    <2> QED
      BY <2>1, <2>2, <2>3
  <1>2. o.cid = cid /\ o.qty = want /\ o.exec = 0 /\ o.live = TRUE
    OBVIOUS
  <1> HIDE DEF o
  <1>3. ExitCid \notin Tiers
    BY LadderConstants DEF ExitCid, Tiers
  <1>4. /\ Entries' = Entries /\ Sells' = Sells \cup {n}
        /\ Legs' = (IF cid \in Tiers THEN Legs \cup {n} ELSE Legs)
        /\ Exits' = (IF cid = ExitCid THEN Exits \cup {n} ELSE Exits)
        /\ Entries \subseteq DOMAIN orders /\ Sells \subseteq DOMAIN orders
        /\ Legs \subseteq DOMAIN orders /\ Exits \subseteq DOMAIN orders
    BY <1>1, <1>2, <1>3 DEF Entries, Sells, Legs, Exits
  <1>5. n \in 1..MaxOrders /\ n \notin Sells
    BY <1>1, <1>4, SyncConstants, OrderIs
  <1>6. fills[n] = 0
    BY <1>5 DEF TableInv
  <1>7. \A i \in Sells' : SaleSound(i)'
    <2>1. \A i \in Sells : SaleSound(i) /\ orders'[i] = orders[i]
      BY <1>1, <1>4 DEF TableInv
    <2> QED
      BY <1>1, <1>2, <1>4, <1>6, <2>1 DEF SaleSound
  <1>8. TableInv'
    BY <1>4, <1>7 DEF TableInv
  <1>9. RowCalm(row)'
    <2>1. \A i \in Legs' : orders'[i].qty <= TierQuantity(orders'[i].cid, row.exec)
      BY <1>1, <1>2, <1>4 DEF RowCalm
    <2>2. \A e \in Entries : orders'[e] = orders[e]
      BY <1>1, <1>4
    <2> QED
      BY <1>4, <2>1, <2>2 DEF RowCalm, IsPosition, StatusOf
  <1> QED
    BY <1>1, <1>4, <1>6, <1>8, <1>9 DEF o

LEMMA PostSellCalm ==
    ASSUME LifeInv, FlatInv, CalmInv, NEW p \in Procs, PostSell(p) PROVE CalmInv'
  <1>1. job[p].pc \in Opened /\ job[p].pc \in {"leg_post", "exit_post"}
    BY DEF PostSell, Opened
  <1>2. PICK cid, want, n : cid = Cid(job[p]) /\ want = job[p].want /\ n = Len(orders) + 1
    OBVIOUS
  <1>3. /\ cid \in Cids /\ cid # EntryCid /\ want \in Nat /\ want > 0
        /\ cid \in Tiers => want <= TierQuantity(cid, row.exec)
        /\ job[p].pc = "leg_post" => cid \in Tiers /\ cid = job[p].tier
        /\ job[p].pc = "exit_post" => cid = ExitCid
        /\ ExitCid \notin Tiers
    <2>1. TypeInv /\ JobOK(job[p], Len(orders)) /\ JobCalm(job[p], row)
      BY <1>1, OpenedIs, JobFacts
    <2>2. /\ job[p].pc = "leg_post" => cid = job[p].tier /\ cid \in Tiers
          /\ job[p].pc = "exit_post" => cid = ExitCid
          /\ ExitCid \notin Tiers
      BY <1>1, <1>2, <2>1, LadderConstants DEF Cid, JobOK, ExitCid, Tiers
    <2>3. cid \in Cids /\ cid # EntryCid
      BY <1>1, <2>2, LadderConstants DEF Cids, ExitCid, EntryCid, Tiers
    <2>4. want \in Nat /\ want > 0
      BY <1>1, <1>2, <2>1 DEF JobOK, JobCalm
    <2>5. cid \in Tiers => want <= TierQuantity(cid, row.exec)
      BY <1>1, <1>2, <2>1, <2>2 DEF JobCalm
    <2> QED
      BY <2>2, <2>3, <2>4, <2>5
  <1>4. /\ Len(orders) < MaxOrders /\ orders' = Placed(cid, want)
        /\ UNCHANGED <<row, fills, exited>>
    BY <1>2 DEF PostSell
  <1>5. /\ TableInv' /\ RowCalm(row)' /\ n \in Nat
        /\ DOMAIN orders' = DOMAIN orders \cup {n} /\ n \notin DOMAIN orders
        /\ \A i \in DOMAIN orders : orders'[i] = orders[i]
        /\ orders'[n] = [cid |-> cid, qty |-> want, exec |-> 0, live |-> TRUE]
        /\ Legs' = (IF cid \in Tiers THEN Legs \cup {n} ELSE Legs)
        /\ Exits' = (IF cid = ExitCid THEN Exits \cup {n} ELSE Exits)
        /\ fills[n] = 0 /\ Legs \subseteq DOMAIN orders /\ Exits \subseteq DOMAIN orders
    <2>1. /\ TypeInv /\ TableInv /\ RowCalm(row) /\ IsPosition(row)
          /\ row.exitXid = NoId /\ row.status # "CLOSED"
      BY <1>1, OpenedIs
    <2> QED
      BY <1>2, <1>3, <1>4, <2>1, PostedBooks
  <1>6. /\ NoExitStands /\ Knows(row.plan, Legs) /\ JobCalm(job[p], row)
        /\ row.exitXid = NoId /\ row.status = "POSITION_OPEN"
        /\ TypeInv /\ LedgerInv /\ Admitted(p) /\ job[p] \in Jobs
    BY <1>1, OpenedIs
  <1>7. \A plan : Knows(plan, Legs) => \A i \in Legs : Done(i)' \/
              (orders'[i].cid \in Resting(plan) /\ plan.xid[orders'[i].cid] = i)
    BY <1>4, <1>5 DEF Knows, Done, Counted
  <1>8. PICK pc : pc = (IF job[p].pc = "leg_post" THEN "leg_bind" ELSE "exit_bind")
    OBVIOUS
  <1>9. PICK j : j = [job[p] EXCEPT !.pc = pc, !.ref = n]
    OBVIOUS
  <1>10. Go(p, j)
    BY <1>2, <1>8, <1>9 DEF PostSell
  <1>11. j.pc = pc /\ j.ref = n /\ j.mem = job[p].mem /\ j.tier = job[p].tier
    BY <1>6, <1>9 DEF Jobs
  <1>12. CASE job[p].pc = "leg_post"
    <2>1. Legs' \ {n} = Legs /\ Exits' = Exits /\ j.pc = "leg_bind"
      BY <1>3, <1>5, <1>8, <1>11, <1>12
    <2>2. NoExitStands'
      BY <1>5, <1>6, <2>1 DEF NoExitStands
    <2>3. job[p].mem.plan = row.plan
      BY <1>1, <1>12, OpenedIs
    <2>4. Knows(j.mem.plan, Legs \ {j.ref})'
      BY <1>6, <1>7, <1>11, <2>1, <2>3 DEF Knows
    <2>5. JobCalm(j, row)'
      BY <1>4, <1>6, <1>11, <1>12, <2>1, <2>4 DEF JobCalm, Opened
    <2> QED
      BY <1>5, <1>6, <1>10, <2>1, <2>2, <2>5, CalmSettles
  <1>13. CASE job[p].pc = "exit_post"
    <2>1. Legs' = Legs /\ Exits' = Exits \cup {n} /\ j.pc = "exit_bind"
      BY <1>3, <1>5, <1>8, <1>11, <1>13
    <2>2. LegsDone' /\ Knows(row.plan, Legs)'
      <3>1. LegsDone
        BY <1>6, <1>13 DEF JobCalm
      <3> QED
        BY <1>4, <1>5, <2>1, <3>1 DEF LegsDone, Done, Counted, Knows
    <2>3. want = row.exec - exited /\ exited \in Int /\ row.exec \in Nat
      BY <1>1, <1>2, <1>6, <1>13, OpenedIs, RowFacts DEF JobCalm
    <2>4. ExitStands(n, row.exec)'
      <3>1. orders'[n].qty = want /\ orders'[n].live
        BY <1>5
      <3>2. \A i \in Exits' \ {n} : ~Active(orders'[i])
        BY <1>5, <1>6, <2>1 DEF NoExitStands
      <3>3. exited' - fills'[n] + orders'[n].qty = row'.exec
        BY <1>4, <1>5, <2>3, <3>1
      <3> QED
        BY <2>1, <2>2, <3>1, <3>2, <3>3 DEF ExitStands
    <2>5. JobCalm(j, row)'
      BY <1>4, <1>6, <1>11, <1>13, <2>1, <2>4 DEF JobCalm, Opened
    <2> QED
      BY <1>5, <1>6, <1>10, <2>1, <2>2, <2>5, CalmSettles
  <1> QED
    BY <1>1, <1>12, <1>13

\* A leg is confirmed: its trades are in the table, and the plan has it still when
\* it rests, banks it when it has sold, and lets go of it when it is dead unsold.
LEMMA SyncLegCalm ==
    ASSUME Calm, LifeInv, FlatInv, BackedInv, CalmInv, NEW p \in Procs, SyncLeg(p) PROVE CalmInv'
  <1>1. job[p].pc \in Opened /\ job[p].pc = "sync_legs" /\ UNCHANGED <<orders, row>>
    BY DEF SyncLeg, At, Opened
  <1>2. PICK plan : plan = job[p].mem.plan
    OBVIOUS
  <1>3. /\ TypeInv /\ LedgerInv /\ TableInv /\ RowCalm(row) /\ JobCalm(job[p], row)
        /\ plan \in Plans /\ NoExitStands /\ Knows(row.plan, Legs) /\ Admitted(p)
        /\ row.exitXid = NoId /\ row.status = "POSITION_OPEN" /\ job[p] \in Jobs /\ job[p].mem \in Rows
        /\ Knows(plan, Legs) /\ \A k \in Legs : Counted(k) \/ orders[k].cid >= job[p].tier
    BY <1>1, <1>2, OpenedIs DEF JobCalm
  <1>4. PICK t \in Tiers :
          /\ t \in Resting(plan) /\ \A u \in Resting(plan) : u >= job[p].tier => t <= u
          /\ Ingest(plan.xid[t])
          /\ Go(p, [job[p] EXCEPT !.mem.plan = LegSynced(plan, t, orders[plan.xid[t]]), !.tier = t + 1,
                                  !.dirty = job[p].dirty
                                     \/ LegSynced(plan, t, orders[plan.xid[t]]) # plan])
    BY <1>2 DEF SyncLeg, NextResting
  <1>5. PICK i, plan2 : i = plan.xid[t] /\ plan2 = LegSynced(plan, t, orders[i])
    OBVIOUS
  <1>6. i \in DOMAIN orders /\ orders[i].cid = t /\ i \in Legs /\ i \in Sells
    <2>1. PlanBacked(plan) /\ plan.xid[t] # NoId
      BY <1>2, <1>4 DEF BackedInv, PlansIn, BackedPlans, Resting, NoId
    <2>2. i \in DOMAIN orders /\ orders[i].cid = t
      BY <1>5, <2>1 DEF PlanBacked
    <2>3. i \in Legs
      BY <2>2 DEF Legs
    <2> QED
      BY <1>3, <2>2, <2>3, SellsAre
  <1>7. /\ TableInv' /\ Counted(i)' /\ NoExitStands'
        /\ \A k \in DOMAIN orders : Counted(k) => Counted(k)'
        /\ \A q : Knows(q, Legs) => Knows(q, Legs)'
    BY <1>1, <1>3, <1>4, <1>5, <1>6, IngestCalm
  <1>8. Legs' = Legs /\ Legs \subseteq DOMAIN orders
    BY <1>1, SameSets DEF Legs
  <1>9. RowCalm(row)' /\ Knows(row.plan, Legs)'
    <2>1. PICK r : r = row
      OBVIOUS
    <2>2. RowCalm(r)' /\ Knows(r.plan, Legs)'
      BY <1>1, <1>3, <1>7, <2>1, KeptRow
    <2> QED
      BY <1>1, <2>1, <2>2 DEF RowCalm, Knows
  <1>10. /\ \A u \in Tiers : u # t => (u \in Resting(plan) <=> u \in Resting(plan2))
                                      /\ plan2.xid[u] = plan.xid[u]
         /\ orders[i].live => plan2 = plan
    <2>1. \/ plan2 = plan
          \/ ~orders[i].live /\ plan2 = TierFilled(plan, t, orders[i].exec)
          \/ ~orders[i].live /\ plan2 = Unbound(plan, {t})
      BY <1>5 DEF LegSynced
    <2>2. CASE plan2 = TierFilled(plan, t, orders[i].exec) /\ ~orders[i].live
      BY <1>3, <2>2 DEF TierFilled, Plans, Resting
    <2>3. CASE plan2 = Unbound(plan, {t}) /\ ~orders[i].live
      BY <1>3, <2>3 DEF Unbound, Plans, Resting
    <2> QED
      BY <2>1, <2>2, <2>3
  <1>11. Knows(plan2, Legs)'
    <2> SUFFICES ASSUME NEW k \in Legs
                 PROVE  Done(k)' \/ (orders[k].cid \in Resting(plan2) /\ plan2.xid[orders[k].cid] = k)
      BY <1>1, <1>8 DEF Knows
    <2>1. /\ Done(k) \/ (orders[k].cid \in Resting(plan) /\ plan.xid[orders[k].cid] = k)
          /\ orders[k].cid \in Tiers /\ k \in DOMAIN orders
      BY <1>3 DEF Knows, Legs
    <2>2. CASE Done(k)
      BY <1>1, <1>7, <2>1, <2>2 DEF Done
    <2>3. CASE ~Done(k) /\ orders[k].cid # t
      BY <1>10, <2>1, <2>3
    <2>4. CASE ~Done(k) /\ orders[k].cid = t
      <3>1. k = i
        BY <1>5, <2>1, <2>4
      <3>2. CASE orders[i].live
        BY <1>10, <2>1, <2>4, <3>2
      <3>3. CASE ~orders[i].live
        BY <1>1, <1>7, <3>1, <3>3 DEF Done
      <3> QED
        BY <3>2, <3>3
    <2> QED
      BY <2>2, <2>3, <2>4
  <1>12. \A k \in Legs : Counted(k)' \/ orders[k].cid >= t + 1
    <2> SUFFICES ASSUME NEW k \in Legs, ~Counted(k)' PROVE orders[k].cid >= t + 1
      OBVIOUS
    <2>1. /\ k \in DOMAIN orders /\ orders[k].cid \in Tiers /\ ~Counted(k) /\ k # i
      BY <1>7 DEF Legs
    <2>2. orders[k].cid \in Resting(plan) /\ plan.xid[orders[k].cid] = k /\ orders[k].cid >= job[p].tier
      BY <1>3, <2>1 DEF Knows, Done
    <2>3. t <= orders[k].cid /\ orders[k].cid # t
      BY <1>4, <1>5, <2>1, <2>2
    <2> QED
      BY <2>1, <2>3 DEF Tiers
  <1>13. PICK d : d = (job[p].dirty \/ plan2 # plan)
    OBVIOUS
  <1>14. PICK j : j = [job[p] EXCEPT !.mem.plan = plan2, !.tier = t + 1, !.dirty = d]
    OBVIOUS
  <1>15. Go(p, j)
    BY <1>4, <1>5, <1>13, <1>14
  <1>16. /\ j.pc = "sync_legs" /\ j.mem.plan = plan2 /\ j.tier = t + 1
         /\ j.mem.exitXid = job[p].mem.exitXid /\ j.mem.exitCid = job[p].mem.exitCid
         /\ j.mem.exec = job[p].mem.exec /\ j.mem.exStatus = job[p].mem.exStatus
    BY <1>1, <1>3, <1>14 DEF Jobs, Rows
  <1>17. JobCalm(j, row)'
    <2>1. \A k \in Legs' : Counted(k)' \/ orders'[k].cid >= j.tier
      BY <1>1, <1>8, <1>12, <1>16
    <2>2. Knows(j.mem.plan, Legs)'
      BY <1>11, <1>16
    <2>3. /\ j.mem.exitXid = row.exitXid /\ j.mem.exitCid = row.exitCid
          /\ j.mem.exec = row.exec /\ j.mem.exStatus = row.exStatus
      BY <1>1, <1>16, OpenedIs
    <2> QED
      BY <1>1, <1>3, <1>16, <2>1, <2>2, <2>3 DEF JobCalm, Opened, IsPosition
  <1> QED
    BY <1>3, <1>7, <1>9, <1>15, <1>16, <1>17, CalmSettles

LEMMA LeastTier == ASSUME NEW S, S \subseteq Tiers, S # {} PROVE \E t \in S : \A u \in S : t <= u
  <1>1. S \subseteq Nat
    BY DEF Tiers
  <1>2. PICK t \in S : \A u \in S : ~(<<u, t>> \in OpToRel(<, Nat))
    BY <1>1, WFMin, NatLessThanWellFounded
  <1>3. \A u \in S : ~(u < t)
    BY <1>1, <1>2 DEF OpToRel
  <1> QED
    BY <1>1, <1>3

\* Every leg is confirmed: the row is closed if the plan is sold out, and then it is
\* flat; or the stop is passed, and the handler goes on to sell the rest.
LEMMA FinishLegsCalm ==
    ASSUME LifeInv, FlatInv, BackedInv, CalmInv, WholeLadder, NEW p \in Procs, FinishLegs(p)
    PROVE  CalmInv'
  <1> DEFINE m == job[p].mem
             soldOut == /\ \A t \in Tiers : m.plan.filled[t]
                        /\ RemainingQuantity(m.plan, Held(m)) <= 0
             m2 == IF soldOut THEN [m EXCEPT !.status = "CLOSED"] ELSE m
             stops == m2.status = "POSITION_OPEN" /\ job[p].mark # NoMark
             m3 == IF stops THEN [m2 EXCEPT !.plan = Trailed(m2.plan, job[p].mark)] ELSE m2
             j == [job[p] EXCEPT !.pc = "cancel_legs", !.mem = m3, !.tier = 1, !.dirty = FALSE]
             Fine(r) == RowCalm(r) /\ r.exitXid = NoId /\ Knows(r.plan, Legs)
  <1>1. job[p].pc \in Opened /\ job[p].pc = "sync_legs" /\ UNCHANGED <<orders, fills, exited>>
    BY DEF FinishLegs, At, Opened
  <1>2. /\ TypeInv /\ LedgerInv /\ TableInv /\ RowCalm(row) /\ NoExitStands /\ Admitted(p)
        /\ ~At(p, "idle") /\ IsPosition(row) /\ job[p] \in Jobs /\ m \in Rows /\ m.plan \in Plans
        /\ row.exitXid = NoId /\ row.exitCid = FALSE /\ row.status = "POSITION_OPEN"
        /\ m.exitXid = NoId /\ m.exitCid = FALSE /\ m.status = "POSITION_OPEN"
        /\ m.exec = row.exec /\ m.exStatus = row.exStatus /\ Held(m) = row.exec
        /\ Knows(row.plan, Legs)
    BY <1>1, OpenedIs
  <1>3. Knows(m.plan, Legs) /\ \A k \in Legs : Counted(k) \/ orders[k].cid >= job[p].tier
    BY <1>1, <1>2, OpenedIs DEF JobCalm
  <1>4. Fine(row) /\ Fine(m)
    BY <1>2, <1>3, RowAgrees
  <1>5. \A k \in Legs : Counted(k)
    <2> DEFINE late == {t \in Resting(m.plan) : t >= job[p].tier}
    <2>1. late = {}
      <3> SUFFICES ASSUME late # {} PROVE FALSE
        OBVIOUS
      <3>1. late \subseteq Tiers
        BY DEF Resting
      <3>2. PICK t \in late : \A u \in late : t <= u
        <4> HIDE DEF late
        <4> QED
          BY <3>1, LeastTier
      <3> QED
        BY <3>1, <3>2 DEF FinishLegs, NextResting
    <2>2. \A k \in Legs : Done(k) \/ orders[k].cid \in Resting(m.plan)
      BY <1>3 DEF Knows
    <2> QED
      BY <1>3, <2>1, <2>2 DEF Done
  <1>6. soldOut => Flat
    <2> SUFFICES ASSUME soldOut PROVE Flat
      OBVIOUS
    <2>1. PICK plan : plan = m.plan
      OBVIOUS
    <2>2. PlanBacked(plan) /\ plan \in Plans
      BY <1>2, <2>1 DEF BackedInv, PlansIn, BackedPlans
    <2>3. (\A t \in Tiers : plan.filled[t]) /\ RemainingQuantity(plan, row.exec) <= 0
      BY <1>2, <2>1
    <2> QED
      BY <1>2, <2>2, <2>3, FlatByPlan
  <1>7. Fine(m2) /\ m2 \in Rows /\ m2.exec = row.exec /\ m2.exStatus = row.exStatus
        /\ m2.exitCid = FALSE /\ m2.plan = m.plan /\ (m2.status = "POSITION_OPEN" => m2 = m)
    <2>1. CASE ~soldOut
      <3> HIDE DEF soldOut
      <3> QED
        BY <1>2, <1>4, <2>1
    <2>2. CASE soldOut
      <3>1. Flat
        BY <1>6, <2>2
      <3> HIDE DEF soldOut
      <3>2. /\ m2.status = "CLOSED" /\ m2.plan = m.plan /\ m2.exitXid = NoId /\ m2.exitCid = FALSE
            /\ m2.exec = m.exec /\ m2.exStatus = m.exStatus /\ m2 \in Rows
        BY <1>2, <2>2 DEF Rows, Statuses, FinalStatuses
      <3> HIDE DEF m2
      <3>3. RowCalm(m2)
        BY <1>2, <3>1, <3>2 DEF RowCalm, IsPosition
      <3> QED
        BY <1>2, <1>4, <3>2, <3>3
    <2> QED
      BY <2>1, <2>2
  <1> HIDE DEF m2, soldOut
  <1>8. Fine(m3) /\ m3.exec = row.exec /\ m3.exStatus = row.exStatus /\ m3.exitCid = FALSE
    <2>1. CASE ~stops
      BY <1>7, <2>1
    <2>2. CASE stops
      <3>1. job[p].mark \in Nat
        BY <1>2, MarkOK
      <3> HIDE DEF stops
      <3>2. /\ m3.status = m2.status /\ m3.exec = m2.exec /\ m3.exStatus = m2.exStatus
            /\ m3.exitXid = m2.exitXid /\ m3.exitCid = m2.exitCid
            /\ m3.plan = Trailed(m2.plan, job[p].mark)
        BY <1>7, <2>2 DEF Rows
      <3>3. /\ Trailed(m2.plan, job[p].mark).filled = m2.plan.filled
            /\ Trailed(m2.plan, job[p].mark).xid = m2.plan.xid
        BY <1>2, <1>7, <3>1 DEF Trailed, Plans
      <3> HIDE DEF m3
      <3>4. RowCalm(m3) /\ Knows(m3.plan, Legs)
        BY <1>7, <3>2, <3>3, RowAgrees, PlanAgrees
      <3> QED
        BY <1>7, <3>2, <3>4
    <2> QED
      BY <2>1, <2>2
  <1> HIDE DEF m3, stops
  <1>9. CASE stops /\ row' = (IF job[p].dirty THEN m2 ELSE row) /\ Go(p, j)
    <2>1. m2.status = "POSITION_OPEN"
      BY <1>9 DEF stops
    <2>2. row'.status = "POSITION_OPEN" /\ Fine(row') /\ row'.exec = row.exec
          /\ row'.exStatus = row.exStatus /\ row'.exitCid = FALSE
      BY <1>2, <1>4, <1>7, <1>9, <2>1
    <2>3. j.pc = "cancel_legs" /\ j.mem = m3
      BY <1>2 DEF Jobs
    <2> HIDE DEF j
    <2>4. JobCalm(j, row')
      BY <1>5, <1>8, <2>2, <2>3 DEF JobCalm, Opened
    <2> QED
      BY <1>1, <1>2, <1>9, <2>2, <2>3, <2>4, CalmStep
  <1>10. CASE row' = (IF job[p].dirty \/ m3 # m THEN m3 ELSE row) /\ Finish(p)
    <2>1. Fine(row')
      BY <1>4, <1>8, <1>10
    <2> QED
      BY <1>1, <1>2, <1>10, <2>1, CalmFinish
  <1> QED
    BY <1>9, <1>10 DEF FinishLegs, m2, m3, soldOut, stops, j

LEMMA SameShape ==
    ASSUME DOMAIN orders' = DOMAIN orders, \A i \in DOMAIN orders : orders'[i].cid = orders[i].cid
    PROVE  /\ Entries' = Entries /\ Sells' = Sells /\ Exits' = Exits /\ Legs' = Legs
           /\ Entries \subseteq DOMAIN orders /\ Sells \subseteq DOMAIN orders
           /\ Exits \subseteq DOMAIN orders /\ Legs \subseteq DOMAIN orders
  BY DEF Entries, Sells, Exits, Legs

\* No leg rests after the cancel: those that did were the plan's.
LEMMA CancelLegsCalm ==
    ASSUME Calm, LifeInv, FlatInv, BackedInv, CalmInv, NEW p \in Procs, CancelLegs(p) PROVE CalmInv'
  <1>1. job[p].pc \in Opened /\ job[p].pc = "cancel_legs" /\ UNCHANGED <<fills, exited, row>>
    BY DEF CancelLegs, At, Opened
  <1>2. PICK plan, S : plan = job[p].mem.plan /\ S = {plan.xid[t] : t \in Resting(plan)}
    OBVIOUS
  <1>3. /\ TypeInv /\ LedgerInv /\ TableInv /\ RowCalm(row) /\ JobCalm(job[p], row)
        /\ plan \in Plans /\ NoExitStands /\ Knows(row.plan, Legs) /\ Admitted(p)
        /\ row.exitXid = NoId /\ row.status = "POSITION_OPEN" /\ IsPosition(row)
        /\ job[p] \in Jobs /\ job[p].mem \in Rows
        /\ Knows(plan, Legs) /\ \A k \in Legs : Counted(k)
    BY <1>1, <1>2, OpenedIs DEF JobCalm
  <1>4. orders' = Cancelled(S)
    BY <1>2 DEF CancelLegs, Calm
  <1>5. /\ DOMAIN orders' = DOMAIN orders
        /\ \A i \in DOMAIN orders :
             /\ orders'[i].cid = orders[i].cid /\ orders'[i].qty = orders[i].qty
             /\ orders'[i].exec = orders[i].exec
             /\ orders'[i].live <=> orders[i].live /\ i \notin S
    BY <1>3, <1>4, CancelShape
  <1>6. /\ Entries' = Entries /\ Sells' = Sells /\ Exits' = Exits /\ Legs' = Legs
        /\ Entries \subseteq DOMAIN orders /\ Sells \subseteq DOMAIN orders
        /\ Exits \subseteq DOMAIN orders /\ Legs \subseteq DOMAIN orders
    BY <1>5, SameShape
  <1>7. S \cap Entries = {}
    <2>1. PlanBacked(plan)
      BY <1>2 DEF BackedInv, PlansIn, BackedPlans
    <2>2. \A t \in Resting(plan) : plan.xid[t] \in DOMAIN orders /\ orders[plan.xid[t]].cid \in Tiers
      BY <2>1 DEF PlanBacked, Resting, NoId
    <2>3. EntryCid \notin Tiers
      BY DEF EntryCid, Tiers
    <2> QED
      BY <1>2, <2>2, <2>3 DEF Entries
  <1>8. LegsDone' /\ Knows(row.plan, Legs)' /\ NoExitStands'
    <2>1. \A k \in Legs : Done(k)'
      <3> SUFFICES ASSUME NEW k \in Legs PROVE Done(k)'
        OBVIOUS
      <3>1. Counted(k)' /\ k \in DOMAIN orders
        BY <1>1, <1>3, <1>5, <1>6 DEF Counted
      <3>2. Done(k) \/ k \in S
        BY <1>2, <1>3 DEF Knows
      <3> QED
        BY <1>5, <3>1, <3>2 DEF Done
    <2>2. NoExitStands'
      BY <1>3, <1>5, <1>6 DEF NoExitStands, Active
    <2> QED
      BY <1>6, <2>1, <2>2 DEF LegsDone, Knows
  <1>9. TableInv'
    BY <1>1, <1>3, <1>5, <1>6 DEF TableInv, SaleSound
  <1>10. RowCalm(row)'
    <2>1. \A e \in Entries : /\ orders'[e].exec = orders[e].exec /\ orders'[e].qty = orders[e].qty
                             /\ orders'[e].live <=> orders[e].live
      BY <1>5, <1>6, <1>7
    <2>2. \A e \in Entries : StatusOf(orders'[e]) = StatusOf(orders[e])
      BY <2>1 DEF StatusOf
    <2>3. \A e \in Entries' : row'.exec = orders'[e].exec /\ row'.exStatus = StatusOf(orders'[e])
      BY <1>1, <1>3, <1>6, <2>1, <2>2 DEF RowCalm
    <2>4. \A k \in Legs' : orders'[k].qty <= TierQuantity(orders'[k].cid, row'.exec)
      BY <1>1, <1>3, <1>5, <1>6 DEF RowCalm
    <2> QED
      BY <1>1, <1>3, <2>3, <2>4 DEF RowCalm, IsPosition
  <1>11. PICK plan2 : plan2 = Unbound(plan, Resting(plan))
    OBVIOUS
  <1>12. PICK j : j = [job[p] EXCEPT !.pc = "exit", !.mem.plan = plan2]
    OBVIOUS
  <1>13. Go(p, j)
    BY <1>2, <1>11, <1>12 DEF CancelLegs
  <1>14. /\ j.pc = "exit"
         /\ j.mem.exitXid = job[p].mem.exitXid /\ j.mem.exitCid = job[p].mem.exitCid
         /\ j.mem.exec = job[p].mem.exec /\ j.mem.exStatus = job[p].mem.exStatus
    BY <1>3, <1>12 DEF Jobs, Rows
  <1>15. JobCalm(j, row)'
    <2>1. /\ j.mem.exitXid = row.exitXid /\ j.mem.exitCid = row.exitCid
          /\ j.mem.exec = row.exec /\ j.mem.exStatus = row.exStatus
      BY <1>1, <1>14, OpenedIs
    <2> QED
      BY <1>1, <1>3, <1>8, <1>14, <2>1 DEF JobCalm, Opened, IsPosition
  <1> QED
    BY <1>3, <1>8, <1>9, <1>10, <1>13, <1>14, <1>15, CalmSettles

\* The last steps of a close: nothing is left, or one order is posted for the rest.
LEMMA ExitStepsCalm ==
    ASSUME Calm, LifeInv, FlatInv, CalmInv, WholeLadder, NEW p \in Procs,
           CloseSoldOut(p) \/ AdoptExit(p) \/ PrepareExit(p) \/ BindExit(p)
    PROVE  CalmInv'
  <1> DEFINE m == job[p].mem
  <1>1. /\ job[p].pc \in Opened /\ UNCHANGED <<orders, fills, exited>>
        /\ CloseSoldOut(p) \/ AdoptExit(p) \/ PrepareExit(p) => job[p].pc = "exit"
        /\ BindExit(p) => job[p].pc = "exit_bind"
    BY DEF CloseSoldOut, AdoptExit, PrepareExit, BindExit, At, Opened
  <1>2. /\ TypeInv /\ LedgerInv /\ TableInv /\ RowCalm(row) /\ JobCalm(job[p], row)
        /\ Admitted(p) /\ ~At(p, "idle") /\ IsPosition(row) /\ job[p] \in Jobs /\ m \in Rows
        /\ row.exitXid = NoId /\ row.exitCid = FALSE /\ row.status = "POSITION_OPEN"
        /\ m.exitXid = NoId /\ m.exitCid = FALSE /\ m.status = "POSITION_OPEN"
        /\ m.exec = row.exec /\ m.exStatus = row.exStatus /\ Held(m) = row.exec
        /\ row.exec \in Nat
        /\ job[p].pc # "exit_bind" => NoExitStands
    BY <1>1, OpenedIs
  <1>3. exited \in Int
    BY <1>2, RowFacts
  <1>4. CASE CloseSoldOut(p)
    <2>1. LegsDone /\ NoExitStands /\ exited >= row.exec
      BY <1>1, <1>2, <1>3, <1>4 DEF JobCalm, CloseSoldOut, LotsLeft
    <2>2. Flat
      BY <1>2, <2>1, FlatByTable
    <2>3. /\ row'.status = "CLOSED" /\ row'.exec = row.exec /\ row'.exStatus = row.exStatus
          /\ row'.exitXid = NoId /\ row'.exitCid = FALSE
      BY <1>2, <1>4 DEF CloseSoldOut, Rows
    <2>4. RowCalm(row')
      BY <1>2, <2>2, <2>3 DEF RowCalm, IsPosition
    <2>5. Knows(row'.plan, Legs)
      BY <2>1 DEF Knows, LegsDone
    <2> QED
      BY <1>1, <1>2, <1>4, <2>1, <2>4, <2>5, CalmFinish DEF CloseSoldOut
  <1>5. CASE AdoptExit(p)
    <2>1. PICK i \in DOMAIN orders : orders[i].cid = ExitCid /\ orders[i].live
      BY <1>5 DEF AdoptExit, LiveExit, IsLatest
    <2> QED
      BY <1>1, <1>2, <1>5, <2>1 DEF NoExitStands, Exits, Active
  <1>6. CASE PrepareExit(p)
    <2>1. PICK want : want = LotsLeft(p)
      OBVIOUS
    <2>2. PICK j : j = [job[p] EXCEPT !.pc = "exit_post", !.want = want]
      OBVIOUS
    <2>3. Go(p, j) /\ UNCHANGED row /\ want >= MinQty
      BY <1>6, <2>1, <2>2 DEF PrepareExit
    <2>4. want = row.exec - exited /\ want > 0
      BY <1>2, <1>3, <2>1, <2>3, SyncConstants DEF LotsLeft
    <2>5. j.pc = "exit_post" /\ j.want = want /\ j.mem = m
      BY <1>2, <2>2 DEF Jobs
    <2>6. LegsDone
      BY <1>1, <1>2, <1>6 DEF JobCalm
    <2>7. JobCalm(j, row)
      BY <1>2, <2>4, <2>5, <2>6 DEF JobCalm, Opened
    <2> QED
      BY <1>1, <1>2, <1>6, <2>3, <2>7, CalmMove
  <1>7. CASE BindExit(p)
    <2>1. PICK x : x = job[p].ref
      OBVIOUS
    <2>2. ExitStands(x, row.exec)
      BY <1>1, <1>2, <1>7, <2>1 DEF JobCalm
    <2>3. x # NoId
      BY <1>2, <2>2, OrderIs DEF ExitStands, Exits, NoId
    <2>4. /\ row'.status = row.status /\ row'.exec = row.exec /\ row'.exStatus = row.exStatus
          /\ row'.exitXid = x /\ row'.exitCid = TRUE
      BY <1>2, <1>7, <2>1 DEF BindExit, AnsweredIds, Calm, Rows
    <2>5. RowCalm(row')
      BY <1>2, <2>2, <2>3, <2>4 DEF RowCalm, IsPosition
    <2>6. Knows(row'.plan, Legs)
      BY <2>2 DEF ExitStands, Knows, LegsDone
    <2> QED
      BY <1>1, <1>2, <1>7, <2>3, <2>4, <2>5, <2>6, CalmFinish DEF BindExit
  <1> QED
    BY <1>4, <1>5, <1>6, <1>7

-----------------------------------------------------------------------------
(* Part 5.  The venue moves only while every handler is idle: it fills or  *)
(* drops an entry that nothing was sold of, or an order that stands.       *)

LEMMA VenueShape ==
    ASSUME Calm, TypeInv, NEW i \in DOMAIN orders, Fill(i) \/ Expire(i)
    PROVE  /\ orders[i].live /\ UNCHANGED <<row, fills, exited, job>>
           /\ \A p \in Procs : job[p].pc = "idle"
           /\ DOMAIN orders' = DOMAIN orders
           /\ \A k \in DOMAIN orders : /\ orders'[k].cid = orders[k].cid
                                       /\ orders'[k].qty = orders[k].qty
                                       /\ k # i => /\ orders'[k].exec = orders[k].exec
                                                   /\ orders'[k].live <=> orders[k].live
           /\ \/ /\ orders'[i].exec = orders[i].exec + 1
                 /\ orders'[i].live <=> orders[i].exec + 1 < orders[i].qty
              \/ orders'[i].exec = orders[i].exec /\ orders[i].exec = 0 /\ ~orders'[i].live
  <1>1. /\ orders[i].live /\ UNCHANGED <<row, fills, exited, job>>
        /\ \A p \in Procs : job[p].pc = "idle"
    BY DEF Fill, Expire, Quiet, At, Calm
  <1>2. CASE Fill(i)
    <2>1. orders' = [orders EXCEPT ![i] = [orders[i] EXCEPT !.exec = @ + 1, !.live = orders[i].exec + 1 < orders[i].qty]]
      BY <1>2 DEF Fill
    <2>2. \A k \in DOMAIN orders : orders[k] \in VenueOrders
      BY OrderIs
    <2>3. PICK e, l : e = orders[i].exec + 1 /\ l = (orders[i].exec + 1 < orders[i].qty)
      OBVIOUS
    <2>4. orders' = [orders EXCEPT ![i] = [orders[i] EXCEPT !.exec = e, !.live = l]]
      BY <2>1, <2>3
    <2>5. orders'[i].cid = orders[i].cid /\ orders'[i].qty = orders[i].qty /\ orders'[i].exec = e
          /\ orders'[i].live = l
      BY <2>2, <2>4 DEF VenueOrders
    <2> QED
      BY <1>1, <2>3, <2>4, <2>5
  <1>3. CASE Expire(i)
    <2>1. orders' = Cancelled({i}) /\ ~(orders[i].exec > 0) /\ orders[i].exec \in Nat
      BY <1>3, OrderIs DEF Expire, Calm
    <2>2. PICK S : S = {i}
      OBVIOUS
    <2>3. /\ DOMAIN orders' = DOMAIN orders
          /\ \A k \in DOMAIN orders : /\ orders'[k].cid = orders[k].cid /\ orders'[k].qty = orders[k].qty
                                      /\ orders'[k].exec = orders[k].exec
                                      /\ orders'[k].live <=> (orders[k].live /\ k \notin S)
      BY <2>1, <2>2, CancelShape
    <2>4. orders[i].exec = 0
      BY <2>1
    <2> QED
      BY <1>1, <2>2, <2>3, <2>4
  <1> QED
    BY <1>2, <1>3

LEMMA VenueCalm ==
    ASSUME Calm, LifeInv, CalmInv, NEW i \in DOMAIN orders, Fill(i) \/ Expire(i)
    PROVE  CalmInv'
  <1>1. TypeInv /\ TableInv /\ RowCalm(row) /\ row \in Rows
    BY RowFacts DEF LifeInv, CalmInv
  <1>2. /\ orders[i].live /\ UNCHANGED <<row, fills, exited, job>>
        /\ \A p \in Procs : job[p].pc = "idle"
        /\ DOMAIN orders' = DOMAIN orders
        /\ \A k \in DOMAIN orders : /\ orders'[k].cid = orders[k].cid
                                    /\ orders'[k].qty = orders[k].qty
                                    /\ k # i => /\ orders'[k].exec = orders[k].exec
                                                /\ orders'[k].live <=> orders[k].live
        /\ \/ /\ orders'[i].exec = orders[i].exec + 1
              /\ orders'[i].live <=> orders[i].exec + 1 < orders[i].qty
           \/ orders'[i].exec = orders[i].exec /\ orders[i].exec = 0 /\ ~orders'[i].live
    BY <1>1, VenueShape
  <1>3. /\ Entries' = Entries /\ Sells' = Sells /\ Exits' = Exits /\ Legs' = Legs
        /\ Entries \subseteq DOMAIN orders /\ Sells \subseteq DOMAIN orders
        /\ Exits \subseteq DOMAIN orders /\ Legs \subseteq DOMAIN orders
        /\ Sells = Exits \cup Legs /\ Exits \cap Legs = {} /\ Entries \cap Sells = {}
        /\ DOMAIN orders = Entries \cup Sells
    BY <1>1, <1>2, SameShape, SellsAre
  <1>4. Knows(row.plan, Legs) /\ (row.exitXid = NoId => NoExitStands)
    BY <1>2 DEF CalmInv, RowKnows, Binding, At
  <1>5. ASSUME TableInv', RowCalm(row)', row.exitXid = NoId => NoExitStands', Knows(row.plan, Legs)'
        PROVE  CalmInv'
    <2>1. RowKnows(row, Binding("exit_bind"), Binding("leg_bind"))'
      BY <1>2, <1>5 DEF RowKnows
    <2>2. \A p \in Procs : JobCalm(job[p], row)'
      BY <1>2 DEF JobCalm, Opened
    <2> QED
      BY <1>5, <2>1, <2>2 DEF CalmInv
  <1>6. TableInv'
    <2>1. \A k \in Sells : SaleSound(k)'
      <3> SUFFICES ASSUME NEW k \in Sells PROVE SaleSound(k)'
        OBVIOUS
      <3>1. /\ SaleSound(k) /\ k \in DOMAIN orders /\ orders[k].exec \in Nat /\ orders[k].qty \in Nat
            /\ fills[k] \in Nat
        BY <1>1, <1>3, OrderIs DEF TableInv
      <3> QED
        BY <1>2, <3>1 DEF SaleSound
    <2> QED
      BY <1>1, <1>2, <1>3, <2>1 DEF TableInv
  <1>7. CASE i \in Entries
    <2>1. row.status \in CanStillBuy
      BY <1>2, <1>7 DEF LifeInv, EntryInv, LiveEntries
    <2>2. ~IsPosition(row) /\ Sells = {}
      BY <1>1, <2>1 DEF IsPosition, CanStillBuy, RowCalm
    <2>3. row.exitXid = NoId
      BY <2>1 DEF LifeInv, StageInv, NoExit, Unopened, CanStillBuy
    <2>4. RowCalm(row)' /\ NoExitStands' /\ Knows(row.plan, Legs)'
      BY <1>1, <1>2, <1>3, <2>2, <2>3 DEF RowCalm, NoExitStands, Knows, IsPosition
    <2> QED
      BY <1>5, <1>6, <2>4
  <1>8. CASE i \in Sells
    <2>1. IsPosition(row) /\ row.status # "CLOSED"
      BY <1>1, <1>2, <1>8 DEF RowCalm, Flat, LiveSells
    <2>2. \A e \in Entries' : row'.exec = orders'[e].exec /\ row'.exStatus = StatusOf(orders'[e])
      <3>1. \A e \in Entries : e # i /\ e \in DOMAIN orders
        BY <1>3, <1>8
      <3>2. \A e \in Entries : StatusOf(orders'[e]) = StatusOf(orders[e])
        BY <1>2, <3>1 DEF StatusOf
      <3> QED
        BY <1>1, <1>2, <1>3, <2>1, <3>1, <3>2 DEF RowCalm
    <2>3. \A k \in Legs' : orders'[k].qty <= TierQuantity(orders'[k].cid, row'.exec)
      BY <1>1, <1>2, <1>3 DEF RowCalm
    <2>4. ASSUME row.exitXid # NoId => ExitStands(row.exitXid, row.exec)' PROVE RowCalm(row)'
      BY <1>1, <1>2, <2>1, <2>2, <2>3, <2>4 DEF RowCalm, IsPosition
    <2>5. CASE row.exitXid = NoId
      <3>1. i \in Legs
        BY <1>2, <1>3, <1>4, <1>8, <2>5 DEF NoExitStands, Active
      <3>2. NoExitStands'
        BY <1>2, <1>3, <1>4, <2>5, <3>1 DEF NoExitStands, Active
      <3>3. Knows(row.plan, Legs)'
        <4> SUFFICES ASSUME NEW k \in Legs
                     PROVE  Done(k)' \/ (orders[k].cid \in Resting(row.plan)
                                         /\ row.plan.xid[orders[k].cid] = k)
          BY <1>2, <1>3 DEF Knows
        <4>1. k \in DOMAIN orders
              /\ (Done(k) \/ (orders[k].cid \in Resting(row.plan) /\ row.plan.xid[orders[k].cid] = k))
          BY <1>3, <1>4 DEF Knows
        <4> QED
          BY <1>2, <4>1 DEF Done, Counted
      <3> QED
        BY <1>5, <1>6, <2>4, <2>5, <3>2, <3>3
    <2>6. CASE row.exitXid # NoId
      <3>1. PICK x : x = row.exitXid
        OBVIOUS
      <3>2. ExitStands(x, row.exec) /\ x \in Sells
        BY <1>1, <1>3, <2>6, <3>1 DEF RowCalm, ExitStands
      <3>3. i = x
        <4>1. i \notin Legs
          BY <1>2, <3>2 DEF ExitStands, LegsDone, Done
        <4> QED
          BY <1>2, <1>3, <1>8, <3>2, <4>1 DEF ExitStands, Active
      <3>4. \A k \in Legs : Done(k)'
        <4>1. \A k \in Legs : Done(k) /\ k # i /\ k \in DOMAIN orders
          BY <1>3, <3>2, <3>3 DEF ExitStands, LegsDone
        <4> QED
          BY <1>2, <4>1 DEF Done, Counted
      <3>5. orders'[x].live \/ orders'[x].exec \in {0, orders'[x].qty}
        <4>1. orders[i].exec < orders[i].qty /\ orders[i].exec \in Nat /\ orders[i].qty \in Nat
          BY <1>1, <1>2, <1>8, OrderIs DEF TableInv, SaleSound
        <4> QED
          BY <1>2, <3>3, <4>1
      <3>6. ExitStands(x, row.exec)'
        BY <1>2, <1>3, <3>2, <3>3, <3>4, <3>5 DEF ExitStands, LegsDone, Active
      <3>7. Knows(row.plan, Legs)'
        BY <1>3, <3>4 DEF Knows
      <3>8. RowCalm(row)'
        BY <1>2, <2>4, <3>1, <3>6 DEF ExitStands
      <3> QED
        BY <1>5, <1>6, <2>6, <3>7, <3>8
    <2> QED
      BY <2>5, <2>6
  <1> QED
    BY <1>3, <1>7, <1>8

-----------------------------------------------------------------------------
(* Part 6.  The theorems.                                                  *)

LEMMA InitCalm == Init => CalmInv
  <1> SUFFICES ASSUME Init PROVE CalmInv
    OBVIOUS
  <1>1. /\ DOMAIN orders = {} /\ row = NoRow /\ exited = 0
        /\ fills = [i \in 1..MaxOrders |-> 0] /\ \A p \in Procs : job[p] = Idle
    BY DEF Init
  <1>2. Entries = {} /\ Sells = {} /\ Exits = {} /\ Legs = {}
    BY <1>1 DEF Entries, Sells, Exits, Legs
  <1>3. TableInv
    <2>1. IsFiniteSet(1..MaxOrders)
      BY SyncConstants, FS_Interval
    <2>2. \A i \in 1..MaxOrders : fills[i] = 0
      BY <1>1
    <2>3. SumOf(fills, 1..MaxOrders) = 0
      BY <2>1, <2>2, SumZero
    <2> QED
      BY <1>1, <1>2, <2>2, <2>3 DEF TableInv
  <1>4. RowCalm(row)
    BY <1>1, <1>2 DEF RowCalm, NoRow, IsPosition, NoId
  <1>5. RowKnows(row, Binding("exit_bind"), Binding("leg_bind"))
    BY <1>2 DEF RowKnows, NoExitStands, Knows
  <1>6. \A p \in Procs : JobCalm(job[p], row)
    BY <1>1, IdleIsCalm
  <1> QED
    BY <1>3, <1>4, <1>5, <1>6 DEF CalmInv

LEMMA NothingCalm == ASSUME CalmInv, UNCHANGED <<orders, fills, exited, row, job>> PROVE CalmInv'
  <1>1. TableInv'
    BY SameTable DEF CalmInv
  <1>2. PICK r : r = row
    OBVIOUS
  <1>3. RowCalm(r)' /\ row' = r
    BY <1>2, SameRow DEF CalmInv
  <1>4. RowKnows(row, Binding("exit_bind"), Binding("leg_bind"))'
    <2>1. PICK plan : plan = row.plan
      OBVIOUS
    <2>2. /\ NoExitStands' <=> NoExitStands
          /\ Knows(plan, Legs)' <=> Knows(plan, Legs)
      <3>1. PICK S : S = Legs
        OBVIOUS
      <3>2. Legs' = S
        BY <3>1, SameSets
      <3>3. Knows(plan, S)' <=> Knows(plan, S)
        BY SameDone
      <3> QED
        BY <3>1, <3>2, <3>3, SameDone
    <2> QED
      BY <2>1, <2>2 DEF CalmInv, RowKnows, Binding, At
  <1>5. ASSUME NEW p \in Procs PROVE JobCalm(job[p], row)'
    <2>1. PICK j : j = job[p]
      OBVIOUS
    <2>2. JobCalm(j, r)'
      BY <1>2, <2>1, SameJob DEF CalmInv
    <2> QED
      BY <1>2, <2>1, <2>2
  <1> QED
    BY <1>1, <1>2, <1>3, <1>4, <1>5 DEF CalmInv

LEMMA NextCalm ==
    ASSUME Calm, WholeLadder, LifeInv, FlatInv, AnswerInv, BackedInv, CalmInv, [Next]_vars
    PROVE  CalmInv'
  <1>1. ASSUME NEW p \in Procs, Start(p) PROVE CalmInv'
    <2>1. ~StartClose(p)
      BY DEF StartClose, Calm
    <2> QED
      BY <1>1, <2>1, EntryStepsCalm, TickCalm, AdjustCalm DEF Start
  <1>2. ASSUME NEW p \in Procs, Continue(p) PROVE CalmInv'
    <2>1. ~CancelPartialEntry(p)
      BY DEF CancelPartialEntry, At, CalmInv, JobCalm
    <2>2. CASE \/ PostEntry(p) \/ BindEntry(p) \/ ResolvePending(p)
               \/ CancelEntry(p) \/ SaveCancelled(p)
      BY <2>2, EntryStepsCalm
    <2>3. CASE SyncEntry(p) \/ SyncExit(p)
      BY <2>3, SyncEntryCalm, SyncExitCalm
    <2>4. CASE RefuseSmallLeg(p) \/ RejectSell(p) \/ RefuseSmallExit(p)
      BY <2>4, RefusedCalm
    <2>5. CASE AdoptLeg(p) \/ PrepareLeg(p) \/ BindLeg(p) \/ PostSell(p)
      BY <2>5, AdoptLegCalm, PrepareLegCalm, BindLegCalm, PostSellCalm
    <2>6. CASE SyncLeg(p) \/ FinishLegs(p) \/ CancelLegs(p)
      BY <2>6, SyncLegCalm, FinishLegsCalm, CancelLegsCalm
    <2>7. CASE CloseSoldOut(p) \/ AdoptExit(p) \/ PrepareExit(p) \/ BindExit(p)
      BY <2>7, ExitStepsCalm
    <2> QED
      BY <1>2, <2>1, <2>2, <2>3, <2>4, <2>5, <2>6, <2>7 DEF Continue
  <1>3. ASSUME NEW p \in Procs PROVE ~Fail(p)
    BY DEF Fail, Calm, LifeInv, TypeInv, TypeOK
  <1>4. CASE Venue
    BY <1>4, VenueCalm DEF Venue
  <1>5. CASE GetOlder \/ UNCHANGED vars
    <2>1. UNCHANGED <<orders, fills, exited, row, job>>
      BY <1>5 DEF GetOlder, vars
    <2> QED
      BY <2>1, NothingCalm
  <1> QED
    BY <1>1, <1>2, <1>3, <1>4, <1>5 DEF Next

\* All that the two theorems rest on.
SoldInv == LifeInv /\ FlatInv /\ AnswerInv /\ BackedInv /\ CalmInv

LEMMA InitSold == Init => SoldInv
  <1>1. Init => BackedInv
    BY FreshIn, FreshPlanOK, FreshBacked DEF Init, BackedInv, PlansIn, BackedPlans, FreshIdle
  <1> QED
    BY <1>1, InitLife, InitFlat, InitAnswer, InitCalm DEF SoldInv

LEMMA NextSold == ASSUME Calm, WholeLadder, SoldInv, [Next]_vars PROVE SoldInv'
  <1>1. TypeInv /\ LifeInv /\ FlatInv /\ AnswerInv /\ BackedInv /\ CalmInv
    BY DEF SoldInv, LifeInv
  <1>2. Unlocked = {} /\ "race" \notin Faults
    BY DEF Calm
  <1> QED
    BY <1>1, <1>2, NextLife, NextFlat, NextBacked, NextCalm DEF SoldInv

\* While every call is answered and every handler runs to its end, the tiers and
\* the exit together never sell, or offer to sell, more than the entry bought:
\* _place_resting_tps and close_position deduct from what the row holds what the
\* table of fills counts, and never rest a leg beside a standing exit.
THEOREM NeverOversoldHolds ==
    ASSUME Calm, WholeLadder PROVE Spec => []NeverOversold
  <1>1. SoldInv => NeverOversold
    BY CalmNotOversold DEF SoldInv
  <1>2. SoldInv /\ [Next]_vars => SoldInv'
    BY NextSold
  <1> QED
    BY InitSold, <1>1, <1>2, PTL DEF Spec

\* Under the same conditions a row that sync_order, the sold-out ladder or
\* close_position marks CLOSED has sold exactly what its entry bought, and no
\* sell of it is left resting at the venue.
THEOREM ClosedHolds ==
    ASSUME Calm, WholeLadder PROVE Spec => []ClosedIsFlat
  <1>1. SoldInv => ClosedIsFlat
    BY FlatIs DEF SoldInv, LifeInv, CalmInv, RowCalm, ClosedIsFlat
  <1>2. SoldInv /\ [Next]_vars => SoldInv'
    BY NextSold
  <1> QED
    BY InitSold, <1>1, <1>2, PTL DEF Spec

=============================================================================
