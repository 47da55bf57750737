-------------------------- MODULE ZoneLadder_proofs ---------------------------
(***************************************************************************)
(* Theorems about ZoneLadder for every set of candles and readings, every  *)
(* tolerance and every setting that SettingsAssumption admits.  Part 1 is  *)
(* the type of the candles.  Part 2 follows a bid through the code: what a *)
(* stable sort makes of a sequence, the clusters of the sorted levels, the *)
(* zones they span, the legs in the zones, the split of a size among the   *)
(* legs, and the bids of one look at the market.                           *)
(***************************************************************************)
EXTENDS ZoneLadder, SumLemmas, SequenceTheorems, TLAPS

-----------------------------------------------------------------------------
(* Part 1.  The candles.                                                   *)

LEMMA CandlesTyped == ZoneSpec => [](candles \in Seq(Shapes))
  <1> DEFINE Inv == candles \in Seq(Shapes)
  <1>1. ZoneInit => Inv
    BY DEF ZoneInit
  <1>2. Inv /\ [ZoneNext]_zoneVars => Inv'
    <2> SUFFICES ASSUME Inv, [ZoneNext]_zoneVars PROVE Inv'
      OBVIOUS
    <2>1. CASE CandleComes
      BY <2>1 DEF CandleComes
    <2>2. CASE CandleMoves
      <3>1. Front(candles) \in Seq(Shapes)
        BY <2>2 DEF CandleMoves, Front
      <3> QED
        BY <2>2, <3>1 DEF CandleMoves
    <2>3. CASE Propose \/ UNCHANGED zoneVars
      BY <2>3 DEF Propose, zoneVars
    <2> QED
      BY <2>1, <2>2, <2>3 DEF ZoneNext
  <1> QED
    BY <1>1, <1>2, PTL DEF ZoneSpec

-----------------------------------------------------------------------------
(* Part 2.  The ladder of bids.  First what an arrangement of a sequence   *)
(* is: its elements at some indices, one for each place, in a strict order.*)

StrictOrder(ahead, indices) ==
    /\ ahead \in [indices -> SUBSET indices]
    /\ \A i \in indices : i \notin ahead[i] /\ \A j \in ahead[i] : ahead[j] \subseteq ahead[i]
    /\ \A i, j \in indices : i # j => i \in ahead[j] \/ j \in ahead[i]

\* h has the index of the element at each place.
Places(h, ahead, indices, n) ==
    /\ h \in [1..n -> indices]
    /\ \A k, l \in 1..n : h[k] = h[l] => k = l
    /\ \A i \in indices : \E k \in 1..n : h[k] = i
    /\ \A k, l \in 1..n : k < l => h[k] \in ahead[h[l]]

LEMMA Position ==
    ASSUME NEW indices, IsFiniteSet(indices), NEW ahead, StrictOrder(ahead, indices),
           NEW i \in indices
    PROVE  /\ Cardinality(ahead[i]) \in Nat /\ Cardinality(ahead[i]) < Cardinality(indices)
           /\ \A j \in ahead[i] : Cardinality(ahead[j]) < Cardinality(ahead[i])
  <1>1. /\ ahead[i] \in SUBSET (indices \ {i}) /\ IsFiniteSet(indices \ {i})
        /\ Cardinality(indices \ {i}) = Cardinality(indices) - 1
        /\ Cardinality(indices) \in Nat
    BY FS_RemoveElement, FS_CardinalityType DEF StrictOrder
  <1>2. IsFiniteSet(ahead[i]) /\ Cardinality(ahead[i]) <= Cardinality(indices \ {i})
    BY <1>1, FS_Subset
  <1>3. Cardinality(ahead[i]) \in Nat
    BY <1>2, FS_CardinalityType
  <1>4. ASSUME NEW j \in ahead[i] PROVE Cardinality(ahead[j]) < Cardinality(ahead[i])
    <2>1. /\ ahead[j] \in SUBSET (ahead[i] \ {j}) /\ IsFiniteSet(ahead[i] \ {j})
          /\ Cardinality(ahead[i] \ {j}) = Cardinality(ahead[i]) - 1
      BY <1>1, <1>2, FS_RemoveElement DEF StrictOrder
    <2>2. Cardinality(ahead[j]) <= Cardinality(ahead[i] \ {j}) /\ IsFiniteSet(ahead[j])
      BY <2>1, FS_Subset
    <2>3. Cardinality(ahead[j]) \in Nat
      BY <2>2, FS_CardinalityType
    <2> QED
      BY <1>3, <2>1, <2>2, <2>3
  <1> QED
    BY <1>1, <1>2, <1>3, <1>4

LEMMA InPlaceIs ==
    ASSUME NEW indices, IsFiniteSet(indices), NEW ahead, StrictOrder(ahead, indices), NEW seq,
           NEW n, n = Cardinality(indices)
    PROVE  /\ n \in Nat /\ DOMAIN InPlace(seq, indices, ahead) = 1..n
           /\ \E h : /\ Places(h, ahead, indices, n)
                     /\ \A k \in 1..n : InPlace(seq, indices, ahead)[k] = seq[h[k]]
  <1> DEFINE pos == [i \in indices |-> Cardinality(ahead[i]) + 1]
             h == [k \in 1..n |-> CHOOSE i \in indices : Cardinality(ahead[i]) = k - 1]
  <1>1. n \in Nat
    BY FS_CardinalityType
  <1>2. \A i \in indices : /\ Cardinality(ahead[i]) \in Nat /\ Cardinality(ahead[i]) < n
                           /\ \A j \in ahead[i] : Cardinality(ahead[j]) < Cardinality(ahead[i])
    BY Position
  <1>3. \A i, j \in indices : Cardinality(ahead[i]) = Cardinality(ahead[j]) => i = j
    BY <1>2 DEF StrictOrder
  <1>4. pos \in Injection(indices, 1..n)
    <2>1. pos \in [indices -> 1..n]
      BY <1>1, <1>2
    <2>2. ASSUME NEW i \in indices, NEW j \in indices, pos[i] = pos[j] PROVE i = j
      BY <1>2, <1>3, <2>2
    <2> QED
      BY <2>1, <2>2 DEF Injection, IsInjective
  <1>5. IsFiniteSet(1..n) /\ Cardinality(1..n) = n
    BY <1>1, FS_Interval
  <1>6. pos \in Surjection(indices, 1..n)
    BY <1>4, <1>5, FS_Injection
  <1>7. ASSUME NEW k \in 1..n PROVE h[k] \in indices /\ Cardinality(ahead[h[k]]) = k - 1
    <2>1. PICK i \in indices : pos[i] = k
      BY <1>6 DEF Surjection
    <2>2. Cardinality(ahead[i]) = k - 1
      BY <1>2, <2>1
    <2> QED
      BY <2>2
  <1>8. h \in [1..n -> indices]
    BY <1>7
  <1> HIDE DEF h
  <1>9. ASSUME NEW k \in 1..n, NEW l \in 1..n, h[k] = h[l] PROVE k = l
    BY <1>7, <1>9
  <1>10. ASSUME NEW i \in indices PROVE \E k \in 1..n : h[k] = i
    <2>1. Cardinality(ahead[i]) + 1 \in 1..n
      BY <1>1, <1>2
    <2>2. Cardinality(ahead[h[Cardinality(ahead[i]) + 1]]) = Cardinality(ahead[i])
          /\ h[Cardinality(ahead[i]) + 1] \in indices
      BY <1>2, <1>7, <2>1
    <2> QED
      BY <1>3, <2>1, <2>2
  <1>11. ASSUME NEW k \in 1..n, NEW l \in 1..n, k < l PROVE h[k] \in ahead[h[l]]
    <2>1. h[k] # h[l] /\ h[k] \in indices /\ h[l] \in indices
      BY <1>7, <1>9, <1>11
    <2>2. h[l] \notin ahead[h[k]]
      BY <1>2, <1>7, <1>11, <2>1
    <2> QED
      BY <2>1, <2>2 DEF StrictOrder
  <1>12. Places(h, ahead, indices, n)
    BY <1>8, <1>9, <1>10, <1>11 DEF Places
  <1>13. /\ DOMAIN InPlace(seq, indices, ahead) = 1..n
         /\ \A k \in 1..n : InPlace(seq, indices, ahead)[k] = seq[h[k]]
    BY DEF InPlace, h
  <1> QED
    BY <1>1, <1>12, <1>13

\* The order by a number, the ties by index: what a stable sort arranges by.
LEMMA KeyOrder ==
    ASSUME NEW indices \in SUBSET Int, NEW key, \A i \in indices : key[i] \in Int,
           NEW ahead,
           ahead = [i \in indices |-> {j \in indices : key[j] < key[i] \/ (j < i /\ ~(key[i] < key[j]))}]
    PROVE  StrictOrder(ahead, indices)
  <1>1. ahead \in [indices -> SUBSET indices]
    OBVIOUS
  <1>2. \A i \in indices, j \in indices :
          j \in ahead[i] <=> key[j] < key[i] \/ (j < i /\ ~(key[i] < key[j]))
    OBVIOUS
  <1>3. \A i \in indices : i \notin ahead[i] /\ \A j \in ahead[i] : ahead[j] \subseteq ahead[i]
    <2>1. \A i \in indices : i \notin ahead[i]
      BY <1>2
    <2>2. ASSUME NEW i \in indices, NEW j \in ahead[i], NEW k \in ahead[j] PROVE k \in ahead[i]
      <3>1. j \in indices /\ k \in indices
        BY <1>1, <2>2
      <3>2. /\ key[j] < key[i] \/ (j < i /\ ~(key[i] < key[j]))
            /\ key[k] < key[j] \/ (k < j /\ ~(key[j] < key[k]))
        BY <1>2, <3>1
      <3>3. key[i] \in Int /\ key[j] \in Int /\ key[k] \in Int /\ i \in Int /\ j \in Int /\ k \in Int
        BY <3>1
      <3>4. key[k] < key[i] \/ (k < i /\ ~(key[i] < key[k]))
        BY <3>2, <3>3
      <3> QED
        BY <1>2, <3>1, <3>4
    <2> QED
      BY <1>1, <2>1, <2>2
  <1>4. \A i, j \in indices : i # j => i \in ahead[j] \/ j \in ahead[i]
    <2> SUFFICES ASSUME NEW i \in indices, NEW j \in indices, i # j PROVE i \in ahead[j] \/ j \in ahead[i]
      OBVIOUS
    <2>1. key[i] \in Int /\ key[j] \in Int /\ i \in Int /\ j \in Int
      OBVIOUS
    <2> QED
      BY <1>2, <2>1
  <1> QED
    BY <1>1, <1>3, <1>4 DEF StrictOrder

-----------------------------------------------------------------------------
(* Clusters.  Each is a band of levels, the bands are apart, and the last  *)
(* one is near its own highest level: so a level at the same price joins.  *)

Level == [price : Nat, weight : Nat]

Band(c) ==
    /\ c \in Seq(Level) /\ c # <<>> /\ Prices(c) \in Nat
    /\ c[1].price <= Last(c).price
    /\ c[1].price * Len(c) <= Prices(c) /\ Prices(c) <= Last(c).price * Len(c)

BandsApart(cs) ==
    /\ cs \in Seq(Seq(Level)) /\ \A k \in 1..Len(cs) : Band(cs[k])
    /\ \A k, l \in 1..Len(cs) : k < l => Last(cs[k]).price < cs[l][1].price

LEMMA TotalAppend ==
    ASSUME NEW s \in Seq(Int), NEW v \in Int
    PROVE  Total(Append(s, v)) = Total(s) + v /\ Total(s) \in Int
  <1>1. Len(s) \in Nat /\ DOMAIN s = 1..Len(s) /\ \A i \in 1..Len(s) : s[i] \in Int
    BY LenProperties, ElementOfSeq
  <1> DEFINE D == 1..Len(s)
             x == Len(s) + 1
             t == Append(s, v)
  <1>2. IsFiniteSet(D)
    BY <1>1, FS_Interval
  <1>3. DOMAIN t = D \cup {x} /\ x \notin D /\ t[x] = v /\ \A i \in D : t[i] = s[i]
    BY <1>1
  <1>4. Total(t) = SumOf(t, D \cup {x}) /\ Total(s) = SumOf(s, D)
    BY <1>1, <1>3 DEF Total, SumOf
  <1>5. \A i \in D : t[i] \in Int /\ s[i] \in Int /\ t[i] = s[i]
    BY <1>1, <1>3
  <1> HIDE DEF D, x, t
  <1>6. SumOf(t, D \cup {x}) = SumOf(t, D) + t[x]
    BY <1>2, <1>3, <1>5, SumAdd
  <1>7. SumOf(t, D) = SumOf(s, D) /\ SumOf(s, D) \in Int
    BY <1>2, <1>5, SumSame, SumInt
  <1> QED
    BY <1>3, <1>4, <1>6, <1>7 DEF t

LEMMA PricesAre ==
    ASSUME NEW c \in Seq(Level), NEW lv \in Level
    PROVE  /\ Prices(Append(c, lv)) = Prices(c) + lv.price
           /\ Prices(<<lv>>) = lv.price
           /\ Prices(c) \in Nat
  <1>1. Len(c) \in Nat /\ DOMAIN c = 1..Len(c) /\ \A i \in 1..Len(c) : c[i] \in Level
    BY LenProperties, ElementOfSeq
  <1> DEFINE prices == [i \in DOMAIN c |-> c[i].price]
             grown == [i \in DOMAIN Append(c, lv) |-> Append(c, lv)[i].price]
  <1>2. prices \in Seq(Nat) /\ Len(prices) = Len(c)
    BY <1>1 DEF Level
  <1>3. grown = Append(prices, lv.price)
    <2>1. DOMAIN Append(c, lv) = 1..(Len(c) + 1)
      BY <1>1
    <2>2. DOMAIN Append(prices, lv.price) = 1..(Len(c) + 1)
      BY <1>1, <1>2
    <2>3. \A i \in 1..(Len(c) + 1) : grown[i] = Append(prices, lv.price)[i]
      BY <1>1, <1>2, <2>1
    <2>4. Append(prices, lv.price) = [i \in 1..(Len(c) + 1) |-> Append(prices, lv.price)[i]]
      BY <1>2, <2>2
    <2> QED
      BY <2>1, <2>3, <2>4
  <1>4. Prices(c) = Total(prices) /\ Prices(Append(c, lv)) = Total(grown)
    BY DEF Prices, Column
  <1>5. lv.price \in Nat
    BY DEF Level
  <1>6. prices \in Seq(Int) /\ Total(grown) = Total(prices) + lv.price
    <2>1. prices \in Seq(Int)
      BY <1>2
    <2>2. PICK s, g, v : s = prices /\ g = grown /\ v = lv.price
      OBVIOUS
    <2>3. s \in Seq(Int) /\ v \in Int /\ g = Append(s, v)
      BY <1>3, <1>5, <2>1, <2>2
    <2>4. Total(g) = Total(s) + v
      BY <2>3, TotalAppend
    <2> QED
      BY <2>1, <2>2, <2>4
  <1>7. Total(prices) \in Nat
    <2>1. IsFiniteSet(1..Len(c)) /\ \A i \in 1..Len(c) : prices[i] \in Nat
      BY <1>1, FS_Interval DEF Level
    <2>2. Total(prices) = SumOf(prices, 1..Len(c))
      BY <1>1 DEF Total, SumOf
    <2> QED
      BY <2>1, <2>2, SumNat
  <1>8. Prices(<<lv>>) = lv.price
    <2> DEFINE one == [i \in DOMAIN <<lv>> |-> <<lv>>[i].price]
    <2>1. DOMAIN one = {1} /\ one[1] = lv.price
      OBVIOUS
    <2>2. Prices(<<lv>>) = SumOf(one, {1})
      BY <2>1 DEF Prices, Column, Total, SumOf
    <2> HIDE DEF one
    <2>3. SumOf(one, {} \cup {1}) = SumOf(one, {}) + one[1]
      <3>1. IsFiniteSet({}) /\ 1 \notin {} /\ one[1] \in Int /\ \A i \in {} : one[i] \in Int
        BY <1>5, <2>1, FS_EmptySet
      <3> QED
        BY <3>1, SumAdd
    <2>4. {} \cup {1} = {1}
      OBVIOUS
    <2> QED
      BY <1>5, <2>1, <2>2, <2>3, <2>4, SumEmpty
  <1> QED
    BY <1>4, <1>6, <1>7, <1>8

LEMMA BandEnds ==
    ASSUME NEW c, Band(c)
    PROVE  /\ Len(c) \in Nat /\ Len(c) > 0 /\ DOMAIN c = 1..Len(c) /\ c \in Seq(Level)
           /\ c[1] \in Level /\ c[1].price \in Nat /\ Last(c) \in Level /\ Last(c).price \in Nat
  <1>1. Len(c) \in Nat /\ Len(c) > 0 /\ DOMAIN c = 1..Len(c) /\ c \in Seq(Level)
    BY LenProperties, EmptySeq DEF Band
  <1>2. c[1] \in Level /\ c[Len(c)] \in Level
    BY <1>1, ElementOfSeq
  <1> QED
    BY <1>1, <1>2 DEF Last, Level

LEMMA NearItself ==
    ASSUME NEW c \in Seq(Level), Band(c), NEW lv \in Level
    PROVE  Near(lv, c) <=> LET gap == lv.price * Len(c) - Prices(c)
                           IN  (IF gap >= 0 THEN gap ELSE -gap) * 100 <= Tolerance * Prices(c)
  <1>1. lv.price \in Nat /\ Len(c) \in Nat /\ Prices(c) \in Nat
    BY LenProperties DEF Level, Band
  <1>2. lv.price * Len(c) - Prices(c) \in Int
    BY <1>1
  <1>3. ASSUME NEW gap \in Int PROVE Larger(gap, -gap) = IF gap >= 0 THEN gap ELSE -gap
    BY DEF Larger
  <1> QED
    BY <1>2, <1>3 DEF Near

\* The last level of a band is near it.
NearOwn(c) == (Last(c).price * Len(c) - Prices(c)) * 100 <= Tolerance * Prices(c)

LEMMA BandOfOne ==
    ASSUME NEW lv \in Level
    PROVE  Band(<<lv>>) /\ NearOwn(<<lv>>) /\ Last(<<lv>>) = lv /\ <<lv>>[1] = lv
  <1>1. <<lv>> \in Seq(Level) /\ Len(<<lv>>) = 1 /\ <<lv>>[1] = lv /\ <<lv>> # <<>>
    OBVIOUS
  <1>2. Last(<<lv>>) = lv
    BY <1>1 DEF Last
  <1>3. Prices(<<lv>>) = lv.price
    BY <1>1, PricesAre
  <1>4. lv.price \in Nat
    BY DEF Level
  <1>5. ASSUME NEW p \in Nat PROVE (p * 1 - p) * 100 <= Tolerance * p /\ p * 1 <= p /\ p <= p * 1
    <2>1. Tolerance * p \in Nat
      BY ZoneAssumption
    <2> QED
      BY <2>1
  <1> QED
    BY <1>1, <1>2, <1>3, <1>4, <1>5 DEF Band, NearOwn

LEMMA BandGrows ==
    ASSUME NEW c \in Seq(Level), Band(c), NEW lv \in Level, Last(c).price <= lv.price, Near(lv, c)
    PROVE  /\ Band(Append(c, lv)) /\ NearOwn(Append(c, lv))
           /\ Last(Append(c, lv)) = lv /\ Append(c, lv)[1] = c[1]
  <1> DEFINE d == Append(c, lv)
  <1>1. /\ Len(c) \in Nat /\ Len(c) > 0 /\ DOMAIN c = 1..Len(c)
        /\ c[1] \in Level /\ Last(c) \in Level /\ lv.price \in Nat
    BY BandEnds DEF Level
  <1>2. d \in Seq(Level) /\ Len(d) = Len(c) + 1 /\ d[1] = c[1] /\ d[Len(c) + 1] = lv /\ d # <<>>
    BY <1>1
  <1>3. Last(d) = lv
    BY <1>2 DEF Last
  <1>4. Prices(d) = Prices(c) + lv.price
    BY PricesAre
  <1>5. PICK n, s, p, q, a : n = Len(c) /\ s = Prices(c) /\ p = lv.price /\ q = Last(c).price /\ a = c[1].price
    OBVIOUS
  <1>6. /\ n \in Nat /\ n > 0 /\ s \in Nat /\ p \in Nat /\ q \in Nat /\ a \in Nat
        /\ a <= q /\ q <= p /\ a * n <= s /\ s <= q * n
    BY <1>1, <1>5 DEF Band, Level
  <1>7. q * n <= p * n /\ q * n \in Nat /\ p * n \in Nat
    BY <1>6
  <1>8. p * n - s >= 0 /\ p * n - s \in Int
    BY <1>6, <1>7
  <1>9. (p * n - s) * 100 <= Tolerance * s
    BY <1>5, <1>8, NearItself
  <1>10. Tolerance * s <= Tolerance * (s + p) /\ Tolerance * s \in Nat /\ Tolerance * (s + p) \in Nat
    <2>1. Tolerance \in Nat
      BY ZoneAssumption
    <2>2. Tolerance * (s + p) = Tolerance * s + Tolerance * p
      BY <1>6, <2>1
    <2>3. Tolerance * s \in Nat /\ Tolerance * p \in Nat
      BY <1>6, <2>1
    <2> QED
      BY <2>2, <2>3
  <1>11. p * (n + 1) = p * n + p /\ a * (n + 1) = a * n + a
    BY <1>6
  <1>12. a * (n + 1) <= s + p /\ s + p <= p * (n + 1) /\ s + p \in Nat /\ a <= p
    <2>1. a * n \in Nat
      BY <1>6
    <2> QED
      BY <1>6, <1>7, <1>11, <2>1
  <1>13. p * (n + 1) - (s + p) = p * n - s
    BY <1>6, <1>7, <1>11
  <1>14. (p * (n + 1) - (s + p)) * 100 <= Tolerance * (s + p)
    BY <1>8, <1>9, <1>10, <1>13
  <1> HIDE DEF d
  <1>15. Band(d)
    BY <1>2, <1>3, <1>4, <1>5, <1>12 DEF Band
  <1>16. NearOwn(d)
    BY <1>2, <1>3, <1>4, <1>5, <1>14 DEF NearOwn
  <1> QED
    BY <1>2, <1>3, <1>15, <1>16 DEF d

\* A level at the price of the band's last one joins; one that does not lies above.
LEMMA FarIsAbove ==
    ASSUME NEW c \in Seq(Level), Band(c), NearOwn(c), NEW lv \in Level,
           Last(c).price <= lv.price, ~Near(lv, c)
    PROVE  Last(c).price < lv.price
  <1>1. Last(c).price \in Nat /\ lv.price \in Nat /\ Len(c) \in Nat /\ Prices(c) \in Nat
    BY BandEnds DEF Level, Band
  <1>2. ASSUME lv.price = Last(c).price PROVE FALSE
    <2>1. lv.price * Len(c) - Prices(c) \in Int /\ lv.price * Len(c) - Prices(c) >= 0
      BY <1>1, <1>2 DEF Band
    <2> QED
      BY <1>2, <2>1, NearItself DEF NearOwn
  <1> QED
    BY <1>1, <1>2

\* One step of cluster_levels.
Clustered(cs, lv) == BandsApart(cs) /\ cs # <<>> /\ NearOwn(Last(cs)) /\ Last(Last(cs)) = lv

LEMMA JoinedFirst ==
    ASSUME NEW lv \in Level PROVE Clustered(Joined(<<>>, lv), lv)
  <1>1. Joined(<<>>, lv) = <<<<lv>>>>
    BY DEF Joined
  <1>2. <<lv>> \in Seq(Level) /\ Band(<<lv>>) /\ NearOwn(<<lv>>) /\ Last(<<lv>>) = lv
    BY BandOfOne
  <1>3. PICK c : c = <<lv>>
    OBVIOUS
  <1>4. /\ <<c>> \in Seq(Seq(Level)) /\ Len(<<c>>) = 1 /\ <<c>>[1] = c /\ <<c>> # <<>>
        /\ Last(<<c>>) = c
    BY <1>2, <1>3 DEF Last
  <1>5. BandsApart(<<c>>)
    BY <1>2, <1>3, <1>4 DEF BandsApart
  <1> QED
    BY <1>1, <1>2, <1>3, <1>4, <1>5 DEF Clustered

LEMMA JoinedNext ==
    ASSUME NEW cs, NEW old \in Level, Clustered(cs, old), NEW lv \in Level, old.price <= lv.price
    PROVE  Clustered(Joined(cs, lv), lv)
  <1>1. PICK n, c : n = Len(cs) /\ c = Last(cs)
    OBVIOUS
  <1>2. /\ n \in Nat /\ n > 0 /\ DOMAIN cs = 1..n /\ c = cs[n] /\ c \in Seq(Level) /\ Band(c)
        /\ NearOwn(c) /\ Last(c) = old /\ \A k \in 1..n : cs[k] \in Seq(Level) /\ Band(cs[k])
    BY <1>1, LenProperties, ElementOfSeq DEF Clustered, BandsApart, Last
  <1>3. \A k \in 1..n : k < n => Last(cs[k]).price < c[1].price
    BY <1>1, <1>2 DEF Clustered, BandsApart
  <1>4. CASE Near(lv, c)
    <2>1. PICK d : d = Append(c, lv)
      OBVIOUS
    <2>2. d \in Seq(Level) /\ Band(d) /\ NearOwn(d) /\ Last(d) = lv /\ d[1] = c[1]
      BY <1>2, <1>4, <2>1, BandGrows
    <2>3. PICK front : front = Front(cs)
      OBVIOUS
    <2>4. front \in Seq(Seq(Level)) /\ Len(front) = n - 1 /\ \A k \in 1..(n - 1) : front[k] = cs[k]
      <3>1. \A k \in 1..(n - 1) : cs[k] \in Seq(Level)
        BY <1>2
      <3>2. front = SubSeq(cs, 1, n - 1)
        BY <1>1, <2>3 DEF Front
      <3>3. n - 1 \in Int /\ (IF 1 <= n - 1 THEN n - 1 - 1 + 1 ELSE 0) = n - 1 /\ (n - 1) - 1 + 1 = n - 1
        BY <1>2
      <3>4. \A k \in 1..(n - 1) : 1 + k - 1 = k
        OBVIOUS
      <3> QED
        BY <3>1, <3>2, <3>3, <3>4, SubSeqProperties
    <2>5. PICK ds : ds = Append(front, d)
      OBVIOUS
    <2>6. Joined(cs, lv) = ds
      BY <1>1, <1>4, <2>1, <2>3, <2>5 DEF Joined, Clustered
    <2>7. /\ ds \in Seq(Seq(Level)) /\ Len(ds) = n /\ ds[n] = d /\ ds # <<>>
          /\ \A k \in 1..n : k # n => ds[k] = cs[k]
      BY <1>2, <2>2, <2>4, <2>5
    <2>8. Last(ds) = d
      BY <2>7 DEF Last
    <2>9. \A k \in 1..Len(ds) : Band(ds[k])
      BY <1>2, <2>2, <2>7
    <2>10. ASSUME NEW k \in 1..n, NEW l \in 1..n, k < l PROVE Last(ds[k]).price < ds[l][1].price
      <3>1. k # n /\ ds[k] = cs[k]
        BY <2>7, <2>10
      <3>2. CASE l = n
        BY <1>3, <2>2, <2>7, <2>10, <3>1, <3>2
      <3>3. CASE l # n
        BY <1>1, <2>7, <2>10, <3>1, <3>3 DEF Clustered, BandsApart
      <3> QED
        BY <3>2, <3>3
    <2> QED
      BY <2>2, <2>6, <2>7, <2>8, <2>9, <2>10 DEF Clustered, BandsApart
  <1>5. CASE ~Near(lv, c)
    <2>1. PICK d : d = <<lv>>
      OBVIOUS
    <2>2. d \in Seq(Level) /\ Band(d) /\ NearOwn(d) /\ Last(d) = lv /\ d[1] = lv
      BY <2>1, BandOfOne
    <2>3. Last(c).price < lv.price
      BY <1>2, <1>5, FarIsAbove
    <2>4. PICK ds : ds = Append(cs, d)
      OBVIOUS
    <2>5. Joined(cs, lv) = ds
      BY <1>1, <1>5, <2>1, <2>4 DEF Joined
    <2>6. /\ ds \in Seq(Seq(Level)) /\ Len(ds) = n + 1 /\ ds[n + 1] = d /\ ds # <<>>
          /\ \A k \in 1..n : ds[k] = cs[k]
      BY <1>1, <1>2, <2>2, <2>4 DEF Clustered, BandsApart
    <2>7. Last(ds) = d
      BY <2>6 DEF Last
    <2>8. \A k \in 1..(n + 1) : Band(ds[k])
      <3>1. \A k \in 1..(n + 1) : k \in 1..n \/ k = n + 1
        BY <1>2
      <3> QED
        BY <1>2, <2>2, <2>6, <3>1
    <2>9. \A k \in 1..n : Last(ds[k]).price < lv.price
      <3> SUFFICES ASSUME NEW k \in 1..n PROVE Last(cs[k]).price < lv.price
        BY <2>6
      <3>1. CASE k = n
        BY <1>2, <2>3, <3>1
      <3>2. CASE k # n
        <4>1. Last(cs[k]).price < c[1].price /\ c[1].price <= Last(c).price
          BY <1>2, <1>3, <3>2 DEF Band
        <4>2. Last(cs[k]).price \in Nat /\ c[1].price \in Nat /\ Last(c).price \in Nat /\ lv.price \in Nat
          BY <1>2, BandEnds DEF Level
        <4> QED
          BY <2>3, <4>1, <4>2
      <3> QED
        BY <3>1, <3>2
    <2>10. ASSUME NEW k \in 1..(n + 1), NEW l \in 1..(n + 1), k < l PROVE Last(ds[k]).price < ds[l][1].price
      <3>1. k \in 1..n
        BY <1>2, <2>10
      <3>2. CASE l = n + 1
        BY <2>2, <2>6, <2>9, <3>1, <3>2
      <3>3. CASE l \in 1..n
        BY <1>1, <2>6, <2>10, <3>1, <3>3 DEF Clustered, BandsApart
      <3> QED
        BY <1>2, <3>2, <3>3
    <2> QED
      BY <2>2, <2>5, <2>6, <2>7, <2>8, <2>10 DEF Clustered, BandsApart
  <1> QED
    BY <1>4, <1>5

Joining(g, ordered) ==
    [n \in 0..Len(ordered) |-> IF n = 0 THEN <<>> ELSE Joined(g[n - 1], ordered[n])]

LEMMA ClustersUnfold ==
    ASSUME NEW ordered
    PROVE  \E h : /\ ClustersOf(ordered) = h[Len(ordered)]
                  /\ (\E g : g = Joining(g, ordered)) => h = Joining(h, ordered)
  <1> DEFINE h == CHOOSE g : g = Joining(g, ordered)
  <1>1. ClustersOf(ordered) = h[Len(ordered)]
    BY DEF ClustersOf, Joining
  <1>2. (\E g : g = Joining(g, ordered)) => h = Joining(h, ordered)
    OBVIOUS
  <1> QED
    BY <1>1, <1>2

LEMMA JoiningExists ==
    ASSUME NEW ordered, Len(ordered) \in Nat PROVE \E g : g = Joining(g, ordered)
  <1> DEFINE upTo(g, m) == g = [n \in 0..m |-> IF n = 0 THEN <<>> ELSE Joined(g[n - 1], ordered[n])]
             G == {m \in Nat : \E g : upTo(g, m)}
  <1>1. 0 \in G
    <2>1. upTo([n \in 0..0 |-> <<>>], 0)
      OBVIOUS
    <2> QED
      BY <2>1
  <1>2. ASSUME NEW m \in Nat, m \in G PROVE m + 1 \in G
    <2>1. PICK g : upTo(g, m)
      BY <1>2
    <2> DEFINE h == [n \in 0..(m + 1) |-> IF n = 0 THEN <<>> ELSE Joined(g[n - 1], ordered[n])]
    <2>2. ASSUME NEW n \in 0..m PROVE h[n] = g[n]
      <3>1. n \in 0..(m + 1)
        OBVIOUS
      <3>2. h[n] = IF n = 0 THEN <<>> ELSE Joined(g[n - 1], ordered[n])
        BY <3>1
      <3>3. g[n] = IF n = 0 THEN <<>> ELSE Joined(g[n - 1], ordered[n])
        BY <2>1
      <3> QED
        BY <3>2, <3>3
    <2>3. ASSUME NEW n \in 0..(m + 1)
          PROVE  h[n] = IF n = 0 THEN <<>> ELSE Joined(h[n - 1], ordered[n])
      <3>1. CASE n = 0
        BY <3>1
      <3>2. CASE n # 0
        <4>1. n - 1 \in 0..m
          BY <3>2
        <4> QED
          BY <2>2, <4>1
      <3> QED
        BY <3>1, <3>2
    <2>4. upTo(h, m + 1)
      BY <2>3
    <2>5. m + 1 \in Nat
      OBVIOUS
    <2> HIDE DEF h, upTo
    <2> QED
      BY <2>4, <2>5
  <1> HIDE DEF G
  <1>3. Nat \subseteq G
    BY <1>1, <1>2, NatClosed
  <1>4. Len(ordered) \in G
    BY <1>3
  <1> QED
    BY <1>4 DEF G, Joining

LEMMA ClustersApart ==
    ASSUME NEW ordered \in Seq(Level),
           \A i, j \in 1..Len(ordered) : i < j => ordered[i].price <= ordered[j].price
    PROVE  BandsApart(ClustersOf(ordered))
  <1> DEFINE N == Len(ordered)
  <1>1. N \in Nat /\ \A i \in 1..N : ordered[i] \in Level
    BY LenProperties, ElementOfSeq
  <1>2. PICK h : ClustersOf(ordered) = h[N] /\ h = Joining(h, ordered)
    BY <1>1, ClustersUnfold, JoiningExists
  <1>3. h[0] = <<>> /\ \A n \in 1..N : h[n] = Joined(h[n - 1], ordered[n])
    <2>1. 0 \in 0..N /\ \A n \in 1..N : n \in 0..N /\ n # 0
      BY <1>1
    <2> QED
      BY <1>2, <2>1 DEF Joining
  <1> DEFINE G == {n \in Nat : n + 1 <= N => Clustered(h[n + 1], ordered[n + 1])}
  <1>4. 0 \in G
    <2>1. CASE 1 <= N
      <3>1. 1 \in 1..N /\ 1 - 1 = 0 /\ 0 + 1 = 1
        BY <1>1, <2>1
      <3> QED
        BY <1>1, <1>3, <3>1, JoinedFirst
    <2> QED
      BY <2>1
  <1>5. ASSUME NEW n \in Nat, n \in G PROVE n + 1 \in G
    <2> SUFFICES ASSUME (n + 1) + 1 <= N PROVE Clustered(h[(n + 1) + 1], ordered[(n + 1) + 1])
      OBVIOUS
    <2>1. n + 1 \in 1..N /\ (n + 1) + 1 \in 1..N /\ ((n + 1) + 1) - 1 = n + 1 /\ n + 1 < (n + 1) + 1
      BY <1>1
    <2>2. Clustered(h[n + 1], ordered[n + 1])
      BY <1>5, <2>1
    <2>3. ordered[n + 1].price <= ordered[(n + 1) + 1].price
      BY <2>1
    <2>4. h[(n + 1) + 1] = Joined(h[n + 1], ordered[(n + 1) + 1])
      BY <1>3, <2>1
    <2> QED
      BY <1>1, <2>1, <2>2, <2>3, <2>4, JoinedNext
  <1> HIDE DEF G
  <1>6. Nat \subseteq G
    BY <1>4, <1>5, NatClosed
  <1>7. CASE N = 0
    <2>1. ClustersOf(ordered) = <<>>
      BY <1>2, <1>3, <1>7
    <2>2. <<>> \in Seq(Seq(Level)) /\ Len(<<>>) = 0
      OBVIOUS
    <2> QED
      BY <2>1, <2>2 DEF BandsApart
  <1>8. CASE N # 0
    <2>1. N - 1 \in Nat /\ (N - 1) + 1 = N
      BY <1>1, <1>8
    <2>2. N - 1 \in G
      BY <1>6, <2>1
    <2> QED
      BY <1>2, <2>1, <2>2 DEF G, Clustered
  <1> QED
    BY <1>7, <1>8

-----------------------------------------------------------------------------
(* The levels: whatever method finds one, its price is a natural number.   *)

LEMMA LargestOf ==
    ASSUME NEW n \in Nat, n > 0, NEW v, \A i \in 1..n : v[i] \in Int
    PROVE  \E i \in 1..n : \A j \in 1..n : v[j] <= v[i]
  <1> DEFINE G == {m \in Nat : m + 1 <= n => \E i \in 1..(m + 1) : \A j \in 1..(m + 1) : v[j] <= v[i]}
  <1>1. 0 \in G
    <2>1. 1..(0 + 1) = {1} /\ v[1] \in Int
      OBVIOUS
    <2> QED
      BY <2>1
  <1>2. ASSUME NEW m \in Nat, m \in G PROVE m + 1 \in G
    <2> SUFFICES ASSUME (m + 1) + 1 <= n
                 PROVE  \E i \in 1..((m + 1) + 1) : \A j \in 1..((m + 1) + 1) : v[j] <= v[i]
      OBVIOUS
    <2>1. PICK i \in 1..(m + 1) : \A j \in 1..(m + 1) : v[j] <= v[i]
      BY <1>2
    <2>2. PICK x : x = (m + 1) + 1
      OBVIOUS
    <2>3. /\ x \in 1..n /\ i \in 1..n /\ i \in 1..x /\ x \in 1..x
          /\ \A j \in 1..x : j = x \/ j \in 1..(m + 1)
      BY <2>1, <2>2
    <2>4. v[i] \in Int /\ v[x] \in Int
      BY <2>3
    <2>5. CASE v[x] <= v[i]
      <3>1. \A j \in 1..x : v[j] <= v[i]
        BY <2>1, <2>3, <2>5
      <3> QED
        BY <2>2, <2>3, <3>1
    <2>6. CASE ~(v[x] <= v[i])
      <3>1. ASSUME NEW j \in 1..x PROVE v[j] <= v[x]
        <4>1. CASE j = x
          BY <2>4, <4>1
        <4>2. CASE j \in 1..(m + 1)
          <5>1. v[j] <= v[i] /\ v[j] \in Int
            BY <2>1, <4>2, <2>3, <2>2
          <5> QED
            BY <2>4, <2>6, <5>1
        <4> QED
          BY <2>3, <4>1, <4>2
      <3> QED
        BY <2>2, <2>3, <3>1
    <2> QED
      BY <2>5, <2>6
  <1> HIDE DEF G
  <1>3. Nat \subseteq G
    BY <1>1, <1>2, NatClosed
  <1>4. n - 1 \in G /\ (n - 1) + 1 = n
    BY <1>3
  <1> QED
    BY <1>4 DEF G

LEMMA RangeOfCandles ==
    ASSUME NEW cs \in Seq(Shapes), cs # <<>>
    PROVE  Highest(cs) \in Nat /\ Lowest(cs) \in Nat /\ Lowest(cs) <= Highest(cs)
  <1>1. Len(cs) \in Nat /\ Len(cs) > 0 /\ DOMAIN cs = 1..Len(cs)
    BY LenProperties, EmptySeq
  <1>2. \A i \in 1..Len(cs) : cs[i].high \in Nat /\ cs[i].low \in Nat /\ cs[i].low <= cs[i].high
    <2> SUFFICES ASSUME NEW i \in 1..Len(cs)
                 PROVE  cs[i].high \in Nat /\ cs[i].low \in Nat /\ cs[i].low <= cs[i].high
      OBVIOUS
    <2>1. cs[i] \in Shapes
      BY ElementOfSeq
    <2>2. /\ cs[i].high \in Nat /\ cs[i].low \in Nat /\ cs[i].close \in Nat
          /\ cs[i].low <= cs[i].close /\ cs[i].close <= cs[i].high
      BY <2>1, ZoneAssumption
    <2> QED
      BY <2>2
  <1> DEFINE high == [i \in 1..Len(cs) |-> cs[i].high]
             low == [i \in 1..Len(cs) |-> -cs[i].low]
             H == {cs[i].high : i \in DOMAIN cs}
             L == {cs[i].low : i \in DOMAIN cs}
  <1>3. PICK i \in 1..Len(cs) : \A j \in 1..Len(cs) : high[j] <= high[i]
    <2>1. \A k \in 1..Len(cs) : high[k] \in Int
      BY <1>2
    <2> HIDE DEF high
    <2> QED
      BY <1>1, <2>1, LargestOf
  <1>4. PICK k \in 1..Len(cs) : \A j \in 1..Len(cs) : low[j] <= low[k]
    <2>1. \A j \in 1..Len(cs) : low[j] \in Int
      BY <1>2
    <2> HIDE DEF low
    <2> QED
      BY <1>1, <2>1, LargestOf
  <1>5. cs[i].high \in H /\ \A y \in H : cs[i].high >= y
    BY <1>1, <1>2, <1>3
  <1>6. cs[k].low \in L /\ \A y \in L : cs[k].low <= y
    <2>1. ASSUME NEW j \in 1..Len(cs) PROVE cs[k].low <= cs[j].low
      <3>1. low[j] <= low[k] /\ low[j] = -cs[j].low /\ low[k] = -cs[k].low
        BY <1>4
      <3> QED
        BY <1>2, <3>1
    <2> QED
      BY <1>1, <2>1
  <1>7. Highest(cs) \in H /\ \A y \in H : Highest(cs) >= y
    BY <1>5 DEF Highest, Max
  <1>8. Lowest(cs) \in L /\ \A y \in L : Lowest(cs) <= y
    BY <1>6 DEF Lowest, Min
  <1>9. Highest(cs) \in Nat /\ Lowest(cs) \in Nat
    BY <1>1, <1>2, <1>7, <1>8
  <1>10. cs[1].high \in H /\ cs[1].low \in L /\ 1 \in 1..Len(cs)
    BY <1>1
  <1>11. Lowest(cs) <= cs[1].low /\ cs[1].low <= cs[1].high /\ cs[1].high <= Highest(cs)
    BY <1>2, <1>7, <1>8, <1>10
  <1> QED
    BY <1>2, <1>9, <1>10, <1>11

LEMMA SequenceOf ==
    ASSUME NEW S, IsFiniteSet(S) PROVE SetToSeq(S) \in Seq(S)
  <1>1. Cardinality(S) \in Nat /\ ExistsBijection(1..Cardinality(S), S)
    BY FS_CardinalityType
  <1>2. PICK g : g \in [1..Cardinality(S) -> S] /\ IsInjective(g)
    BY <1>1 DEF ExistsBijection, Bijection, Injection
  <1>3. SetToSeq(S) \in [1..Cardinality(S) -> S]
    BY <1>2 DEF SetToSeq
  <1> QED
    BY <1>1, <1>3

LEMMA LevelsTyped ==
    ASSUME NEW prices \in Seq(Nat), NEW weight \in Nat PROVE Levels(prices, weight) \in Seq(Level)
  <1>1. Len(prices) \in Nat /\ DOMAIN prices = 1..Len(prices)
    BY LenProperties
  <1>2. \A i \in 1..Len(prices) : [price |-> prices[i], weight |-> weight] \in Level
    BY ElementOfSeq DEF Level
  <1>3. Levels(prices, weight) = [i \in 1..Len(prices) |-> [price |-> prices[i], weight |-> weight]]
    BY <1>1 DEF Levels, Column
  <1> QED
    BY <1>1, <1>2, <1>3

LEMMA NodesTyped ==
    ASSUME NEW cs \in Seq(Shapes), cs # <<>> PROVE VolumeNodes(cs) \in Seq(Nat)
  <1>1. Highest(cs) \in Nat /\ Lowest(cs) \in Nat /\ Lowest(cs) <= Highest(cs)
    BY RangeOfCandles
  <1>2. PICK low, span : low = Lowest(cs) /\ span = Highest(cs) - low
    OBVIOUS
  <1>3. low \in Nat /\ span \in Nat /\ Bins \in Nat /\ Bins > 0
    BY <1>1, <1>2, ZoneAssumption
  <1> DEFINE price(b) == low + ((2 * b + 1) * span) \div (2 * Bins)
             column(S) == [i \in DOMAIN SetToSeq(S) |-> price(SetToSeq(S)[i])]
  <1>4. VolumeNodes(cs) = <<>> \/ \E S \in SUBSET (0..(Bins - 1)) : VolumeNodes(cs) = column(S)
    BY <1>2 DEF VolumeNodes, Column
  <1>5. ASSUME NEW b \in 0..(Bins - 1) PROVE price(b) \in Nat
    <2>1. (2 * b + 1) * span \in Nat /\ 2 * Bins \in Nat /\ 2 * Bins > 0
      BY <1>3
    <2>2. ASSUME NEW x \in Nat, NEW y \in Nat, y > 0 PROVE x \div y \in Nat
      BY <2>2
    <2>3. ((2 * b + 1) * span) \div (2 * Bins) \in Nat
      BY <2>1, <2>2
    <2> QED
      BY <1>3, <2>3
  <1>6. ASSUME NEW S \in SUBSET (0..(Bins - 1)) PROVE column(S) \in Seq(Nat)
    <2>1. IsFiniteSet(0..(Bins - 1))
      BY <1>3, FS_Interval
    <2>2. IsFiniteSet(S)
      BY <2>1, FS_Subset
    <2>3. SetToSeq(S) \in Seq(S)
      BY <2>2, SequenceOf
    <2>4. PICK q : q = SetToSeq(S)
      OBVIOUS
    <2>5. Len(q) \in Nat /\ DOMAIN q = 1..Len(q) /\ \A i \in 1..Len(q) : q[i] \in 0..(Bins - 1)
      BY <2>3, <2>4, LenProperties, ElementOfSeq
    <2>6. column(S) = [i \in 1..Len(q) |-> price(q[i])]
      BY <2>4, <2>5
    <2>7. \A i \in 1..Len(q) : price(q[i]) \in Nat
      BY <1>5, <2>5
    <2> HIDE DEF price
    <2>8. [i \in 1..Len(q) |-> price(q[i])] \in Seq(Nat)
      BY <2>5, <2>7
    <2> QED
      BY <2>6, <2>8
  <1>7. <<>> \in Seq(Nat)
    OBVIOUS
  <1> HIDE DEF price, column
  <1> QED
    BY <1>4, <1>6, <1>7

LEMMA RetracementsTyped ==
    ASSUME NEW cs \in Seq(Shapes), cs # <<>> PROVE Retracements(cs) \in Seq(Nat)
  <1>1. PICK high, span : high = Highest(cs) /\ span = Highest(cs) - Lowest(cs)
    OBVIOUS
  <1>2. high \in Nat /\ span \in Nat /\ span <= high
    BY <1>1, RangeOfCandles
  <1> DEFINE value(r) == high - (r * span) \div 1000
             q == <<382, 500, 618, 786>>
  <1>3. \A r \in 0..1000 : value(r) \in Nat
    <2> SUFFICES ASSUME NEW r \in 0..1000 PROVE value(r) \in Nat
      OBVIOUS
    <2>1. r * span \in Nat /\ r * span <= 1000 * span
      BY <1>2
    <2>2. (r * span) \div 1000 \in Nat /\ (r * span) \div 1000 <= span
      BY <1>2, <2>1
    <2> QED
      BY <1>2, <2>2
  <1>4. Retracements(cs) = <<>> \/ Retracements(cs) = [i \in DOMAIN q |-> value(q[i])]
    BY <1>1 DEF Retracements, Column
  <1>5. DOMAIN q = 1..4 /\ \A i \in 1..4 : q[i] \in 0..1000
    OBVIOUS
  <1>6. <<>> \in Seq(Nat)
    OBVIOUS
  <1> HIDE DEF q, value
  <1>7. [i \in 1..4 |-> value(q[i])] \in Seq(Nat)
    <2>1. \A i \in 1..4 : value(q[i]) \in Nat
      BY <1>3, <1>5
    <2>2. PICK n \in Nat : n = 4
      OBVIOUS
    <2>3. [i \in 1..n |-> value(q[i])] \in Seq(Nat)
      BY <2>1, <2>2
    <2> QED
      BY <2>2, <2>3
  <1>8. CASE Retracements(cs) = <<>>
    BY <1>6, <1>8
  <1>9. CASE Retracements(cs) = [i \in DOMAIN q |-> value(q[i])]
    BY <1>5, <1>7, <1>9
  <1> QED
    BY <1>4, <1>8, <1>9

\* The swings, each at the high or the low of its candle.
LEMMA SwingsTyped ==
    ASSUME NEW cs \in Seq(Shapes)
    PROVE  /\ At(cs, SwingHighs(cs), LAMBDA c : c.high) \in Seq(Nat)
           /\ At(cs, SwingLows(cs), LAMBDA c : c.low) \in Seq(Nat)
  <1>1. Len(cs) \in Nat /\ DOMAIN cs = 1..Len(cs)
    BY LenProperties
  <1>2. \A i \in 1..Len(cs) : cs[i].high \in Nat /\ cs[i].low \in Nat
    <2>1. \A i \in 1..Len(cs) : cs[i] \in Shapes
      BY ElementOfSeq
    <2> QED
      BY <2>1, ZoneAssumption
  <1>3. ASSUME NEW S \in SUBSET (3..(Len(cs) - 2)), NEW q, q = SetToSeq(S)
        PROVE  /\ Len(q) \in Nat /\ DOMAIN q = 1..Len(q)
               /\ \A i \in 1..Len(q) : cs[q[i]].high \in Nat /\ cs[q[i]].low \in Nat
    <2>1. IsFiniteSet(3..(Len(cs) - 2))
      BY <1>1, FS_Interval
    <2>2. IsFiniteSet(S)
      BY <2>1, FS_Subset
    <2>3. q \in Seq(S)
      BY <1>3, <2>2, SequenceOf
    <2>4. Len(q) \in Nat /\ DOMAIN q = 1..Len(q) /\ \A i \in 1..Len(q) : q[i] \in S
      BY <2>3, LenProperties, ElementOfSeq
    <2>5. \A k \in S : k \in 1..Len(cs)
      BY <1>1
    <2>6. \A i \in 1..Len(q) : q[i] \in 1..Len(cs)
      BY <2>4, <2>5
    <2> QED
      BY <1>2, <2>4, <2>6
  <1>4. PICK q : q = SetToSeq(SwingHighs(cs))
    OBVIOUS
  <1>5. PICK u : u = SetToSeq(SwingLows(cs))
    OBVIOUS
  <1>6. SwingHighs(cs) \in SUBSET (3..(Len(cs) - 2)) /\ SwingLows(cs) \in SUBSET (3..(Len(cs) - 2))
    BY DEF SwingHighs, SwingLows, Swing
  <1>7. /\ At(cs, SwingHighs(cs), LAMBDA c : c.high) = [i \in DOMAIN q |-> cs[q[i]].high]
        /\ At(cs, SwingLows(cs), LAMBDA c : c.low) = [i \in DOMAIN u |-> cs[u[i]].low]
    BY <1>4, <1>5 DEF At, Column
  <1>8. [i \in DOMAIN q |-> cs[q[i]].high] \in Seq(Nat)
    BY <1>3, <1>4, <1>6
  <1>9. [i \in DOMAIN u |-> cs[u[i]].low] \in Seq(Nat)
    BY <1>3, <1>5, <1>6
  <1> QED
    BY <1>7, <1>8, <1>9

LEMMA LevelsOfTyped ==
    ASSUME NEW cs \in Seq(Shapes), cs # <<>> PROVE LevelsOf(cs) \in Seq(Level)
  <1>1. PICK a, b, c, f : /\ a = At(cs, SwingHighs(cs), LAMBDA x : x.high)
                          /\ b = At(cs, SwingLows(cs), LAMBDA x : x.low)
                          /\ c = VolumeNodes(cs) /\ f = Retracements(cs)
    OBVIOUS
  <1>2. a \in Seq(Nat) /\ b \in Seq(Nat) /\ c \in Seq(Nat) /\ f \in Seq(Nat)
    BY <1>1, SwingsTyped, NodesTyped, RetracementsTyped
  <1>3. PICK prior : prior = cs[Len(cs) - 1]
    OBVIOUS
  <1>4. PICK d : d = IF Len(cs) < 2 THEN <<>>
                     ELSE Levels(<<prior.high, prior.low>>, 13) \o Levels(<<prior.close>>, 9)
    OBVIOUS
  <1>5. LevelsOf(cs) = Levels(a, 12) \o Levels(b, 12) \o Levels(c, 15) \o d \o Levels(f, 8)
    BY <1>1, <1>3, <1>4 DEF LevelsOf
  <1>6. /\ Levels(a, 12) \in Seq(Level) /\ Levels(b, 12) \in Seq(Level)
        /\ Levels(c, 15) \in Seq(Level) /\ Levels(f, 8) \in Seq(Level)
    BY <1>2, LevelsTyped
  <1>7. d \in Seq(Level)
    <2>1. CASE Len(cs) < 2
      BY <1>4, <2>1
    <2>2. CASE ~(Len(cs) < 2)
      <3>1. Len(cs) - 1 \in 1..Len(cs)
        BY <2>2, LenProperties
      <3>2. prior \in Shapes
        BY <1>3, <3>1, ElementOfSeq
      <3>3. prior.high \in Nat /\ prior.low \in Nat /\ prior.close \in Nat
        BY <3>2, ZoneAssumption
      <3>4. <<prior.high, prior.low>> \in Seq(Nat) /\ <<prior.close>> \in Seq(Nat)
        BY <3>3
      <3>5. Levels(<<prior.high, prior.low>>, 13) \in Seq(Level) /\ Levels(<<prior.close>>, 9) \in Seq(Level)
        BY <3>4, LevelsTyped
      <3> QED
        BY <1>4, <2>2, <3>5, ConcatProperties
    <2> QED
      BY <2>1, <2>2
  <1>8. Levels(a, 12) \o Levels(b, 12) \in Seq(Level)
    BY <1>6, ConcatProperties
  <1>9. Levels(a, 12) \o Levels(b, 12) \o Levels(c, 15) \in Seq(Level)
    BY <1>6, <1>8, ConcatProperties
  <1>10. Levels(a, 12) \o Levels(b, 12) \o Levels(c, 15) \o d \in Seq(Level)
    BY <1>7, <1>9, ConcatProperties
  <1> QED
    BY <1>5, <1>6, <1>10, ConcatProperties

-----------------------------------------------------------------------------
(* An arrangement by a number: the elements at the indices, each once, so  *)
(* that the numbers do not fall.                                           *)

ByKey(q, seq, indices, key) ==
    \E m \in Nat : \E h \in [1..m -> indices] :
        /\ q = [k \in 1..m |-> seq[h[k]]]
        /\ \A k, l \in 1..m : h[k] = h[l] => k = l
        /\ \A i \in indices : \E k \in 1..m : h[k] = i
        /\ \A k, l \in 1..m : k < l => key[h[k]] <= key[h[l]]

LEMMA ArrangedInOrder ==
    ASSUME NEW indices, IsFiniteSet(indices), NEW ahead, StrictOrder(ahead, indices), NEW seq,
           NEW key, \A i \in indices : key[i] \in Int /\ \A j \in ahead[i] : key[j] <= key[i]
    PROVE  ByKey(InPlace(seq, indices, ahead), seq, indices, key)
  <1>1. PICK n : n = Cardinality(indices)
    OBVIOUS
  <1>2. /\ n \in Nat /\ DOMAIN InPlace(seq, indices, ahead) = 1..n
        /\ \E h : /\ Places(h, ahead, indices, n)
                  /\ \A k \in 1..n : InPlace(seq, indices, ahead)[k] = seq[h[k]]
    BY <1>1, InPlaceIs
  <1>3. PICK h : /\ Places(h, ahead, indices, n)
                 /\ \A k \in 1..n : InPlace(seq, indices, ahead)[k] = seq[h[k]]
    BY <1>2
  <1>4. \A k, l \in 1..n : k < l => key[h[k]] <= key[h[l]]
    BY <1>3 DEF Places
  <1>5. InPlace(seq, indices, ahead) = [k \in 1..n |-> seq[h[k]]]
    BY <1>1, <1>2, <1>3 DEF InPlace
  <1>6. /\ h \in [1..n -> indices] /\ \A k, l \in 1..n : h[k] = h[l] => k = l
        /\ \A i \in indices : \E k \in 1..n : h[k] = i
    BY <1>3 DEF Places
  <1> QED
    BY <1>2, <1>4, <1>5, <1>6 DEF ByKey

LEMMA ArrangedByKey ==
    ASSUME NEW indices \in SUBSET Int, IsFiniteSet(indices),
           NEW key, \A i \in indices : key[i] \in Int, NEW seq,
           NEW ahead,
           ahead = [i \in indices |-> {j \in indices : key[j] < key[i] \/ (j < i /\ ~(key[i] < key[j]))}]
    PROVE  ByKey(InPlace(seq, indices, ahead), seq, indices, key)
  <1>1. StrictOrder(ahead, indices)
    BY KeyOrder
  <1>2. \A i \in indices : key[i] \in Int /\ \A j \in ahead[i] : key[j] <= key[i]
    <2> SUFFICES ASSUME NEW i \in indices, NEW j \in ahead[i] PROVE key[j] <= key[i]
      OBVIOUS
    <2>1. j \in indices /\ (key[j] < key[i] \/ ~(key[i] < key[j]))
      OBVIOUS
    <2>2. key[i] \in Int /\ key[j] \in Int
      BY <2>1
    <2> QED
      BY <2>1, <2>2
  <1>3. PICK order : order = ahead
    OBVIOUS
  <1>4. StrictOrder(order, indices) /\ \A i \in indices : key[i] \in Int /\ \A j \in order[i] : key[j] <= key[i]
    BY <1>1, <1>2, <1>3
  <1>5. ByKey(InPlace(seq, indices, order), seq, indices, key)
    BY <1>4, ArrangedInOrder
  <1> QED
    BY <1>3, <1>5

LEMMA SortedLevels ==
    ASSUME NEW levels \in Seq(Level)
    PROVE  LET ordered == Sorted(levels, LAMBDA a, b : a.price < b.price)
           IN  /\ ordered \in Seq(Level)
               /\ \A i, j \in 1..Len(ordered) : i < j => ordered[i].price <= ordered[j].price
  <1>1. Len(levels) \in Nat /\ DOMAIN levels = 1..Len(levels) /\ \A i \in 1..Len(levels) : levels[i] \in Level
    BY LenProperties, ElementOfSeq
  <1> DEFINE I == 1..Len(levels)
             key == [i \in I |-> levels[i].price]
             before == [i \in I |-> {j \in I : levels[j].price < levels[i].price
                                               \/ (j < i /\ ~(levels[i].price < levels[j].price))}]
             ahead == [i \in I |-> {j \in I : key[j] < key[i] \/ (j < i /\ ~(key[i] < key[j]))}]
  <1>2. Sorted(levels, LAMBDA a, b : a.price < b.price) = InPlace(levels, I, before)
    BY <1>1 DEF Sorted, Arranged
  <1>3. before = ahead
    OBVIOUS
  <1>4. \A i \in I : key[i] \in Int /\ key[i] = levels[i].price
    BY <1>1 DEF Level
  <1>5. I \in SUBSET Int /\ IsFiniteSet(I)
    BY <1>1, FS_Interval
  <1>6. PICK q : q = InPlace(levels, I, ahead)
    OBVIOUS
  <1>7. ByKey(q, levels, I, key)
    <2> HIDE DEF I, key
    <2>1. \A i \in I : key[i] \in Int
      BY <1>4
    <2> QED
      BY <1>5, <1>6, <2>1, ArrangedByKey
  <1> HIDE DEF I, key, ahead, before
  <1>8. PICK m \in Nat : \E h \in [1..m -> I] :
          /\ q = [k \in 1..m |-> levels[h[k]]]
          /\ \A k, l \in 1..m : k < l => key[h[k]] <= key[h[l]]
    BY <1>7 DEF ByKey
  <1>9. PICK h \in [1..m -> I] :
          /\ q = [k \in 1..m |-> levels[h[k]]]
          /\ \A k, l \in 1..m : k < l => key[h[k]] <= key[h[l]]
    BY <1>8
  <1>10. \A k \in 1..m : q[k] \in Level /\ key[h[k]] = q[k].price
    BY <1>1, <1>4, <1>9 DEF I
  <1>11. q \in Seq(Level) /\ Len(q) = m
    BY <1>9, <1>10
  <1>12. \A i, j \in 1..Len(q) : i < j => q[i].price <= q[j].price
    BY <1>9, <1>10, <1>11
  <1> QED
    BY <1>2, <1>3, <1>6, <1>11, <1>12

\* A sequence of a length, and what FirstZones takes of it.
Sized(q) == Len(q) \in Nat /\ DOMAIN q = 1..Len(q) /\ q = [i \in 1..Len(q) |-> q[i]]

LEMMA SizedColumn ==
    ASSUME NEW n \in Nat, NEW q, NEW f, q = [i \in 1..n |-> f[i]]
    PROVE  Sized(q) /\ Len(q) = n
  <1>1. DOMAIN q = 1..n
    OBVIOUS
  <1>2. Len(q) = n
    <2>1. q \in Seq({f[i] : i \in 1..n})
      OBVIOUS
    <2>2. Len(q) \in Nat /\ DOMAIN q = 1..Len(q)
      BY <2>1, LenProperties
    <2> QED
      BY <1>1, <2>2
  <1>3. q = [i \in 1..n |-> q[i]]
    OBVIOUS
  <1> QED
    BY <1>1, <1>2, <1>3 DEF Sized

LEMMA FirstAre ==
    ASSUME NEW q, Sized(q), NEW n \in Nat
    PROVE  /\ Sized(FirstZones(q, n)) /\ Len(FirstZones(q, n)) = Smaller(n, Len(q))
           /\ Len(FirstZones(q, n)) <= Len(q) /\ Len(FirstZones(q, n)) <= n
           /\ FirstZones(q, n) = [i \in 1..Smaller(n, Len(q)) |-> q[i]]
  <1>1. PICK m : m = Smaller(n, Len(q))
    OBVIOUS
  <1>2. m \in Nat /\ m <= n /\ m <= Len(q) /\ Len(q) \in Nat /\ DOMAIN q = 1..Len(q)
    BY <1>1 DEF Smaller, Sized
  <1> DEFINE S == {q[i] : i \in 1..Len(q)}
  <1>3. q \in Seq(S)
    BY <1>2 DEF Sized
  <1>4. m \in Int /\ 1 \in Int /\ \A i \in 1..m : q[i] \in S
    BY <1>2
  <1> HIDE DEF S
  <1>5. /\ SubSeq(q, 1, m) \in Seq(S)
        /\ Len(SubSeq(q, 1, m)) = IF 1 <= m THEN m - 1 + 1 ELSE 0
        /\ \A i \in 1..(m - 1 + 1) : SubSeq(q, 1, m)[i] = q[1 + i - 1]
    BY <1>3, <1>4, SubSeqProperties
  <1>6. Len(SubSeq(q, 1, m)) = m /\ \A i \in 1..m : SubSeq(q, 1, m)[i] = q[i]
    BY <1>2, <1>5
  <1>7. SubSeq(q, 1, m) = [i \in 1..m |-> q[i]]
    BY <1>2, <1>5, <1>6
  <1>8. PICK r : r = FirstZones(q, n)
    OBVIOUS
  <1>9. r = [i \in 1..m |-> q[i]] /\ Len(r) = m
    BY <1>1, <1>6, <1>7, <1>8 DEF FirstZones
  <1>10. Sized(r)
    BY <1>2, <1>9 DEF Sized
  <1> QED
    BY <1>1, <1>2, <1>8, <1>9, <1>10

LEMMA FirstSame ==
    ASSUME NEW q, Sized(q), NEW n \in Nat, NEW r, r = FirstZones(q, n)
    PROVE  /\ Sized(r) /\ Len(r) = Smaller(n, Len(q)) /\ Len(r) <= Len(q)
           /\ \A i \in 1..Len(r) : r[i] = q[i] /\ i \in 1..Len(q)
  <1>1. /\ Sized(r) /\ Len(r) = Smaller(n, Len(q)) /\ Len(r) <= Len(q)
        /\ r = [i \in 1..Smaller(n, Len(q)) |-> q[i]]
    BY FirstAre
  <1>2. \A i \in 1..Len(r) : r[i] = q[i]
    BY <1>1
  <1>3. Len(q) \in Nat /\ Len(r) \in Nat
    BY <1>1 DEF Sized
  <1> QED
    BY <1>1, <1>2, <1>3

-----------------------------------------------------------------------------
(* Zones.  Each spans its levels, with the mean between the ends, so that  *)
(* of two that are apart the lower has the lower mean.                     *)

Zone(z) ==
    /\ z.low \in Nat /\ z.high \in Nat /\ z.sum \in Nat /\ z.touches \in Nat /\ z.strength \in Nat
    /\ z.touches > 0 /\ z.low <= z.high
    /\ z.low * z.touches <= z.sum /\ z.sum <= z.high * z.touches

LEMMA ZoneIs ==
    ASSUME NEW c \in Seq(Level), Band(c)
    PROVE  Zone(ZoneOf(c)) /\ ZoneOf(c).low = c[1].price /\ ZoneOf(c).high = Last(c).price
  <1>1. /\ Len(c) \in Nat /\ Len(c) > 0 /\ DOMAIN c = 1..Len(c)
        /\ c[1] \in Level /\ Last(c) \in Level
    BY BandEnds
  <1>2. Prices(c) \in Nat /\ c[1].price \in Nat /\ Last(c).price \in Nat
    BY <1>1 DEF Band, Level
  <1>3. Total(Column(c, LAMBDA lv : lv.weight)) \in Nat
    <2> DEFINE w == [i \in 1..Len(c) |-> c[i].weight]
    <2>1. Column(c, LAMBDA lv : lv.weight) = w /\ DOMAIN w = 1..Len(c)
      BY <1>1 DEF Column
    <2>a. \A i \in 1..Len(c) : c[i] \in Level
      BY ElementOfSeq
    <2>2. \A i \in 1..Len(c) : w[i] \in Nat
      BY <2>a DEF Level
    <2>3. IsFiniteSet(1..Len(c))
      BY <1>1, FS_Interval
    <2> HIDE DEF w
    <2>4. SumOf(w, 1..Len(c)) \in Nat
      BY <2>2, <2>3, SumNat
    <2>5. Total(w) = SumOf(w, 1..Len(c))
      BY <2>1 DEF Total, SumOf
    <2> QED
      BY <2>1, <2>4, <2>5
  <1>4. PICK weight : weight = Total(Column(c, LAMBDA lv : lv.weight))
    OBVIOUS
  <1>5. ZoneOf(c) = [low |-> c[1].price, high |-> Last(c).price, sum |-> Prices(c),
                     touches |-> Len(c), strength |-> weight]
    BY <1>4 DEF ZoneOf
  <1>6. weight \in Nat
    BY <1>3, <1>4
  <1> QED
    BY <1>1, <1>2, <1>5, <1>6 DEF Zone, Band

LEMMA MidOrder ==
    ASSUME NEW a, Zone(a), NEW b, Zone(b), a.high < b.low
    PROVE  MidBelow(a, b) /\ ~MidBelow(b, a)
  <1>1. PICK s, t, h, x, y, l : /\ s = a.sum /\ t = a.touches /\ h = a.high
                                /\ x = b.sum /\ y = b.touches /\ l = b.low
    OBVIOUS
  <1>2. /\ s \in Nat /\ t \in Nat /\ h \in Nat /\ x \in Nat /\ y \in Nat /\ l \in Nat
        /\ t > 0 /\ y > 0 /\ s <= h * t /\ l * y <= x /\ h + 1 <= l
    BY <1>1 DEF Zone
  <1>3. s * y <= (h * t) * y
    BY <1>2
  <1>4. t * y \in Nat /\ t * y > 0
    BY <1>2
  <1>5. (h * t) * y = h * (t * y) /\ (l * y) * t = l * (t * y)
    BY <1>2
  <1>6. h * (t * y) < l * (t * y)
    <2>1. PICK k \in Nat : k = t * y /\ k > 0
      BY <1>4
    <2>2. h * k < l * k
      BY <1>2, <2>1
    <2> QED
      BY <2>1, <2>2
  <1>7. (l * y) * t <= x * t
    BY <1>2
  <1>8. s * y < x * t
    <2>1. s * y \in Int /\ (h * t) * y \in Int /\ h * (t * y) \in Int /\ l * (t * y) \in Int
          /\ (l * y) * t \in Int /\ x * t \in Int
      BY <1>2
    <2> QED
      BY <1>3, <1>5, <1>6, <1>7, <2>1
  <1>9. s * y \in Int /\ x * t \in Int
    BY <1>2
  <1> QED
    BY <1>1, <1>8, <1>9 DEF MidBelow

LEMMA MidItself ==
    ASSUME NEW a, Zone(a) PROVE ~MidBelow(a, a)
  <1>1. a.sum * a.touches \in Int
    BY DEF Zone
  <1> QED
    BY <1>1 DEF MidBelow

\* Zones from the lowest up.
ZonesUp(zs) ==
    /\ Sized(zs) /\ \A i \in 1..Len(zs) : Zone(zs[i])
    /\ \A i, j \in 1..Len(zs) : i < j => zs[i].high < zs[j].low

LEMMA ZonesOfCandles ==
    ASSUME NEW cs \in Seq(Shapes), cs # <<>>
    PROVE  ZonesUp(Column(Clusters(LevelsOf(cs)), ZoneOf))
  <1>1. PICK c : c = Clusters(LevelsOf(cs))
    OBVIOUS
  <1>2. BandsApart(c)
    <2>1. PICK levels : levels = LevelsOf(cs)
      OBVIOUS
    <2>2. levels \in Seq(Level)
      BY <2>1, LevelsOfTyped
    <2>3. PICK ordered : ordered = Sorted(levels, LAMBDA a, b : a.price < b.price)
      OBVIOUS
    <2>4. /\ ordered \in Seq(Level)
          /\ \A i, j \in 1..Len(ordered) : i < j => ordered[i].price <= ordered[j].price
      BY <2>2, <2>3, SortedLevels
    <2>5. BandsApart(ClustersOf(ordered))
      BY <2>4, ClustersApart
    <2>6. c = ClustersOf(ordered)
      BY <1>1, <2>1, <2>3 DEF Clusters
    <2> QED
      BY <2>5, <2>6
  <1>3. Len(c) \in Nat /\ DOMAIN c = 1..Len(c) /\ \A k \in 1..Len(c) : c[k] \in Seq(Level) /\ Band(c[k])
    BY <1>2, LenProperties, ElementOfSeq DEF BandsApart
  <1>4. PICK f : f = [i \in 1..Len(c) |-> ZoneOf(c[i])]
    OBVIOUS
  <1>5. Column(c, ZoneOf) = f /\ f = [i \in 1..Len(c) |-> f[i]]
    BY <1>3, <1>4 DEF Column
  <1>6. Sized(f) /\ Len(f) = Len(c)
    BY <1>3, <1>5, SizedColumn
  <1>7. \A i \in 1..Len(c) : Zone(f[i]) /\ f[i].low = c[i][1].price /\ f[i].high = Last(c[i]).price
    BY <1>3, <1>4, ZoneIs
  <1>8. \A i, j \in 1..Len(c) : i < j => f[i].high < f[j].low
    BY <1>2, <1>7 DEF BandsApart
  <1>9. ZonesUp(f)
    BY <1>6, <1>7, <1>8 DEF ZonesUp
  <1> QED
    BY <1>1, <1>5, <1>9

\* Zones from the highest down: the supports, the nearest first.
ZonesDown(zs) ==
    /\ Sized(zs) /\ \A i \in 1..Len(zs) : Zone(zs[i])
    /\ \A i, j \in 1..Len(zs) : i < j => zs[j].high < zs[i].low

LEMMA MidsRise ==
    ASSUME NEW zs, ZonesUp(zs), NEW i \in 1..Len(zs), NEW j \in 1..Len(zs)
    PROVE  MidBelow(zs[i], zs[j]) <=> i < j
  <1>1. Zone(zs[i]) /\ Zone(zs[j]) /\ i \in Int /\ j \in Int
    BY DEF ZonesUp, Sized
  <1>2. CASE i < j
    <2>1. zs[i].high < zs[j].low
      BY <1>2 DEF ZonesUp
    <2> QED
      BY <1>1, <1>2, <2>1, MidOrder
  <1>3. CASE j < i
    <2>1. zs[j].high < zs[i].low
      BY <1>3 DEF ZonesUp
    <2>2. ~MidBelow(zs[i], zs[j])
      BY <1>1, <2>1, MidOrder
    <2> QED
      BY <1>1, <1>3, <2>2
  <1>4. CASE i = j
    BY <1>1, <1>4, MidItself
  <1> QED
    BY <1>1, <1>2, <1>3, <1>4

LEMMA SupportsDown ==
    ASSUME NEW zs, ZonesUp(zs), NEW below \in SUBSET (1..Len(zs)),
           NEW q, q = InPlace(zs, below,
                              [i \in below |-> {j \in below : MidBelow(zs[i], zs[j])
                                                               \/ (j < i /\ ~MidBelow(zs[j], zs[i]))}])
    PROVE  ZonesDown(q) /\ \A k \in 1..Len(q) : \E i \in below : q[k] = zs[i]
  <1>1. Len(zs) \in Nat
    BY DEF ZonesUp, Sized
  <1>2. IsFiniteSet(below) /\ below \in SUBSET Int
    <2>1. IsFiniteSet(1..Len(zs))
      BY <1>1, FS_Interval
    <2> QED
      BY <2>1, FS_Subset
  <1> DEFINE key == [i \in below |-> -i]
             before == [i \in below |-> {j \in below : MidBelow(zs[i], zs[j])
                                                      \/ (j < i /\ ~MidBelow(zs[j], zs[i]))}]
             ahead == [i \in below |-> {j \in below : key[j] < key[i] \/ (j < i /\ ~(key[i] < key[j]))}]
  <1>3. \A i, j \in below : /\ MidBelow(zs[i], zs[j]) <=> key[j] < key[i]
                            /\ MidBelow(zs[j], zs[i]) <=> key[i] < key[j]
    <2> SUFFICES ASSUME NEW i \in below, NEW j \in below
                 PROVE  /\ MidBelow(zs[i], zs[j]) <=> key[j] < key[i]
                        /\ MidBelow(zs[j], zs[i]) <=> key[i] < key[j]
      OBVIOUS
    <2>1. i \in 1..Len(zs) /\ j \in 1..Len(zs)
      OBVIOUS
    <2>2. (MidBelow(zs[i], zs[j]) <=> i < j) /\ (MidBelow(zs[j], zs[i]) <=> j < i)
      BY <2>1, MidsRise
    <2>3. (i < j <=> key[j] < key[i]) /\ (j < i <=> key[i] < key[j])
      BY <2>1, <1>1
    <2> QED
      BY <2>2, <2>3
  <1>4. q = InPlace(zs, below, before)
    OBVIOUS
  <1>5. before = ahead
    <2> HIDE DEF key
    <2> QED
      BY <1>3
  <1>6. \A i \in below : key[i] \in Int
    BY <1>2
  <1>7. ByKey(InPlace(zs, below, ahead), zs, below, key)
    <2> HIDE DEF key
    <2> QED
      BY <1>2, <1>6, ArrangedByKey
  <1>8. ByKey(q, zs, below, key)
    BY <1>4, <1>5, <1>7
  <1>9. PICK m \in Nat : \E h \in [1..m -> below] :
          /\ q = [k \in 1..m |-> zs[h[k]]] /\ \A k, l \in 1..m : h[k] = h[l] => k = l
          /\ \A k, l \in 1..m : k < l => key[h[k]] <= key[h[l]]
    BY <1>8 DEF ByKey
  <1>10. PICK h \in [1..m -> below] :
          /\ q = [k \in 1..m |-> zs[h[k]]] /\ \A k, l \in 1..m : h[k] = h[l] => k = l
          /\ \A k, l \in 1..m : k < l => key[h[k]] <= key[h[l]]
    BY <1>9
  <1>11. Sized(q) /\ Len(q) = m
    <2>1. PICK f : f = [k \in 1..m |-> zs[h[k]]]
      OBVIOUS
    <2>2. q = [k \in 1..m |-> f[k]]
      BY <1>10, <2>1
    <2> QED
      BY <2>2, SizedColumn
  <1>12. \A k, l \in 1..m : k < l => h[l] < h[k]
    <2> SUFFICES ASSUME NEW k \in 1..m, NEW l \in 1..m, k < l PROVE h[l] < h[k]
      OBVIOUS
    <2>a. h[k] \in below /\ h[l] \in below /\ k # l
      BY <1>10
    <2>b. h[k] # h[l] /\ key[h[k]] <= key[h[l]]
      BY <1>10, <2>a
    <2>1. h[k] \in below /\ h[l] \in below /\ h[k] # h[l] /\ key[h[k]] <= key[h[l]]
      BY <2>a, <2>b
    <2>2. -h[k] <= -h[l] /\ h[k] \in Int /\ h[l] \in Int
      BY <1>2, <2>1
    <2> QED
      BY <2>1, <2>2
  <1>13. \A k \in 1..m : q[k] = zs[h[k]] /\ h[k] \in below /\ h[k] \in 1..Len(zs)
    BY <1>10
  <1>14. \A k \in 1..m : Zone(q[k])
    BY <1>13 DEF ZonesUp
  <1>15. \A k, l \in 1..m : k < l => q[l].high < q[k].low
    BY <1>12, <1>13 DEF ZonesUp
  <1> QED
    BY <1>11, <1>13, <1>14, <1>15 DEF ZonesDown

LEMMA ResistancesUp ==
    ASSUME NEW zs, ZonesUp(zs), NEW above \in SUBSET (1..Len(zs)),
           NEW q, q = InPlace(zs, above,
                              [i \in above |-> {j \in above : MidBelow(zs[j], zs[i])
                                                               \/ (j < i /\ ~MidBelow(zs[i], zs[j]))}])
    PROVE  ZonesUp(q)
  <1>1. Len(zs) \in Nat
    BY DEF ZonesUp, Sized
  <1>2. IsFiniteSet(above) /\ above \in SUBSET Int
    <2>1. IsFiniteSet(1..Len(zs))
      BY <1>1, FS_Interval
    <2>2. IsFiniteSet(above)
      BY <2>1, FS_Subset
    <2>3. \A i \in above : i \in Int
      BY <1>1
    <2> QED
      BY <2>2, <2>3
  <1> DEFINE key == [i \in above |-> i]
             before == [i \in above |-> {j \in above : MidBelow(zs[j], zs[i])
                                                      \/ (j < i /\ ~MidBelow(zs[i], zs[j]))}]
             ahead == [i \in above |-> {j \in above : key[j] < key[i] \/ (j < i /\ ~(key[i] < key[j]))}]
  <1>3. \A i, j \in above : /\ MidBelow(zs[j], zs[i]) <=> key[j] < key[i]
                            /\ MidBelow(zs[i], zs[j]) <=> key[i] < key[j]
    <2> SUFFICES ASSUME NEW i \in above, NEW j \in above
                 PROVE  /\ MidBelow(zs[j], zs[i]) <=> key[j] < key[i]
                        /\ MidBelow(zs[i], zs[j]) <=> key[i] < key[j]
      OBVIOUS
    <2>1. i \in 1..Len(zs) /\ j \in 1..Len(zs)
      OBVIOUS
    <2> QED
      BY <2>1, MidsRise
  <1>4. q = InPlace(zs, above, before)
    OBVIOUS
  <1>5. before = ahead
    <2> HIDE DEF key
    <2> QED
      BY <1>3
  <1>6. \A i \in above : key[i] \in Int
    BY <1>2
  <1>7. ByKey(InPlace(zs, above, ahead), zs, above, key)
    <2> HIDE DEF key
    <2> QED
      BY <1>2, <1>6, ArrangedByKey
  <1>8. ByKey(q, zs, above, key)
    BY <1>4, <1>5, <1>7
  <1>9. PICK m \in Nat : \E h \in [1..m -> above] :
          /\ q = [k \in 1..m |-> zs[h[k]]] /\ \A k, l \in 1..m : h[k] = h[l] => k = l
          /\ \A k, l \in 1..m : k < l => key[h[k]] <= key[h[l]]
    BY <1>8 DEF ByKey
  <1>10. PICK h \in [1..m -> above] :
          /\ q = [k \in 1..m |-> zs[h[k]]] /\ \A k, l \in 1..m : h[k] = h[l] => k = l
          /\ \A k, l \in 1..m : k < l => key[h[k]] <= key[h[l]]
    BY <1>9
  <1>11. Sized(q) /\ Len(q) = m
    <2>1. PICK f : f = [k \in 1..m |-> zs[h[k]]]
      OBVIOUS
    <2>2. q = [k \in 1..m |-> f[k]]
      BY <1>10, <2>1
    <2> QED
      BY <2>2, SizedColumn
  <1>12. \A k, l \in 1..m : k < l => h[k] < h[l]
    <2> SUFFICES ASSUME NEW k \in 1..m, NEW l \in 1..m, k < l PROVE h[k] < h[l]
      OBVIOUS
    <2>a. h[k] \in above /\ h[l] \in above /\ k # l
      BY <1>10
    <2>b. h[k] # h[l] /\ key[h[k]] <= key[h[l]]
      BY <1>10, <2>a
    <2>1. h[k] \in above /\ h[l] \in above /\ h[k] # h[l] /\ key[h[k]] <= key[h[l]]
      BY <2>a, <2>b
    <2>2. h[k] <= h[l] /\ h[k] \in Int /\ h[l] \in Int
      BY <1>2, <2>1
    <2> QED
      BY <2>1, <2>2
  <1>13. \A k \in 1..m : q[k] = zs[h[k]] /\ h[k] \in 1..Len(zs)
    BY <1>10
  <1>14. \A k \in 1..m : Zone(q[k])
    BY <1>13 DEF ZonesUp
  <1>15. \A k, l \in 1..m : k < l => q[k].high < q[l].low
    BY <1>12, <1>13 DEF ZonesUp
  <1> QED
    BY <1>11, <1>14, <1>15 DEF ZonesUp

MapSound(map) == ZonesDown(map.supports) /\ ZonesUp(map.resistances)

LEMMA LevelMapSound ==
    ASSUME NEW cs \in Seq(Shapes), cs # <<>>, NEW price
    PROVE  MapSound(LevelMapOf(cs, price)) /\ LevelMapOf(cs, price).price = price
  <1>1. PICK zs : zs = Column(Clusters(LevelsOf(cs)), ZoneOf)
    OBVIOUS
  <1>2. ZonesUp(zs) /\ DOMAIN zs = 1..Len(zs)
    BY <1>1, ZonesOfCandles DEF ZonesUp, Sized
  <1>3. PICK below, above :
          /\ below = {i \in DOMAIN zs : zs[i].sum <= price * zs[i].touches /\ zs[i].high < price}
          /\ above = {i \in DOMAIN zs : zs[i].sum > price * zs[i].touches /\ zs[i].low > price}
    OBVIOUS
  <1>4. below \in SUBSET (1..Len(zs)) /\ above \in SUBSET (1..Len(zs))
    BY <1>2, <1>3
  <1>5. PICK down, up :
          /\ down = InPlace(zs, below, [i \in below |-> {j \in below : MidBelow(zs[i], zs[j])
                                                                      \/ (j < i /\ ~MidBelow(zs[j], zs[i]))}])
          /\ up = InPlace(zs, above, [i \in above |-> {j \in above : MidBelow(zs[j], zs[i])
                                                                    \/ (j < i /\ ~MidBelow(zs[i], zs[j]))}])
    OBVIOUS
  <1>6. ZonesDown(down) /\ ZonesUp(up)
    BY <1>2, <1>4, <1>5, SupportsDown, ResistancesUp
  <1>7. /\ Arranged(zs, below, LAMBDA a, b : MidBelow(b, a)) = down
        /\ Arranged(zs, above, MidBelow) = up
    BY <1>5 DEF Arranged
  <1>8. LevelMapOf(cs, price) = [price |-> price, supports |-> FirstZones(down, MaxZones),
                                 resistances |-> FirstZones(up, MaxZones)]
    BY <1>1, <1>3, <1>7 DEF LevelMapOf
  <1>9. MaxZones \in Nat
    BY ZoneAssumption
  <1>10. ZonesDown(FirstZones(down, MaxZones))
    <2>1. PICK q : q = FirstZones(down, MaxZones)
      OBVIOUS
    <2>2. Sized(down) /\ Len(down) \in Nat
      BY <1>6 DEF ZonesDown, Sized
    <2>3. Sized(q) /\ Len(q) <= Len(down) /\ \A i \in 1..Len(q) : q[i] = down[i]
      BY <1>9, <2>1, <2>2, FirstSame
    <2>4. 1..Len(q) \subseteq 1..Len(down)
      BY <2>2, <2>3 DEF Sized
    <2> QED
      BY <1>6, <2>1, <2>3, <2>4 DEF ZonesDown
  <1>11. ZonesUp(FirstZones(up, MaxZones))
    <2>1. PICK q : q = FirstZones(up, MaxZones)
      OBVIOUS
    <2>2. Sized(up) /\ Len(up) \in Nat
      BY <1>6 DEF ZonesUp, Sized
    <2>3. Sized(q) /\ Len(q) <= Len(up) /\ \A i \in 1..Len(q) : q[i] = up[i]
      BY <1>9, <2>1, <2>2, FirstSame
    <2>4. 1..Len(q) \subseteq 1..Len(up)
      BY <2>2, <2>3 DEF Sized
    <2> QED
      BY <1>6, <2>1, <2>3, <2>4 DEF ZonesUp
  <1> QED
    BY <1>8, <1>10, <1>11 DEF MapSound

-----------------------------------------------------------------------------
(* Legs.  What a selection and a sort keep: the elements, each once.       *)

LEMMA ByKeyAre ==
    ASSUME NEW q, NEW seq, NEW indices, NEW key, ByKey(q, seq, indices, key)
    PROVE  /\ Sized(q) /\ \A k \in 1..Len(q) : \E i \in indices : q[k] = seq[i]
           /\ \A i \in indices : \E k \in 1..Len(q) : q[k] = seq[i]
  <1>1. PICK m \in Nat : \E h \in [1..m -> indices] :
          /\ q = [k \in 1..m |-> seq[h[k]]] /\ \A i \in indices : \E k \in 1..m : h[k] = i
    BY DEF ByKey
  <1>2. PICK h \in [1..m -> indices] :
          /\ q = [k \in 1..m |-> seq[h[k]]] /\ \A i \in indices : \E k \in 1..m : h[k] = i
    BY <1>1
  <1>3. PICK f : f = [k \in 1..m |-> seq[h[k]]]
    OBVIOUS
  <1>4. q = [k \in 1..m |-> f[k]]
    BY <1>2, <1>3
  <1>5. Sized(q) /\ Len(q) = m
    BY <1>4, SizedColumn
  <1>6. \A k \in 1..m : q[k] = seq[h[k]] /\ h[k] \in indices
    BY <1>2
  <1>7. \A i \in indices : \E k \in 1..m : q[k] = seq[i]
    BY <1>2, <1>6
  <1> QED
    BY <1>5, <1>6, <1>7

LEMMA SelectedAre ==
    ASSUME NEW n \in Nat, NEW indices \in SUBSET (1..n), NEW seq, NEW q,
           q = InPlace(seq, indices, [i \in indices |-> {j \in indices : FALSE \/ (j < i /\ ~FALSE)}])
    PROVE  ByKey(q, seq, indices, [i \in indices |-> i])
  <1>1. IsFiniteSet(indices)
    <2>1. IsFiniteSet(1..n)
      BY FS_Interval
    <2> QED
      BY <2>1, FS_Subset
  <1>2. \A i \in indices : i \in Int
    OBVIOUS
  <1>3. PICK order : order = [i \in indices |-> {j \in indices : FALSE \/ (j < i /\ ~FALSE)}]
    OBVIOUS
  <1>a. order \in [indices -> SUBSET indices] /\ \A i \in indices : order[i] = {j \in indices : j < i}
    BY <1>3
  <1>b. /\ \A i \in indices : i \notin order[i]
        /\ \A i, j \in indices : i # j => i \in order[j] \/ j \in order[i]
    BY <1>2, <1>a
  <1>c. \A i \in indices : \A j \in order[i] : order[j] \subseteq order[i]
    <2> SUFFICES ASSUME NEW i \in indices, NEW j \in order[i], NEW k \in order[j] PROVE k \in order[i]
      OBVIOUS
    <2>1. j \in indices /\ j < i
      BY <1>a
    <2>2. k \in indices /\ k < j
      BY <1>a, <2>1
    <2>3. k < i
      BY <1>2, <2>1, <2>2
    <2> QED
      BY <1>a, <2>2, <2>3
  <1>4. StrictOrder(order, indices)
    BY <1>a, <1>b, <1>c DEF StrictOrder
  <1>5. PICK key : key = [i \in indices |-> i]
    OBVIOUS
  <1>6. \A i \in indices : key[i] \in Int /\ \A j \in order[i] : key[j] <= key[i]
    BY <1>2, <1>a, <1>5
  <1>7. ByKey(InPlace(seq, indices, order), seq, indices, key)
    BY <1>1, <1>4, <1>6, ArrangedInOrder
  <1> QED
    BY <1>3, <1>5, <1>7

\* The zone a downtrend is left with is one of the supports.
LEMMA StrongestFirst ==
    ASSUME NEW zs, ZonesDown(zs), NEW I, I = DOMAIN zs,
           NEW order, order = [i \in I |-> {j \in I : Stronger(zs[j], zs[i])
                                                     \/ (j < i /\ ~Stronger(zs[i], zs[j]))}],
           NEW key, key = [i \in I |-> -zs[i].strength]
    PROVE  ByKey(InPlace(zs, I, order), zs, I, key)
  <1>2. Len(zs) \in Nat /\ I = 1..Len(zs) /\ \A i \in I : Zone(zs[i]) /\ zs[i].strength \in Nat
    BY DEF ZonesDown, Sized, Zone
  <1>3. IsFiniteSet(I) /\ \A i \in I : i \in Int
    <2>1. IsFiniteSet(1..Len(zs))
      BY <1>2, FS_Interval
    <2> QED
      BY <1>2, <2>1
  <1>4. ASSUME NEW i \in I, NEW j \in I PROVE MidBelow(zs[i], zs[j]) <=> j < i
    <2>1. CASE i < j
      <3>1. zs[j].high < zs[i].low
        BY <1>2, <2>1 DEF ZonesDown
      <3> QED
        BY <1>2, <1>3, <2>1, <3>1, MidOrder
    <2>2. CASE j < i
      <3>1. zs[i].high < zs[j].low
        BY <1>2, <2>2 DEF ZonesDown
      <3> QED
        BY <1>2, <2>2, <3>1, MidOrder
    <2>3. CASE i = j
      BY <1>2, <1>3, <2>3, MidItself
    <2> QED
      BY <1>3, <2>1, <2>2, <2>3
  <1>6. PICK s : s = [i \in I |-> zs[i].strength]
    OBVIOUS
  <1>7. \A i \in I : s[i] \in Nat
    BY <1>2, <1>6
  <1>8. \A i, j \in I : j \in order[i] <=> s[j] > s[i] \/ (s[j] = s[i] /\ i < j)
    <2> SUFFICES ASSUME NEW i \in I, NEW j \in I
                 PROVE  j \in order[i] <=> s[j] > s[i] \/ (s[j] = s[i] /\ i < j)
      OBVIOUS
    <2>1. (Stronger(zs[j], zs[i]) <=> s[j] > s[i] \/ (s[j] = s[i] /\ i < j))
          /\ (Stronger(zs[i], zs[j]) <=> s[i] > s[j] \/ (s[i] = s[j] /\ j < i))
      BY <1>4, <1>6 DEF Stronger
    <2>2. j \in order[i] <=> Stronger(zs[j], zs[i]) \/ (j < i /\ ~Stronger(zs[i], zs[j]))
      OBVIOUS
    <2> QED
      BY <1>3, <1>7, <2>1, <2>2
  <1>9. order \in [I -> SUBSET I]
    OBVIOUS
  <1>10. StrictOrder(order, I)
    <2>1. \A i \in I : i \notin order[i]
      BY <1>3, <1>7, <1>8
    <2>2. ASSUME NEW i \in I, NEW j \in order[i], NEW k \in order[j] PROVE k \in order[i]
      <3>1. j \in I /\ k \in I
        BY <1>9, <2>2
      <3>2. (s[j] > s[i] \/ (s[j] = s[i] /\ i < j)) /\ (s[k] > s[j] \/ (s[k] = s[j] /\ j < k))
        BY <1>8, <3>1
      <3>3. s[i] \in Nat /\ s[j] \in Nat /\ s[k] \in Nat /\ i \in Int /\ j \in Int /\ k \in Int
        BY <1>3, <1>7, <3>1
      <3>4. s[k] > s[i] \/ (s[k] = s[i] /\ i < k)
        BY <3>2, <3>3
      <3> QED
        BY <1>8, <3>1, <3>4
    <2>3. \A i, j \in I : i # j => i \in order[j] \/ j \in order[i]
      BY <1>3, <1>7, <1>8
    <2> QED
      BY <1>9, <2>1, <2>2, <2>3 DEF StrictOrder
  <1>11. key = [i \in I |-> -s[i]]
    BY <1>6
  <1>12. \A i \in I : key[i] \in Int /\ \A j \in order[i] : key[j] <= key[i]
    <2> SUFFICES ASSUME NEW i \in I PROVE key[i] \in Int /\ \A j \in order[i] : key[j] <= key[i]
      OBVIOUS
    <2>1. key[i] \in Int /\ key[i] = -s[i]
      BY <1>7, <1>11
    <2>2. ASSUME NEW j \in order[i] PROVE key[j] <= key[i]
      <3>1. j \in I /\ s[j] >= s[i] /\ key[j] = -s[j] /\ s[j] \in Nat /\ s[i] \in Nat
        BY <1>7, <1>8, <1>9, <1>11
      <3> QED
        BY <2>1, <3>1
    <2> QED
      BY <2>1, <2>2
  <1>13. PICK k, o : k = key /\ o = order
    OBVIOUS
  <1>14. /\ StrictOrder(o, I) /\ \A i \in I : k[i] \in Int /\ \A j \in o[i] : k[j] <= k[i]
    BY <1>10, <1>12, <1>13
  <1>15. ByKey(InPlace(zs, I, o), zs, I, k)
    BY <1>3, <1>14, ArrangedInOrder
  <1> QED
    BY <1>13, <1>15

LEMMA CandidatesAre ==
    ASSUME NEW map, ZonesDown(map.supports), NEW regime
    PROVE  /\ Sized(Candidates(map, regime))
           /\ \A k \in 1..Len(Candidates(map, regime)) :
                Zone(Candidates(map, regime)[k]) /\ map.supports # <<>>
  <1>1. PICK zs : zs = map.supports
    OBVIOUS
  <1>2. Sized(zs) /\ \A i \in 1..Len(zs) : Zone(zs[i])
    BY <1>1 DEF ZonesDown
  <1>3. \A i \in 1..Len(zs) : zs # <<>>
    <2>1. SUFFICES ASSUME NEW i \in 1..Len(zs), zs = <<>> PROVE FALSE
      OBVIOUS
    <2>2. Len(zs) = 0
      BY <2>1
    <2> QED
      BY <2>1, <2>2
  <1>4. CASE regime # "downtrend"
    BY <1>1, <1>2, <1>3, <1>4 DEF Candidates
  <1>5. CASE regime = "downtrend"
    <2>1. PICK I, order, key :
            /\ I = DOMAIN zs
            /\ order = [i \in I |-> {j \in I : Stronger(zs[j], zs[i])
                                               \/ (j < i /\ ~Stronger(zs[i], zs[j]))}]
            /\ key = [i \in I |-> -zs[i].strength]
      OBVIOUS
    <2>2. ZonesDown(zs)
      BY <1>1
    <2>a. PICK q : q = InPlace(zs, I, order)
      OBVIOUS
    <2>b. ByKey(q, zs, I, key)
      BY <2>1, <2>2, <2>a, StrongestFirst
    <2>c. Sized(q) /\ \A k \in 1..Len(q) : \E i \in I : q[k] = zs[i]
      BY <2>b, ByKeyAre
    <2>3. Sized(q) /\ \A k \in 1..Len(q) : \E i \in 1..Len(zs) : q[k] = zs[i]
      BY <1>2, <2>1, <2>c DEF Sized
    <2>4. Sorted(zs, Stronger) = q
      BY <2>1, <2>a DEF Sorted, Arranged
    <2>5. PICK r : r = FirstZones(q, 1)
      OBVIOUS
    <2>6. Sized(r) /\ \A k \in 1..Len(r) : r[k] = q[k] /\ k \in 1..Len(q)
      BY <2>3, <2>5, FirstSame
    <2>7. \A k \in 1..Len(r) : Zone(r[k]) /\ zs # <<>>
      BY <1>2, <1>3, <2>3, <2>6
    <2>8. Candidates(map, regime) = r
      BY <1>1, <1>5, <2>4, <2>5 DEF Candidates
    <2> QED
      BY <1>1, <2>6, <2>7, <2>8
  <1> QED
    BY <1>4, <1>5

Leg(leg, bid) ==
    leg.entry \in Int /\ leg.stop \in Int /\ leg.target \in Int /\ leg.entry <= bid

LEMMA LegIs ==
    ASSUME NEW z, Zone(z), NEW map, MapSound(map), map.price \in Int, NEW bid \in Int
    PROVE  Leg(LegIn(z, map, bid), bid)
  <1>1. z.high \in Nat /\ z.low \in Nat /\ Risk.stopBuffer \in Int /\ Risk.takeProfit \in Int
    BY SettingsAssumption DEF Zone
  <1>2. PICK entry : entry = Smaller(z.high, bid)
    OBVIOUS
  <1>3. entry \in Int /\ entry <= bid
    BY <1>1, <1>2 DEF Smaller
  <1>4. PICK nearest : nearest = map.resistances[1]
    OBVIOUS
  <1>5. PICK target : target = IF map.resistances # <<>> /\ nearest.sum > map.price * nearest.touches
                                 THEN (100 * nearest.sum) \div nearest.touches
                                 ELSE map.price * (100 + Risk.takeProfit)
    OBVIOUS
  <1>6. target \in Int
    <2>1. CASE map.resistances # <<>> /\ nearest.sum > map.price * nearest.touches
      <3>1. Sized(map.resistances) /\ \A i \in 1..Len(map.resistances) : Zone(map.resistances[i])
        BY DEF MapSound, ZonesUp
      <3>2. 1 \in 1..Len(map.resistances)
        <4>1. PICK q : q = map.resistances
          OBVIOUS
        <4>2. q # <<>> /\ Sized(q)
          BY <2>1, <3>1, <4>1
        <4>3. Len(q) # 0
          <5>1. Len(q) = 0 => q = <<>>
            BY <4>2 DEF Sized
          <5> QED
            BY <4>2, <5>1
        <4> QED
          BY <4>1, <4>2, <4>3 DEF Sized
      <3>3. nearest.sum \in Nat /\ nearest.touches \in Nat /\ nearest.touches > 0
        BY <1>4, <3>1, <3>2 DEF Zone
      <3>4. (100 * nearest.sum) \div nearest.touches \in Int
        BY <3>3
      <3> QED
        BY <1>5, <2>1, <3>4
    <2>2. CASE ~(map.resistances # <<>> /\ nearest.sum > map.price * nearest.touches)
      <3>1. map.price * (100 + Risk.takeProfit) \in Int
        BY <1>1
      <3> QED
        BY <1>5, <2>2, <3>1
    <2> QED
      BY <2>1, <2>2
  <1>7. LegIn(z, map, bid) = [entry |-> entry, stop |-> z.low * (100 - Risk.stopBuffer),
                              target |-> Larger(target, entry * (100 + Risk.takeProfit)), zone |-> z]
    BY <1>2, <1>4, <1>5 DEF LegIn
  <1>8. z.low * (100 - Risk.stopBuffer) \in Int /\ entry * (100 + Risk.takeProfit) \in Int
    BY <1>1, <1>3
  <1>9. Larger(target, entry * (100 + Risk.takeProfit)) \in Int
    BY <1>6, <1>8 DEF Larger
  <1> QED
    BY <1>3, <1>7, <1>8, <1>9 DEF Leg

LEMMA LegsFoundAre ==
    ASSUME NEW map, MapSound(map), map.price \in Int, NEW bid \in Int, NEW regime,
           NEW found, found = LegsFound(map, bid, regime)
    PROVE  /\ Sized(found)
           /\ \A k \in 1..Len(found) :
                Leg(found[k], bid) /\ Worth(found[k], map.price) /\ map.supports # <<>>
  <1>1. PICK zs : zs = Candidates(map, regime)
    OBVIOUS
  <1>2. Sized(zs) /\ \A k \in 1..Len(zs) : Zone(zs[k]) /\ map.supports # <<>>
    BY <1>1, CandidatesAre DEF MapSound
  <1>3. PICK n : n = Len(zs)
    OBVIOUS
  <1>4. n \in Nat /\ DOMAIN zs = 1..n
    BY <1>2, <1>3 DEF Sized
  <1>5. PICK legs : legs = [i \in 1..n |-> LegIn(zs[i], map, bid)]
    OBVIOUS
  <1>6. Column(zs, LAMBDA z : LegIn(z, map, bid)) = legs /\ DOMAIN legs = 1..n
    BY <1>4, <1>5 DEF Column
  <1>7. \A i \in 1..n : Leg(legs[i], bid) /\ map.supports # <<>>
    BY <1>2, <1>3, <1>5, LegIs
  <1>8. PICK worth : worth = {i \in 1..n : Worth(legs[i], map.price)}
    OBVIOUS
  <1>9. PICK q : q = InPlace(legs, worth, [i \in worth |-> {j \in worth : FALSE \/ (j < i /\ ~FALSE)}])
    OBVIOUS
  <1>10. Selected(Column(zs, LAMBDA z : LegIn(z, map, bid)), LAMBDA leg : Worth(leg, map.price)) = q
    BY <1>6, <1>8, <1>9 DEF Selected, Arranged
  <1>11. worth \in SUBSET (1..n)
    BY <1>8
  <1>12. PICK key : ByKey(q, legs, worth, key)
    BY <1>4, <1>9, <1>11, SelectedAre
  <1>13. Sized(q) /\ \A k \in 1..Len(q) : \E i \in worth : q[k] = legs[i]
    BY <1>12, ByKeyAre
  <1>14. \A k \in 1..Len(q) : Leg(q[k], bid) /\ Worth(q[k], map.price) /\ map.supports # <<>>
    BY <1>7, <1>8, <1>13
  <1>15. PICK most : most = Larger(1, Risk.legs)
    OBVIOUS
  <1>16. most \in Nat
    BY <1>15, SettingsAssumption DEF Larger
  <1>17. PICK r : r = FirstZones(q, most)
    OBVIOUS
  <1>18. Sized(r) /\ \A k \in 1..Len(r) : r[k] = q[k] /\ k \in 1..Len(q)
    BY <1>13, <1>16, <1>17, FirstSame
  <1>19. LegsFound(map, bid, regime) = r
    BY <1>1, <1>10, <1>15, <1>17 DEF LegsFound
  <1> QED
    BY <1>14, <1>18, <1>19

\* The worth of a leg, with its settings as whole numbers.
LEMMA WorthIs ==
    ASSUME NEW bid, NEW leg, Leg(leg, bid), NEW price, Worth(leg, price)
    PROVE  /\ leg.entry \in Nat /\ leg.entry > 0 /\ 0 < leg.stop /\ leg.stop < 100 * leg.entry
           /\ 100 * leg.entry < leg.target /\ leg.entry <= bid /\ Edge(leg) \in Int
           /\ 10 * Gain(leg) >= Risk.minRewardRisk * Loss(leg)
  <1>1. leg.entry \in Int /\ leg.stop \in Int /\ leg.target \in Int /\ leg.entry > 0
    BY DEF Leg, Worth
  <1>2. Gain(leg) \in Int /\ Gain(leg) > 0 /\ Loss(leg) > 0 /\ leg.stop > 0
    BY <1>1 DEF Worth, Gain
  <1>3. Gain(leg) \div leg.entry \in Int
    BY <1>1, <1>2
  <1>4. 100 * leg.entry < leg.target /\ leg.stop < 100 * leg.entry
    BY <1>1, <1>2 DEF Gain, Loss
  <1> QED
    BY <1>1, <1>2, <1>3, <1>4 DEF Leg, Worth, Edge

LEMMA BestEdgeIs ==
    ASSUME NEW legs, Sized(legs), Len(legs) > 0, \A i \in 1..Len(legs) : Edge(legs[i]) \in Int
    PROVE  BestEdge(legs) \in Int
  <1>1. PICK n, v : n = Len(legs) /\ v = [i \in 1..n |-> Edge(legs[i])]
    OBVIOUS
  <1>2. n \in Nat /\ n > 0 /\ DOMAIN legs = 1..n /\ \A i \in 1..n : v[i] \in Int /\ v[i] = Edge(legs[i])
    BY <1>1 DEF Sized
  <1>3. PICK i \in 1..n : \A j \in 1..n : v[j] <= v[i]
    BY <1>2, LargestOf
  <1> DEFINE E == {Edge(legs[k]) : k \in DOMAIN legs}
  <1>4. v[i] \in E /\ \A y \in E : v[i] >= y
    BY <1>2, <1>3
  <1>5. BestEdge(legs) \in E
    BY <1>4 DEF BestEdge, Max
  <1> QED
    BY <1>2, <1>5

LEMMA ConvictionIs ==
    ASSUME NEW confidence \in Int, NEW edge \in Int, NEW atr \in Int, NEW multiplier \in Int,
           NEW size, size = ConvictionSize(confidence, edge, atr, multiplier)
    PROVE  \/ size = 0
           \/ size \in Nat /\ size >= Sizing.minNotional /\ size <= Smaller(Sizing.maxNotional, Sizing.budget)
  <1>1. /\ Sizing.floor \in Int /\ Sizing.full \in Int /\ Sizing.floor < Sizing.full
        /\ Sizing.edgeFull \in Nat /\ Sizing.edgeFull > 0 /\ Sizing.minFraction \in Int /\ Sizing.kelly \in Int
        /\ Sizing.volTarget \in Nat /\ Sizing.maxNotional \in Nat /\ Sizing.budget \in Nat
        /\ Sizing.minNotional \in Nat /\ Sizing.minNotional > 0
    <2>1. Sizing.floor \in Int /\ Sizing.full \in Int /\ Sizing.minFraction \in Int /\ Sizing.kelly \in Int
      BY SettingsAssumption
    <2>2. Sizing.volTarget \in Nat /\ Sizing.maxNotional \in Nat /\ Sizing.budget \in Nat
      BY SettingsAssumption
    <2>3. Sizing.edgeFull \in Nat /\ Sizing.edgeFull # 0 /\ Sizing.floor < Sizing.full
      BY SettingsAssumption
    <2>4. Sizing.minNotional \in Nat /\ Sizing.minNotional # 0
      BY SettingsAssumption
    <2> QED
      BY <2>1, <2>2, <2>3, <2>4
  <1> DEFINE conviction == Clamp(((confidence - Sizing.floor) * 100) \div (Sizing.full - Sizing.floor), 0, 100)
             strength == (conviction * Clamp((edge * 100) \div Sizing.edgeFull, 0, 100)) \div 100
             fraction == Sizing.minFraction + (strength * (Sizing.kelly - Sizing.minFraction)) \div 100
             notional == (Sizing.budget * fraction * multiplier) \div 10000
             calm == IF atr > Sizing.volTarget THEN (notional * Sizing.volTarget) \div atr ELSE notional
             cap == Smaller(Sizing.maxNotional, Sizing.budget)
             capped == Smaller(calm, cap)
  <1>18. size = IF capped < Sizing.minNotional THEN 0 ELSE capped
    BY DEF ConvictionSize
  <1> HIDE DEF conviction, strength, fraction, notional, calm, cap, capped
  <1>2. ASSUME NEW x \in Int, NEW y \in Int, y > 0 PROVE x \div y \in Int
    BY <1>2
  <1>3. ASSUME NEW x \in Int PROVE Clamp(x, 0, 100) \in Int
    BY <1>3 DEF Clamp, Larger, Smaller
  <1>4. conviction = Clamp(((confidence - Sizing.floor) * 100) \div (Sizing.full - Sizing.floor), 0, 100)
    BY DEF conviction
  <1>5. conviction \in Int
    <2>1. (confidence - Sizing.floor) * 100 \in Int /\ Sizing.full - Sizing.floor \in Int
          /\ Sizing.full - Sizing.floor > 0
      BY <1>1
    <2>2. ((confidence - Sizing.floor) * 100) \div (Sizing.full - Sizing.floor) \in Int
      BY <1>2, <2>1
    <2> QED
      BY <1>3, <1>4, <2>2
  <1>6. strength = (conviction * Clamp((edge * 100) \div Sizing.edgeFull, 0, 100)) \div 100
    BY DEF strength
  <1>7. strength \in Int
    <2>1. (edge * 100) \div Sizing.edgeFull \in Int
      BY <1>1, <1>2
    <2>2. PICK c \in Int : c = Clamp((edge * 100) \div Sizing.edgeFull, 0, 100)
      BY <1>3, <2>1
    <2>3. conviction * c \in Int
      BY <1>5
    <2>4. (conviction * c) \div 100 \in Int
      BY <2>3
    <2> QED
      BY <1>6, <2>2, <2>4
  <1>8. fraction = Sizing.minFraction + (strength * (Sizing.kelly - Sizing.minFraction)) \div 100
    BY DEF fraction
  <1>9. fraction \in Int
    <2>1. strength * (Sizing.kelly - Sizing.minFraction) \in Int
      BY <1>1, <1>7
    <2>2. (strength * (Sizing.kelly - Sizing.minFraction)) \div 100 \in Int
      BY <2>1
    <2> QED
      BY <1>1, <1>8, <2>2
  <1>10. notional = (Sizing.budget * fraction * multiplier) \div 10000
    BY DEF notional
  <1>11. notional \in Int
    <2>1. Sizing.budget * fraction * multiplier \in Int
      BY <1>1, <1>9
    <2> QED
      BY <1>10, <2>1
  <1>12. calm = IF atr > Sizing.volTarget THEN (notional * Sizing.volTarget) \div atr ELSE notional
    BY DEF calm
  <1>13. calm \in Int
    <2>1. CASE atr > Sizing.volTarget
      <3>1. atr > 0 /\ notional * Sizing.volTarget \in Int
        BY <1>1, <1>11, <2>1
      <3>2. (notional * Sizing.volTarget) \div atr \in Int
        BY <1>2, <3>1
      <3> QED
        BY <1>12, <2>1, <3>2
    <2>2. CASE ~(atr > Sizing.volTarget)
      BY <1>11, <1>12, <2>2
    <2> QED
      BY <2>1, <2>2
  <1>14. cap = Smaller(Sizing.maxNotional, Sizing.budget)
    BY DEF cap
  <1>15. cap \in Int
    BY <1>1, <1>14 DEF Smaller
  <1>16. capped = Smaller(calm, cap)
    BY DEF capped
  <1>17. capped \in Int /\ capped <= cap
    BY <1>13, <1>15, <1>16 DEF Smaller
  <1> QED
    BY <1>1, <1>14, <1>17, <1>18

-----------------------------------------------------------------------------
(* Ladders.  A size split by weights: what the shares come to together,    *)
(* and what the leg that weighs most gets.                                 *)

LEMMA DivIs ==
    ASSUME NEW x \in Nat, NEW y \in Nat, y > 0
    PROVE  /\ x \div y \in Nat /\ y * (x \div y) <= x
           /\ \A m \in Nat : m * y <= x => m <= x \div y
  <1>1. PICK d : d = x \div y
    OBVIOUS
  <1>2. d \in Nat /\ y * d <= x /\ x < y * (d + 1)
    BY <1>1
  <1>3. ASSUME NEW m \in Nat, m * y <= x PROVE m <= d
    <2>1. SUFFICES ASSUME m >= d + 1 PROVE FALSE
      BY <1>2
    <2>2. m * y >= (d + 1) * y
      BY <1>2, <2>1
    <2> QED
      BY <1>2, <1>3, <2>2
  <1> QED
    BY <1>1, <1>2, <1>3

LEMMA WeightIs ==
    ASSUME NEW i \in Nat, i > 0 PROVE Weight(i) \in Nat /\ Weight(1) > 0
  <1>1. PICK s : s = Risk.split
    OBVIOUS
  <1>2. s \in Seq(Nat) /\ s # <<>> /\ s[1] > 0
    BY <1>1, SettingsAssumption
  <1>3. Len(s) \in Nat /\ Len(s) > 0
    BY <1>2, LenProperties, EmptySeq
  <1>4. Smaller(i, Len(s)) \in 1..Len(s) /\ Smaller(1, Len(s)) = 1
    BY <1>3 DEF Smaller
  <1>5. s[Smaller(i, Len(s))] \in Nat
    BY <1>2, <1>4, ElementOfSeq
  <1> QED
    BY <1>1, <1>2, <1>4, <1>5 DEF Weight

SplitBy(n, total, least, w, share) ==
    /\ n \in Nat /\ n > 0 /\ total \in Nat /\ least \in Nat /\ n * least <= total
    /\ (\A i \in 1..n : w[i] \in Nat) /\ w[1] > 0
    /\ \A i \in 1..n : share[i] = (total * w[i]) \div SumOf(w, 1..n)

LEMMA SplitIs ==
    ASSUME NEW n, NEW total, NEW least, NEW w, NEW share, SplitBy(n, total, least, w, share)
    PROVE  /\ \A i \in 1..n : share[i] \in Nat
           /\ SumOf(share, 1..n) \in Nat /\ SumOf(share, 1..n) <= total
           /\ \E i \in 1..n : share[i] >= least
  <1>a. n \in Nat /\ n > 0 /\ total \in Nat /\ least \in Nat /\ n * least <= total
    BY DEF SplitBy
  <1>b. (\A i \in 1..n : w[i] \in Nat) /\ w[1] > 0
    BY DEF SplitBy
  <1>c. \A i \in 1..n : share[i] = (total * w[i]) \div SumOf(w, 1..n)
    BY DEF SplitBy
  <1> USE <1>a, <1>b
  <1>1. IsFiniteSet(1..n) /\ Cardinality(1..n) = n /\ 1 \in 1..n
    <2>1. IsFiniteSet(1..n) /\ Cardinality(1..n) = IF 1 > n THEN 0 ELSE n - 1 + 1
      BY FS_Interval
    <2> QED
      BY <2>1
  <1>2. PICK I : I = 1..n
    OBVIOUS
  <1>3. PICK W : W = SumOf(w, I)
    OBVIOUS
  <1>4. IsFiniteSet(I) /\ Cardinality(I) = n /\ 1 \in I /\ \A i \in I : w[i] \in Nat
    BY <1>1, <1>2
  <1>5. W \in Nat /\ W > 0
    <2>1. W \in Nat
      BY <1>3, <1>4, SumNat
    <2>2. W = SumOf(w, I \ {1}) + w[1]
      <3>1. \A i \in I : w[i] \in Int
        BY <1>4
      <3> QED
        BY <1>3, <1>4, <3>1, SumWithout
    <2>3. SumOf(w, I \ {1}) \in Nat
      <3>1. IsFiniteSet(I \ {1}) /\ \A i \in I \ {1} : w[i] \in Nat
        BY <1>4, FS_Subset
      <3> QED
        BY <3>1, SumNat
    <2> QED
      BY <1>4, <2>1, <2>2, <2>3
  <1>6. \A i \in I : total * w[i] \in Nat /\ share[i] = (total * w[i]) \div W
    BY <1>2, <1>3, <1>4, <1>a, <1>c
  <1>7. \A i \in I : /\ share[i] \in Nat /\ W * share[i] <= total * w[i]
                     /\ \A m \in Nat : m * W <= total * w[i] => m <= share[i]
    <2> SUFFICES ASSUME NEW i \in I
                 PROVE  /\ share[i] \in Nat /\ W * share[i] <= total * w[i]
                        /\ \A m \in Nat : m * W <= total * w[i] => m <= share[i]
      OBVIOUS
    <2>1. PICK x \in Nat : x = total * w[i]
      BY <1>6
    <2>2. share[i] = x \div W
      BY <1>6, <2>1
    <2>3. /\ x \div W \in Nat /\ W * (x \div W) <= x /\ \A m \in Nat : m * W <= x => m <= x \div W
      BY <1>5, DivIs
    <2> QED
      BY <2>1, <2>2, <2>3
  <1>8. SumOf(share, I) \in Nat /\ W * SumOf(share, I) <= total * W
    <2>1. SumOf(share, I) \in Nat
      BY <1>4, <1>7, SumNat
    <2>2. \A i \in I : w[i] \in Nat /\ share[i] \in Nat /\ W * share[i] <= total * w[i]
      BY <1>4, <1>7
    <2>3. W * SumOf(share, I) <= total * SumOf(w, I)
      BY <1>4, <1>5, <2>2, SumScaled
    <2> QED
      BY <1>3, <2>1, <2>3
  <1>9. SumOf(share, I) <= total
    <2>1. PICK s \in Nat : s = SumOf(share, I)
      BY <1>8
    <2>2. W * s <= total * W
      BY <1>8, <2>1
    <2>3. ASSUME s > total PROVE FALSE
      <3>1. s >= total + 1
        BY <2>3
      <3>2. W * s >= W * (total + 1)
        BY <1>5, <3>1
      <3>3. W * (total + 1) = total * W + W /\ total * W \in Nat /\ W * s \in Nat
        BY <1>5
      <3> QED
        BY <1>5, <2>2, <3>2, <3>3
    <2> QED
      BY <2>1, <2>3
  <1>10. PICK i \in 1..n : \A j \in 1..n : w[j] <= w[i]
    <2>1. \A j \in 1..n : w[j] \in Int
      OBVIOUS
    <2> QED
      BY <2>1, LargestOf
  <1>11. W <= w[i] * n
    <2>1. PICK c \in Nat : c = w[i]
      OBVIOUS
    <2>2. \A j \in I : w[j] \in Nat /\ w[j] <= c
      BY <1>2, <1>4, <1>10, <2>1
    <2>3. SumOf(w, I) <= c * Cardinality(I)
      BY <1>4, <2>2, SumBound
    <2> QED
      BY <1>3, <1>4, <2>1, <2>3
  <1>12. least * W <= total * w[i]
    <2>1. PICK c \in Nat : c = w[i]
      OBVIOUS
    <2>2. least * W <= least * (c * n)
      <3>1. c * n \in Nat /\ W <= c * n
        BY <1>11, <2>1
      <3> QED
        BY <1>5, <3>1
    <2>3. least * (c * n) = (n * least) * c
      BY <2>1
    <2>4. (n * least) * c <= total * c
      <3>1. n * least \in Nat
        OBVIOUS
      <3> QED
        BY <3>1
    <2>5. least * W \in Nat /\ least * (c * n) \in Nat /\ (n * least) * c \in Nat /\ total * c \in Nat
      BY <1>5
    <2> QED
      BY <2>1, <2>2, <2>3, <2>4, <2>5
  <1>13. least <= share[i]
    BY <1>2, <1>7, <1>12
  <1> QED
    BY <1>2, <1>7, <1>8, <1>9, <1>13

LEMMA NotionalKept ==
    ASSUME NEW n \in Nat, NEW indices \in SUBSET (1..n), NEW seq, NEW q, NEW key,
           ByKey(q, seq, indices, key), \A i \in 1..n : seq[i].notional \in Nat
    PROVE  SumOf([k \in 1..Len(q) |-> q[k].notional], 1..Len(q))
             <= SumOf([i \in 1..n |-> seq[i].notional], 1..n)
  <1>1. PICK m \in Nat : \E h \in [1..m -> indices] :
          /\ q = [k \in 1..m |-> seq[h[k]]] /\ \A k, l \in 1..m : h[k] = h[l] => k = l
    BY DEF ByKey
  <1>2. PICK h \in [1..m -> indices] :
          /\ q = [k \in 1..m |-> seq[h[k]]] /\ \A k, l \in 1..m : h[k] = h[l] => k = l
    BY <1>1
  <1>3. PICK s : s = [k \in 1..m |-> seq[h[k]]]
    OBVIOUS
  <1>4. Len(q) = m
    <2>1. q = [k \in 1..m |-> s[k]]
      BY <1>2, <1>3
    <2> QED
      BY <2>1, SizedColumn
  <1>5. PICK f, g : /\ f = [i \in 1..n |-> seq[i].notional]
                    /\ g = [k \in 1..m |-> q[k].notional]
    OBVIOUS
  <1>6. \A i \in 1..n : f[i] \in Nat
    BY <1>5
  <1>7. \A k \in 1..m : h[k] \in 1..n
    BY <1>2
  <1>8. \A k \in 1..m : g[k] \in Int /\ g[k] = f[h[k]]
    <2> SUFFICES ASSUME NEW k \in 1..m PROVE g[k] \in Int /\ g[k] = f[h[k]]
      OBVIOUS
    <2>1. g[k] = seq[h[k]].notional
      BY <1>2, <1>5
    <2>2. f[h[k]] = seq[h[k]].notional /\ f[h[k]] \in Nat
      BY <1>5, <1>6, <1>7
    <2> QED
      BY <2>1, <2>2
  <1>9. IsFiniteSet(1..m) /\ IsFiniteSet(1..n)
    BY FS_Interval
  <1>10. SumOf(g, 1..m) = SumOf(f, {h[k] : k \in 1..m})
    <2>1. \A k, l \in 1..m : h[k] = h[l] => k = l
      BY <1>2
    <2>2. PICK K : K = 1..m
      OBVIOUS
    <2>3. IsFiniteSet(K) /\ \A k \in K : g[k] \in Int /\ g[k] = f[h[k]]
      BY <1>8, <1>9, <2>2
    <2>4. \A k, l \in K : h[k] = h[l] => k = l
      BY <2>1, <2>2
    <2>5. SumOf(g, K) = SumOf(f, {h[k] : k \in K})
      BY <2>3, <2>4, SumRenamed
    <2> QED
      BY <2>2, <2>5
  <1>11. {h[k] : k \in 1..m} \in SUBSET (1..n)
    BY <1>7
  <1>12. SumOf(f, {h[k] : k \in 1..m}) <= SumOf(f, 1..n)
    BY <1>6, <1>9, <1>11, SumSubset
  <1> QED
    BY <1>4, <1>5, <1>10, <1>12

\* A bid as LadderSound wants it.
Priced(p, bid) ==
    /\ 0 < p.stop /\ p.stop < 100 * p.entry /\ 100 * p.entry < p.target
    /\ p.entry <= bid /\ p.notional \in Nat /\ p.notional >= Sizing.minNotional
    /\ (p.anchored => 10 * Gain(p) >= Risk.minRewardRisk * Loss(p))

Cost(q) == SumOf([k \in 1..Len(q) |-> q[k].notional], 1..Len(q))

Most == Smaller(Sizing.maxNotional, Sizing.budget)

LEMMA NothingCosts == Sized(<<>>) /\ Len(<<>>) = 0 /\ Cost(<<>>) <= Most
  <1>1. Len(<<>>) = 0
    OBVIOUS
  <1>2. 1..0 = {}
    OBVIOUS
  <1>3. Sized(<<>>)
    BY <1>1, <1>2 DEF Sized
  <1>4. PICK f : f = [k \in 1..Len(<<>>) |-> <<>>[k].notional]
    OBVIOUS
  <1>5. SumOf(f, {}) = 0
    BY SumEmpty
  <1>6. Cost(<<>>) = 0
    BY <1>1, <1>2, <1>4, <1>5 DEF Cost
  <1>7. Sizing.maxNotional \in Nat /\ Sizing.budget \in Nat
    BY SettingsAssumption
  <1> QED
    BY <1>1, <1>3, <1>6, <1>7 DEF Most, Smaller

LEMMA LadderSizeIs ==
    ASSUME NEW bid, NEW price, NEW found, Sized(found), Len(found) > 0,
           \A k \in 1..Len(found) : Leg(found[k], bid) /\ Worth(found[k], price),
           NEW reading, reading.confidence \in Int, reading.atr \in Int
    PROVE  LET size == LadderSize(found, reading)
           IN  size = 0 \/ (size \in Nat /\ size >= Sizing.minNotional /\ size <= Most)
  <1>1. \A k \in 1..Len(found) : Edge(found[k]) \in Int
    BY WorthIs
  <1>2. PICK edge \in Int : edge = BestEdge(found)
    BY <1>1, BestEdgeIs
  <1>3. PICK multiplier : multiplier = IF reading.regime = "downtrend" THEN Risk.downtrend ELSE 100
    OBVIOUS
  <1>4. multiplier \in Int
    <2>1. Risk.downtrend \in Int
      BY SettingsAssumption
    <2> QED
      BY <1>3, <2>1
  <1>5. PICK size : size = ConvictionSize(reading.confidence, edge, reading.atr, multiplier)
    OBVIOUS
  <1>6. size = 0 \/ (size \in Nat /\ size >= Sizing.minNotional /\ size <= Most)
    BY <1>4, <1>5, ConvictionIs DEF Most
  <1>7. LadderSize(found, reading) = size
    BY <1>2, <1>3, <1>5 DEF LadderSize
  <1> QED
    BY <1>6, <1>7

\* The legs that are left when they are cut to the size.
LEMMA CutIs ==
    ASSUME NEW found, Sized(found), Len(found) > 0, NEW total \in Nat, total >= Sizing.minNotional,
           NEW legs, legs = CutTo(found, total)
    PROVE  /\ Sized(legs) /\ Len(legs) > 0 /\ Len(legs) * Sizing.minNotional <= total
           /\ \A k \in 1..Len(legs) : legs[k] = found[k] /\ k \in 1..Len(found)
  <1>1. PICK least : least = Sizing.minNotional
    OBVIOUS
  <1>2. least \in Nat /\ least > 0 /\ least <= total
    <2>1. Sizing.minNotional \in Nat /\ Sizing.minNotional # 0
      BY SettingsAssumption
    <2> QED
      BY <1>1, <2>1
  <1>3. PICK d : d = total \div least
    OBVIOUS
  <1>4. d \in Nat /\ least * d <= total
    BY <1>2, <1>3, DivIs
  <1>5. PICK most : most = Larger(1, d)
    OBVIOUS
  <1>6. most \in Nat /\ most >= 1 /\ most * least <= total
    <2>1. CASE d >= 1
      <3>1. most = d \/ most = 1
        BY <1>5 DEF Larger
      <3> QED
        BY <1>2, <1>4, <2>1, <3>1
    <2>2. CASE ~(d >= 1)
      <3>1. most = 1
        BY <1>4, <1>5, <2>2 DEF Larger
      <3> QED
        BY <1>2, <3>1
    <2> QED
      BY <2>1, <2>2
  <1>7. legs = FirstZones(found, most)
    BY <1>1, <1>3, <1>5 DEF CutTo
  <1>8. /\ Sized(legs) /\ Len(legs) = Smaller(most, Len(found)) /\ Len(legs) <= Len(found)
        /\ \A k \in 1..Len(legs) : legs[k] = found[k] /\ k \in 1..Len(found)
    BY <1>6, <1>7, FirstSame
  <1>9. Len(legs) \in Nat /\ Len(legs) > 0 /\ Len(legs) <= most
    BY <1>6, <1>8 DEF Smaller, Sized
  <1>10. Len(legs) * least <= total
    <2>1. Len(legs) * least <= most * least /\ Len(legs) * least \in Nat /\ most * least \in Nat
      BY <1>2, <1>6, <1>9
    <2> QED
      BY <1>6, <2>1
  <1> QED
    BY <1>1, <1>8, <1>9, <1>10

\* The bids of a ladder that has a size.
LEMMA LadderOf ==
    ASSUME NEW map, MapSound(map), map.price \in Int, NEW bid \in Int,
           NEW reading, reading.confidence \in Int, reading.atr \in Int,
           NEW found, found = LegsFound(map, bid, reading.regime), Len(found) > 0,
           NEW total, total = LadderSize(found, reading), total # 0,
           NEW ladder, ladder = Ladder(map, bid, reading)
    PROVE  /\ Sized(ladder) /\ Len(ladder) > 0 /\ Cost(ladder) <= Most
           /\ \A k \in 1..Len(ladder) :
                Priced(ladder[k], bid) /\ ladder[k].anchored /\ Edge(ladder[k]) \in Int
  <1>1. /\ Sized(found)
        /\ \A k \in 1..Len(found) : Leg(found[k], bid) /\ Worth(found[k], map.price)
    BY LegsFoundAre
  <1>2. total \in Nat /\ total >= Sizing.minNotional /\ total <= Most
    BY <1>1, LadderSizeIs
  <1>3. PICK legs : legs = CutTo(found, total)
    OBVIOUS
  <1>4. /\ Sized(legs) /\ Len(legs) > 0 /\ Len(legs) * Sizing.minNotional <= total
        /\ \A k \in 1..Len(legs) : legs[k] = found[k] /\ k \in 1..Len(found)
    BY <1>1, <1>2, <1>3, CutIs
  <1>5. PICK n : n = Len(legs)
    OBVIOUS
  <1>6. n \in Nat /\ n > 0 /\ DOMAIN legs = 1..n
    BY <1>4, <1>5 DEF Sized
  <1>7. PICK w : w = [i \in 1..n |-> Weight(i)]
    OBVIOUS
  <1>8. (\A i \in 1..n : w[i] \in Nat) /\ w[1] > 0
    <2>1. \A i \in 1..n : w[i] \in Nat
      BY <1>6, <1>7, WeightIs
    <2>2. w[1] = Weight(1) /\ Weight(1) > 0
      BY <1>6, <1>7, WeightIs
    <2> QED
      BY <2>1, <2>2
  <1>9. PICK W : W = SumOf(w, 1..n)
    OBVIOUS
  <1>10. Total([i \in DOMAIN legs |-> Weight(i)]) = W
    BY <1>6, <1>7, <1>9 DEF Total, SumOf
  <1>11. PICK sized : sized = [i \in 1..n |->
                                [entry |-> legs[i].entry, stop |-> legs[i].stop, target |-> legs[i].target,
                                 anchored |-> TRUE, notional |-> (total * Weight(i)) \div W]]
    OBVIOUS
  <1>12. DOMAIN sized = 1..n
    BY <1>11
  <1>13. \A i \in 1..n : /\ sized[i].entry = legs[i].entry /\ sized[i].stop = legs[i].stop
                         /\ sized[i].target = legs[i].target /\ sized[i].anchored = TRUE
                         /\ sized[i].notional = (total * Weight(i)) \div W
    BY <1>11
  <1>14. PICK share : share = [i \in 1..n |-> sized[i].notional]
    OBVIOUS
  <1>15. \A i \in 1..n : share[i] = (total * w[i]) \div SumOf(w, 1..n)
    BY <1>7, <1>9, <1>13, <1>14
  <1>16. PICK least \in Nat : least = Sizing.minNotional
    <2>1. Sizing.minNotional \in Nat
      BY SettingsAssumption
    <2> QED
      BY <2>1
  <1>17. /\ \A i \in 1..n : share[i] \in Nat
         /\ SumOf(share, 1..n) \in Nat /\ SumOf(share, 1..n) <= total
         /\ \E i \in 1..n : share[i] >= least
    <2>1. n * least <= total
      BY <1>4, <1>5, <1>16
    <2>2. total \in Nat /\ w[1] > 0 /\ n > 0 /\ n \in Nat /\ \A i \in 1..n : w[i] \in Nat
      BY <1>2, <1>6, <1>8
    <2>3. SplitBy(n, total, least, w, share)
      BY <1>15, <2>1, <2>2 DEF SplitBy
    <2> QED
      BY <2>3, SplitIs
  <1>18. PICK kept : kept = {i \in 1..n : sized[i].notional >= Sizing.minNotional}
    OBVIOUS
  <1>19. PICK q : q = InPlace(sized, kept, [i \in kept |-> {j \in kept : FALSE \/ (j < i /\ ~FALSE)}])
    OBVIOUS
  <1>20. Selected(sized, LAMBDA leg : leg.notional >= Sizing.minNotional) = q
    BY <1>12, <1>18, <1>19 DEF Selected, Arranged
  <1>21. ladder = q
    <2>1. found # <<>>
      <3>1. Len(<<>>) = 0
        OBVIOUS
      <3> QED
        BY <3>1
    <2>2. [i \in DOMAIN legs |->
            [entry |-> legs[i].entry, stop |-> legs[i].stop, target |-> legs[i].target,
             anchored |-> TRUE, notional |-> (total * Weight(i)) \div W]] = sized
      BY <1>6, <1>11
    <2> QED
      BY <1>3, <1>10, <1>20, <2>1, <2>2 DEF Ladder
  <1>22. kept \in SUBSET (1..n)
    BY <1>18
  <1>23. PICK key : ByKey(q, sized, kept, key)
    BY <1>6, <1>19, <1>22, SelectedAre
  <1>24. /\ Sized(q) /\ \A k \in 1..Len(q) : \E i \in kept : q[k] = sized[i]
         /\ \A i \in kept : \E k \in 1..Len(q) : q[k] = sized[i]
    BY <1>23, ByKeyAre
  <1>25. Len(q) > 0
    <2>1. PICK i \in 1..n : share[i] >= least
      BY <1>17
    <2>2. i \in kept
      BY <1>14, <1>16, <1>18, <2>1
    <2>3. PICK k \in 1..Len(q) : q[k] = sized[i]
      BY <1>24, <2>2
    <2> QED
      BY <1>24, <2>3 DEF Sized
  <1>26. Cost(q) <= total /\ Cost(q) \in Int
    <2>1. \A i \in 1..n : sized[i].notional \in Nat
      BY <1>14, <1>17
    <2>2. Cost(q) <= SumOf([i \in 1..n |-> sized[i].notional], 1..n)
      BY <1>6, <1>22, <1>23, <2>1, NotionalKept DEF Cost
    <2>3. SumOf([i \in 1..n |-> sized[i].notional], 1..n) = SumOf(share, 1..n)
      BY <1>14
    <2>4. Cost(q) \in Int
      <3>a. \A i \in kept : sized[i].notional \in Int
        BY <1>22, <2>1
      <3>1. \A k \in 1..Len(q) : q[k].notional \in Int
        BY <1>24, <3>a
      <3>2. PICK f : f = [k \in 1..Len(q) |-> q[k].notional]
        OBVIOUS
      <3>b. Len(q) \in Nat
        BY <1>24 DEF Sized
      <3>c. IsFiniteSet(1..Len(q))
        BY <3>b, FS_Interval
      <3>3. IsFiniteSet(1..Len(q)) /\ \A k \in 1..Len(q) : f[k] \in Int
        BY <3>1, <3>2, <3>c
      <3>4. SumOf(f, 1..Len(q)) \in Int
        BY <3>3, SumInt
      <3> QED
        BY <3>2, <3>4 DEF Cost
    <2>5. total \in Int
      BY <1>2
    <2> QED
      BY <1>17, <2>2, <2>3, <2>4, <2>5
  <1>27. ASSUME NEW k \in 1..Len(q)
         PROVE  Priced(q[k], bid) /\ q[k].anchored /\ Edge(q[k]) \in Int
    <2>1. PICK i \in kept : q[k] = sized[i]
      BY <1>24
    <2>2. i \in 1..n
      BY <1>22
    <2>3. PICK leg, p : leg = legs[i] /\ p = sized[i]
      OBVIOUS
    <2>4. Leg(leg, bid) /\ Worth(leg, map.price)
      BY <1>1, <1>4, <1>5, <2>2, <2>3
    <2>5. /\ leg.entry \in Nat /\ leg.entry > 0 /\ 0 < leg.stop /\ leg.stop < 100 * leg.entry
          /\ 100 * leg.entry < leg.target /\ leg.entry <= bid /\ Edge(leg) \in Int
          /\ 10 * Gain(leg) >= Risk.minRewardRisk * Loss(leg)
      BY <2>4, WorthIs
    <2>6. /\ p.entry = leg.entry /\ p.stop = leg.stop /\ p.target = leg.target /\ p.anchored = TRUE
      BY <1>13, <2>2, <2>3
    <2>7. Gain(p) = Gain(leg) /\ Loss(p) = Loss(leg) /\ Edge(p) = Edge(leg)
      BY <2>6 DEF Gain, Loss, Edge
    <2>8. p.notional \in Nat /\ p.notional >= Sizing.minNotional
      BY <1>14, <1>17, <1>18, <2>2, <2>3
    <2>9. Priced(p, bid) /\ p.anchored /\ Edge(p) \in Int
      BY <2>5, <2>6, <2>7, <2>8 DEF Priced
    <2> QED
      BY <2>1, <2>3, <2>9
  <1>28. Cost(q) <= Most
    <2>1. Cost(q) \in Int
      BY <1>26
    <2>2. Most \in Int
      <3>1. Sizing.maxNotional \in Nat /\ Sizing.budget \in Nat
        BY SettingsAssumption
      <3> QED
        BY <3>1 DEF Most, Smaller
    <2> QED
      BY <1>2, <1>26, <2>1, <2>2
  <1> QED
    BY <1>21, <1>24, <1>25, <1>27, <1>28

LEMMA PullbackIs ==
    ASSUME NEW bid \in Int, NEW atr \in Int, MakerPullback(bid, atr) > 0
    PROVE  MakerPullback(bid, atr) \in Nat /\ MakerPullback(bid, atr) <= bid
  <1>1. PICK m : m = Risk.minOffset
    OBVIOUS
  <1>2. m \in 0..100 /\ Risk.atrMult \in Int /\ Risk.maxOffset \in Int
    <2>1. Risk.minOffset \in 0..100
      BY SettingsAssumption
    <2>2. Risk.atrMult \in Int /\ Risk.maxOffset \in Int
      BY SettingsAssumption
    <2> QED
      BY <1>1, <2>1, <2>2
  <1>3. PICK least : least = (bid * m) \div 100
    OBVIOUS
  <1>4. PICK other : other = Smaller((bid * atr * Risk.atrMult) \div 1000, (bid * Risk.maxOffset) \div 100)
    OBVIOUS
  <1>5. least \in Int
    <2>1. bid * m \in Int
      BY <1>2
    <2> QED
      BY <1>3, <2>1
  <1>6. other \in Int
    <2>1. bid * atr * Risk.atrMult \in Int /\ bid * Risk.maxOffset \in Int
      BY <1>2
    <2>2. (bid * atr * Risk.atrMult) \div 1000 \in Int /\ (bid * Risk.maxOffset) \div 100 \in Int
      BY <2>1
    <2> QED
      BY <1>4, <2>2 DEF Smaller
  <1>7. PICK offset : offset = Larger(least, other)
    OBVIOUS
  <1>8. offset \in Int /\ offset >= least
    BY <1>5, <1>6, <1>7 DEF Larger
  <1>9. MakerPullback(bid, atr) = bid - offset
    BY <1>1, <1>3, <1>4, <1>7 DEF MakerPullback
  <1>10. CASE bid >= 0
    <2>1. bid * m \in Nat
      BY <1>2, <1>10
    <2>2. least >= 0
      BY <1>3, <2>1
    <2> QED
      BY <1>5, <1>8, <1>9, <2>2
  <1>11. CASE bid < 0
    <2>1. bid * m >= bid * 100 /\ bid * m \in Int
      BY <1>2, <1>11
    <2>2. least >= bid
      BY <1>3, <2>1
    <2> QED
      BY <1>5, <1>8, <1>9, <2>2
  <1> QED
    BY <1>10, <1>11

LEMMA ShallowIs ==
    ASSUME NEW bid \in Int, NEW map, NEW reading, reading.confidence \in Int, reading.atr \in Int,
           reading.score \in Int, NEW q, q = Shallow(map, bid, reading)
    PROVE  Sized(q) /\ Cost(q) <= Most /\ \A k \in 1..Len(q) : Priced(q[k], bid)
  <1>1. PICK entry, edge : /\ entry = MakerPullback(bid, reading.atr)
                           /\ edge = (reading.score * Risk.edgeScale) \div 100
    OBVIOUS
  <1>2. PICK notional : notional = ConvictionSize(reading.confidence, edge, reading.atr, 100)
    OBVIOUS
  <1>3. edge \in Int
    <2>1. Risk.edgeScale \in Int
      BY SettingsAssumption
    <2>2. reading.score * Risk.edgeScale \in Int
      BY <2>1
    <2> QED
      BY <1>1, <2>2
  <1>4. \/ notional = 0
        \/ notional \in Nat /\ notional >= Sizing.minNotional /\ notional <= Most
    BY <1>2, <1>3, ConvictionIs DEF Most
  <1>5. CASE edge < Risk.minEdge \/ notional <= 0 \/ entry <= 0
    <2>1. q = <<>>
      BY <1>1, <1>2, <1>5 DEF Shallow
    <2>2. \A k \in 1..Len(<<>>) : FALSE
      OBVIOUS
    <2> QED
      BY <2>1, <2>2, NothingCosts
  <1>6. CASE ~(edge < Risk.minEdge \/ notional <= 0 \/ entry <= 0)
    <2>1. PICK p : p = [entry |-> entry, stop |-> entry * (100 - Risk.stopLoss),
                        target |-> entry * (100 + Risk.takeProfit), anchored |-> FALSE, notional |-> notional]
      OBVIOUS
    <2>2. q = <<p>>
      BY <1>1, <1>2, <1>6, <2>1 DEF Shallow
    <2>3. notional \in Nat /\ notional >= Sizing.minNotional /\ notional <= Most
      BY <1>4, <1>6
    <2>4. entry \in Nat /\ entry > 0 /\ entry <= bid
      <3>1. MakerPullback(bid, reading.atr) \in Int
        <4>1. PICK x : x = MakerPullback(bid, reading.atr)
          OBVIOUS
        <4>2. Risk.minOffset \in Int /\ Risk.atrMult \in Int /\ Risk.maxOffset \in Int
          <5>1. Risk.minOffset \in 0..100
            BY SettingsAssumption
          <5>2. Risk.atrMult \in Int /\ Risk.maxOffset \in Int
            BY SettingsAssumption
          <5> QED
            BY <5>1, <5>2
        <4>3. /\ bid * Risk.minOffset \in Int /\ bid * reading.atr * Risk.atrMult \in Int
              /\ bid * Risk.maxOffset \in Int
          BY <4>2
        <4>4. /\ (bid * Risk.minOffset) \div 100 \in Int
              /\ (bid * reading.atr * Risk.atrMult) \div 1000 \in Int
              /\ (bid * Risk.maxOffset) \div 100 \in Int
          BY <4>3
        <4> QED
          BY <4>4 DEF MakerPullback, Larger, Smaller
      <3>2. MakerPullback(bid, reading.atr) > 0
        BY <1>1, <1>6, <3>1
      <3> QED
        BY <1>1, <3>2, PullbackIs
    <2>5. PICK loss, profit : loss = Risk.stopLoss /\ profit = Risk.takeProfit
      OBVIOUS
    <2>6. loss \in 1..99 /\ profit \in Nat /\ profit > 0
      <3>1. Risk.stopLoss \in 1..99
        BY SettingsAssumption
      <3>2. Risk.takeProfit \in Nat /\ Risk.takeProfit # 0
        BY SettingsAssumption
      <3> QED
        BY <2>5, <3>1, <3>2
    <2>7. /\ 0 < entry * (100 - loss) /\ entry * (100 - loss) < 100 * entry
          /\ 100 * entry < entry * (100 + profit)
      <3>1. entry * (100 - loss) = 100 * entry - entry * loss /\ entry * loss \in Nat
            /\ entry * (100 + profit) = 100 * entry + entry * profit /\ entry * profit \in Nat
        BY <2>4, <2>6
      <3>2. entry * loss > 0 /\ entry * profit > 0 /\ entry * (100 - loss) > 0
        BY <2>4, <2>6
      <3> QED
        BY <2>4, <3>1, <3>2
    <2>8. /\ p.entry = entry /\ p.stop = entry * (100 - loss) /\ p.target = entry * (100 + profit)
          /\ p.anchored = FALSE /\ p.notional = notional
      BY <2>1, <2>5
    <2>9. Priced(p, bid)
      BY <2>3, <2>4, <2>7, <2>8 DEF Priced
    <2>10. Len(q) = 1 /\ q = [k \in 1..1 |-> p] /\ q[1] = p
      BY <2>2
    <2>11. Sized(q)
      BY <2>10 DEF Sized
    <2>12. Cost(q) = notional
      <3>1. PICK f : f = [k \in 1..Len(q) |-> q[k].notional]
        OBVIOUS
      <3>2. f[1] = notional /\ 1..Len(q) = {} \cup {1}
        BY <2>8, <2>10, <3>1
      <3>3. IsFiniteSet({}) /\ SumOf(f, {}) = 0 /\ \A i \in {} : f[i] \in Int
        BY SumEmpty, FS_EmptySet
      <3>4. SumOf(f, {} \cup {1}) = SumOf(f, {}) + f[1]
        <4>1. f[1] \in Int /\ 1 \notin {}
          BY <2>3, <3>2
        <4> QED
          BY <3>3, <4>1, SumAdd
      <3>5. Cost(q) = SumOf(f, 1..Len(q))
        BY <3>1 DEF Cost
      <3>6. SumOf(f, 1..Len(q)) = SumOf(f, {} \cup {1})
        BY <3>2
      <3>7. SumOf(f, {} \cup {1}) = notional
        BY <2>3, <3>2, <3>3, <3>4
      <3> QED
        BY <3>5, <3>6, <3>7
    <2> QED
      BY <2>3, <2>9, <2>10, <2>11, <2>12
  <1> QED
    BY <1>5, <1>6

\* The ladder in the order of its edges.
Ranked(ladder) == Sorted(ladder, LAMBDA a, b : Edge(a) > Edge(b))

LEMMA RankedIs ==
    ASSUME NEW bid, NEW ladder, Sized(ladder), Len(ladder) > 0, Cost(ladder) <= Most,
           \A k \in 1..Len(ladder) : /\ Priced(ladder[k], bid) /\ ladder[k].anchored
                                     /\ Edge(ladder[k]) \in Int,
           NEW q, q = Ranked(ladder)
    PROVE  /\ Sized(q) /\ Len(q) > 0 /\ Cost(q) <= Most
           /\ \A k \in 1..Len(q) : Priced(q[k], bid) /\ q[k].anchored
  <1>1. PICK n, I : n = Len(ladder) /\ I = DOMAIN ladder
    OBVIOUS
  <1>2. n \in Nat /\ n > 0 /\ I = 1..n
    BY <1>1 DEF Sized
  <1>3. IsFiniteSet(I) /\ I \in SUBSET Int /\ 1 \in I
    <2>1. IsFiniteSet(1..n)
      BY <1>2, FS_Interval
    <2> QED
      BY <1>2, <2>1
  <1>4. PICK key : key = [i \in I |-> -Edge(ladder[i])]
    OBVIOUS
  <1>5. \A i \in I : key[i] \in Int /\ key[i] = -Edge(ladder[i]) /\ Edge(ladder[i]) \in Int
    BY <1>1, <1>2, <1>4
  <1>6. PICK before, order :
          /\ before = [i \in I |-> {j \in I : Edge(ladder[j]) > Edge(ladder[i])
                                              \/ (j < i /\ ~(Edge(ladder[i]) > Edge(ladder[j])))}]
          /\ order = [i \in I |-> {j \in I : key[j] < key[i] \/ (j < i /\ ~(key[i] < key[j]))}]
    OBVIOUS
  <1>7. before = order
    <2>1. \A i, j \in I : Edge(ladder[j]) > Edge(ladder[i]) <=> key[j] < key[i]
      BY <1>5
    <2> QED
      BY <1>6, <2>1
  <1>8. PICK r : r = InPlace(ladder, I, order)
    OBVIOUS
  <1>9. ByKey(r, ladder, I, key)
    BY <1>3, <1>5, <1>6, <1>8, ArrangedByKey
  <1>10. Ranked(ladder) = r
    BY <1>1, <1>6, <1>7, <1>8 DEF Ranked, Sorted, Arranged
  <1>11. /\ Sized(r) /\ \A k \in 1..Len(r) : \E i \in I : r[k] = ladder[i]
         /\ \A i \in I : \E k \in 1..Len(r) : r[k] = ladder[i]
    BY <1>9, ByKeyAre
  <1>12. Len(r) > 0
    <2>1. PICK k \in 1..Len(r) : r[k] = ladder[1]
      BY <1>3, <1>11
    <2> QED
      BY <1>11, <2>1 DEF Sized
  <1>13. \A k \in 1..Len(r) : Priced(r[k], bid) /\ r[k].anchored
    <2>1. \A i \in I : Priced(ladder[i], bid) /\ ladder[i].anchored
      BY <1>1, <1>2
    <2> QED
      BY <1>11, <2>1
  <1>14. \A i \in I : ladder[i].notional \in Nat
    BY <1>1, <1>2 DEF Priced
  <1>15. Cost(r) <= Cost(ladder)
    <2>1. I \in SUBSET (1..n) /\ \A i \in 1..n : ladder[i].notional \in Nat
      BY <1>2, <1>14
    <2> QED
      BY <1>1, <1>2, <1>9, <2>1, NotionalKept DEF Cost
  <1>16. Cost(r) \in Int /\ Cost(ladder) \in Int
    <2>1. PICK f, g : /\ f = [k \in 1..Len(ladder) |-> ladder[k].notional]
                      /\ g = [k \in 1..Len(r) |-> r[k].notional]
      OBVIOUS
    <2>2. \A k \in 1..Len(ladder) : f[k] \in Int
      BY <1>1, <1>2, <1>14, <2>1
    <2>3. \A k \in 1..Len(r) : g[k] \in Int
      BY <1>13, <2>1 DEF Priced
    <2>4. Len(r) \in Nat /\ Len(ladder) \in Nat
      BY <1>11 DEF Sized
    <2>5. IsFiniteSet(1..Len(r)) /\ IsFiniteSet(1..Len(ladder))
      BY <2>4, FS_Interval
    <2>6. SumOf(f, 1..Len(ladder)) \in Int /\ SumOf(g, 1..Len(r)) \in Int
      BY <2>2, <2>3, <2>5, SumInt
    <2> QED
      BY <2>1, <2>6 DEF Cost
  <1>17. Most \in Int
    <2>1. Sizing.maxNotional \in Nat /\ Sizing.budget \in Nat
      BY SettingsAssumption
    <2> QED
      BY <2>1 DEF Most, Smaller
  <1>18. Cost(r) <= Most
    BY <1>15, <1>16, <1>17
  <1>19. q = r
    BY <1>10
  <1> QED
    BY <1>11, <1>12, <1>13, <1>18, <1>19

LEMMA ProposedIs ==
    ASSUME NEW map, MapSound(map), map.price \in Int, NEW bid \in Int,
           NEW reading, reading.confidence \in Int, reading.atr \in Int, reading.score \in Int,
           NEW q, q = Proposed(map, bid, reading)
    PROVE  /\ Sized(q) /\ Cost(q) <= Most /\ \A k \in 1..Len(q) : Priced(q[k], bid)
           /\ (reading.score >= -10 /\ LegsFound(map, bid, reading.regime) # <<>>
                 /\ LadderSize(LegsFound(map, bid, reading.regime), reading) > 0)
                => q # <<>> /\ q[1].anchored
  <1>1. PICK found : found = LegsFound(map, bid, reading.regime)
    OBVIOUS
  <1>2. PICK total : total = LadderSize(found, reading)
    OBVIOUS
  <1>3. /\ Sized(found) /\ \A k \in 1..Len(found) : map.supports # <<>>
    BY <1>1, LegsFoundAre
  <1>4. found # <<>> => Len(found) > 0
    <2>1. Len(found) \in Nat /\ (Len(found) = 0 => found = <<>>)
      BY <1>3 DEF Sized
    <2> QED
      BY <2>1
  <1>5. PICK ladder : ladder = IF map.supports # <<>> /\ reading.score >= -10
                                 THEN Ladder(map, bid, reading) ELSE <<>>
    OBVIOUS
  <1>6. q = IF ladder # <<>> THEN Ranked(ladder) ELSE Shallow(map, bid, reading)
    BY <1>5 DEF Proposed, Ranked
  <1>7. CASE map.supports # <<>> /\ reading.score >= -10 /\ found # <<>> /\ total # 0
    <2>1. ladder = Ladder(map, bid, reading) /\ Len(found) > 0
      BY <1>4, <1>5, <1>7
    <2>2. /\ Sized(ladder) /\ Len(ladder) > 0 /\ Cost(ladder) <= Most
          /\ \A k \in 1..Len(ladder) :
               Priced(ladder[k], bid) /\ ladder[k].anchored /\ Edge(ladder[k]) \in Int
      BY <1>1, <1>2, <1>7, <2>1, LadderOf
    <2>3. ladder # <<>>
      <3>1. Len(<<>>) = 0
        OBVIOUS
      <3> QED
        BY <2>2, <3>1
    <2>4. q = Ranked(ladder)
      BY <1>6, <2>3
    <2>5. /\ Sized(q) /\ Len(q) > 0 /\ Cost(q) <= Most
          /\ \A k \in 1..Len(q) : Priced(q[k], bid) /\ q[k].anchored
      BY <2>2, <2>4, RankedIs
    <2>6. q # <<>> /\ 1 \in 1..Len(q)
      <3>1. Len(<<>>) = 0
        OBVIOUS
      <3> QED
        BY <2>5, <3>1 DEF Sized
    <2> QED
      BY <2>5, <2>6
  <1>8. CASE ~(map.supports # <<>> /\ reading.score >= -10 /\ found # <<>> /\ total # 0)
    <2>1. ladder = <<>>
      <3>1. CASE map.supports # <<>> /\ reading.score >= -10
        <4>1. ladder = Ladder(map, bid, reading) /\ (found = <<>> \/ total = 0)
          BY <1>5, <1>8, <3>1
        <4>2. Ladder(map, bid, reading) = <<>>
          BY <1>1, <1>2, <4>1 DEF Ladder
        <4> QED
          BY <4>1, <4>2
      <3>2. CASE ~(map.supports # <<>> /\ reading.score >= -10)
        BY <1>5, <3>2
      <3> QED
        BY <3>1, <3>2
    <2>2. q = Shallow(map, bid, reading)
      BY <1>6, <2>1
    <2>3. Sized(q) /\ Cost(q) <= Most /\ \A k \in 1..Len(q) : Priced(q[k], bid)
      BY <2>2, ShallowIs
    <2>4. ~(reading.score >= -10 /\ found # <<>> /\ total > 0)
      <3>1. found # <<>> => map.supports # <<>>
        <4>1. found # <<>> => 1 \in 1..Len(found)
          BY <1>3, <1>4 DEF Sized
        <4> QED
          BY <1>3, <4>1
      <3>2. total > 0 => total # 0
        OBVIOUS
      <3> QED
        BY <1>8, <3>1, <3>2
    <2> QED
      BY <1>1, <1>2, <2>3, <2>4
  <1> QED
    BY <1>7, <1>8

-----------------------------------------------------------------------------
(* The bids that rest on a look at the market.                             *)

LEMMA ReversedApart ==
    ASSUME NEW zs, ZonesUp(zs) PROVE ZonesApart(Reverse(zs))
  <1>1. PICK n, r : n = Len(zs) /\ r = Reverse(zs)
    OBVIOUS
  <1>2. n \in Nat /\ r = [i \in 1..n |-> zs[(n - i) + 1]]
    BY <1>1 DEF ZonesUp, Sized, Reverse
  <1>3. DOMAIN r = 1..n /\ \A i \in 1..n : r[i] = zs[(n - i) + 1] /\ (n - i) + 1 \in 1..n
    BY <1>2
  <1>4. ASSUME NEW i \in 1..n, NEW j \in 1..n, i < j PROVE r[j].high < r[i].low
    <2>1. (n - j) + 1 < (n - i) + 1
      BY <1>2, <1>4
    <2>2. zs[(n - j) + 1].high < zs[(n - i) + 1].low
      BY <1>1, <1>3, <2>1 DEF ZonesUp
    <2> QED
      BY <1>3, <2>2
  <1> QED
    BY <1>1, <1>3, <1>4 DEF ZonesApart

LEMMA DownApart ==
    ASSUME NEW zs, ZonesDown(zs) PROVE ZonesApart(zs)
  BY DEF ZonesDown, Sized, ZonesApart

LEMMA ProposeSound ==
    ASSUME candles \in Seq(Shapes), Propose
    PROVE  LadderSound' /\ SizedLadderKept'
  <1>1. PICK reading \in Views :
          /\ view' = [seen |-> TRUE, map |-> LevelMapOf(candles, Last(candles).close), reading |-> reading,
                      bid |-> Last(candles).close - reading.spread]
          /\ proposals' = Proposed(LevelMapOf(candles, Last(candles).close),
                                   Last(candles).close - reading.spread, reading)
    BY DEF Propose
  <1>2. PICK price, map, bid : /\ price = Last(candles).close /\ map = LevelMapOf(candles, price)
                               /\ bid = price - reading.spread
    OBVIOUS
  <1>3. /\ view' = [seen |-> TRUE, map |-> map, reading |-> reading, bid |-> bid]
        /\ proposals' = Proposed(map, bid, reading)
    BY <1>1, <1>2
  <1>4. candles # <<>> /\ price \in Int
    <2>1. Len(candles) \in Nat /\ Len(candles) > 1
      BY LenProperties DEF Propose
    <2>2. Last(candles) = candles[Len(candles)] /\ Len(candles) \in 1..Len(candles)
      BY <2>1 DEF Last
    <2>3. Last(candles) \in Shapes
      BY <2>2, ElementOfSeq
    <2>4. Last(candles).close \in Nat
      BY <2>3, ZoneAssumption
    <2>5. candles # <<>>
      <3>1. Len(<<>>) = 0
        OBVIOUS
      <3> QED
        BY <2>1, <3>1
    <2> QED
      BY <1>2, <2>4, <2>5
  <1>5. reading.spread \in Int /\ reading.score \in Int /\ reading.confidence \in Int /\ reading.atr \in Int
    BY SettingsAssumption
  <1>6. bid \in Int
    BY <1>2, <1>4, <1>5
  <1>7. MapSound(map) /\ map.price = price
    BY <1>2, <1>4, LevelMapSound
  <1>8. PICK q : q = proposals'
    OBVIOUS
  <1>9. /\ Sized(q) /\ Cost(q) <= Most /\ \A k \in 1..Len(q) : Priced(q[k], bid)
        /\ (reading.score >= -10 /\ LegsFound(map, bid, reading.regime) # <<>>
              /\ LadderSize(LegsFound(map, bid, reading.regime), reading) > 0)
             => q # <<>> /\ q[1].anchored
    <2>1. q = Proposed(map, bid, reading) /\ map.price \in Int
      BY <1>3, <1>4, <1>7, <1>8
    <2> QED
      BY <1>5, <1>6, <1>7, <2>1, ProposedIs
  <1>10. view'.seen /\ view'.map = map /\ view'.reading = reading /\ view'.bid = bid
    BY <1>3
  <1>11. ZonesApart(map.supports) /\ ZonesApart(Reverse(map.resistances))
    BY <1>7, DownApart, ReversedApart DEF MapSound
  <1>12. ASSUME NEW i \in DOMAIN q
         PROVE  /\ 0 < q[i].stop /\ q[i].stop < 100 * q[i].entry /\ 100 * q[i].entry < q[i].target
                /\ q[i].entry <= bid /\ q[i].notional >= Sizing.minNotional
                /\ q[i].anchored => 10 * Gain(q[i]) >= Risk.minRewardRisk * Loss(q[i])
    <2>1. i \in 1..Len(q)
      BY <1>9 DEF Sized
    <2>2. Priced(q[i], bid)
      BY <1>9, <2>1
    <2> QED
      BY <2>2 DEF Priced
  <1>13. Together(q) <= Smaller(Sizing.maxNotional, Sizing.budget)
    <2>1. PICK f : f = [k \in 1..Len(q) |-> q[k].notional]
      OBVIOUS
    <2>2. DOMAIN q = 1..Len(q)
      BY <1>9 DEF Sized
    <2>3. Column(q, LAMBDA p : p.notional) = f /\ DOMAIN f = 1..Len(q)
      BY <2>1, <2>2 DEF Column
    <2>a. Together(q) = Total(f)
      BY <2>3 DEF Together
    <2>4. Total(f) = SumOf(f, 1..Len(q))
      BY <2>3 DEF Total, SumOf
    <2>5. SumOf(f, 1..Len(q)) = Cost(q)
      BY <2>1 DEF Cost
    <2> QED
      BY <1>9, <2>4, <2>5, <2>a DEF Most
  <1>14. LadderSound'
    BY <1>8, <1>10, <1>11, <1>12, <1>13 DEF LadderSound
  <1>15. SizedLadderKept'
    BY <1>8, <1>9, <1>10 DEF SizedLadderKept
  <1> QED
    BY <1>14, <1>15

LEMMA LaddersSound == ZoneSpec => [](LadderSound /\ SizedLadderKept)
  <1>1. ASSUME view = NoView PROVE LadderSound /\ SizedLadderKept
    BY <1>1 DEF NoView, LadderSound, SizedLadderKept
  <1>2. ASSUME view' = NoView PROVE LadderSound' /\ SizedLadderKept'
    BY <1>2 DEF NoView, LadderSound, SizedLadderKept
  <1>3. ZoneInit => LadderSound /\ SizedLadderKept
    BY <1>1 DEF ZoneInit
  <1>4. candles \in Seq(Shapes) /\ LadderSound /\ SizedLadderKept /\ [ZoneNext]_zoneVars
          => (LadderSound /\ SizedLadderKept)'
    <2> SUFFICES ASSUME candles \in Seq(Shapes), LadderSound, SizedLadderKept, [ZoneNext]_zoneVars
                 PROVE  LadderSound' /\ SizedLadderKept'
      OBVIOUS
    <2>1. CASE CandleComes
      BY <1>2, <2>1 DEF CandleComes
    <2>2. CASE CandleMoves
      BY <1>2, <2>2 DEF CandleMoves
    <2>3. CASE Propose
      BY <2>3, ProposeSound
    <2>4. CASE UNCHANGED zoneVars
      BY <2>4 DEF zoneVars, LadderSound, SizedLadderKept
    <2> QED
      BY <2>1, <2>2, <2>3, <2>4 DEF ZoneNext
  <1> QED
    BY <1>3, <1>4, CandlesTyped, PTL DEF ZoneSpec

(***************************************************************************)
(* Whatever the candles and the reading: the zones are bands apart, every  *)
(* bid has its stop below it, its target above it and the reward the rules *)
(* ask for, and the bids together cost no more than the largest size.      *)
(***************************************************************************)
THEOREM LadderSoundHolds == ZoneSpec => []LadderSound
  BY LaddersSound, PTL

(***************************************************************************)
(* A ladder that has a size is proposed: the leg that weighs most is paid  *)
(* for, however the size is split.                                         *)
(***************************************************************************)
THEOREM SizedLadderKeptHolds == ZoneSpec => []SizedLadderKept
  BY LaddersSound, PTL

=============================================================================
