----------------------------- MODULE Desk_proofs ------------------------------
(***************************************************************************)
(* Theorems about the parts that feed the decisions and judge them, for    *)
(* every price, candle and lifetime.  Part 1 is the book: what the desk    *)
(* believes it has earned; part 2 the evidence of the signal agents; part  *)
(* 3 one call of the adapter.  Part 4 is the replay: the baseline walks    *)
(* the candles with a state of its own, the replay folds over a window, so *)
(* the fold is first brought into the form of a simulation, a value for    *)
(* each number of candles, the walk compared with it, and a lifetime with  *)
(* another, since the replay gives every bid the same.  Part 5 is the      *)
(* replay with the tiers: it runs in tandem with the one with the bracket  *)
(* until the bid fills, and climbs the ladder from there.                  *)
(***************************************************************************)
EXTENDS TradeLedger, SignalFeeds, AdapterRequest, Backtest, SumLemmas, SequenceTheorems, TLAPS

-----------------------------------------------------------------------------
(* Part 1.  The ledger.  Each side of an order has at most two trades, so  *)
(* the sums of round_trip_pnl are sums of one or two terms.                *)

QuotesIn(S) == [t \in S |-> Quote(t)]
CommissionsIn(S, converts) == [t \in S |-> Commission(t, converts)]

AddingQuotes(g, S) ==
    [s \in SUBSET S |-> IF s = {} THEN 0
                        ELSE LET x == CHOOSE y \in s : TRUE IN Quote(x) + g[s \ {x}]]
AddingCommissions(g, S, converts) ==
    [s \in SUBSET S |-> IF s = {} THEN 0
                        ELSE LET x == CHOOSE y \in s : TRUE
                             IN  Commission(x, converts) + g[s \ {x}]]

LEMMA QuoteUnfolds ==
    ASSUME NEW S
    PROVE  \E h : /\ QuoteOf(S) = h[S]
                  /\ (\E g : g = AddingQuotes(g, S)) => h = AddingQuotes(h, S)
  BY DEF QuoteOf, MapThenSumSet, MapThenFoldSet, AddingQuotes

LEMMA CommissionUnfolds ==
    ASSUME NEW S, NEW converts
    PROVE  \E h : /\ CommissionOf(S, converts) = h[S]
                  /\ (\E g : g = AddingCommissions(g, S, converts))
                     => h = AddingCommissions(h, S, converts)
  BY DEF CommissionOf, MapThenSumSet, MapThenFoldSet, AddingCommissions

LEMMA QuoteIsSum == ASSUME NEW S, IsFiniteSet(S) PROVE QuoteOf(S) = SumOf(QuotesIn(S), S)
  <1> DEFINE f == QuotesIn(S)
  <1>1. ASSUME NEW g PROVE AddingQuotes(g, S) = Adding(g, f, S)
    BY DEF AddingQuotes, Adding, QuotesIn
  <1> HIDE DEF f
  <1>2. PICK i : i = Adding(i, f, S)
    BY SumExists DEF SumsOver
  <1>3. PICK h : /\ QuoteOf(S) = h[S]
                 /\ (\E g : g = AddingQuotes(g, S)) => h = AddingQuotes(h, S)
    BY QuoteUnfolds
  <1>4. SumsOver(h, f, S)
    BY <1>1, <1>2, <1>3 DEF SumsOver
  <1>5. SumOf(f, S) = h[S]
    BY <1>4, SumIs
  <1> QED
    BY <1>3, <1>5 DEF f

LEMMA CommissionIsSum ==
    ASSUME NEW S, IsFiniteSet(S), NEW converts
    PROVE  CommissionOf(S, converts) = SumOf(CommissionsIn(S, converts), S)
  <1> DEFINE f == CommissionsIn(S, converts)
  <1>1. ASSUME NEW g PROVE AddingCommissions(g, S, converts) = Adding(g, f, S)
    BY DEF AddingCommissions, Adding, CommissionsIn
  <1> HIDE DEF f
  <1>2. PICK i : i = Adding(i, f, S)
    BY SumExists DEF SumsOver
  <1>3. PICK h : /\ CommissionOf(S, converts) = h[S]
                 /\ (\E g : g = AddingCommissions(g, S, converts))
                    => h = AddingCommissions(h, S, converts)
    BY CommissionUnfolds
  <1>4. SumsOver(h, f, S)
    BY <1>1, <1>2, <1>3 DEF SumsOver
  <1>5. SumOf(f, S) = h[S]
    BY <1>4, SumIs
  <1> QED
    BY <1>3, <1>5 DEF f

\* A sum of one or two terms.
LEMMA SumOne ==
    ASSUME NEW f, NEW a, f[a] \in Int
    PROVE  IsFiniteSet({a}) /\ Cardinality({a}) = 1 /\ SumOf(f, {a}) = f[a]
  <1>1. IsFiniteSet({}) /\ SumOf(f, {}) = 0 /\ {} \cup {a} = {a}
    BY FS_EmptySet, SumEmpty
  <1>2. IsFiniteSet({a}) /\ Cardinality({a}) = 1
    BY FS_Singleton
  <1>3. SumOf(f, {} \cup {a}) = SumOf(f, {}) + f[a]
    BY <1>1, SumAdd
  <1> QED
    BY <1>1, <1>2, <1>3

LEMMA SumPair ==
    ASSUME NEW f, NEW a, NEW b, a # b, f[a] \in Int, f[b] \in Int
    PROVE  /\ IsFiniteSet({a, b}) /\ Cardinality({a, b}) = 2
           /\ SumOf(f, {a, b}) = f[a] + f[b]
  <1> DEFINE S == {a}
             T == {a, b}
  <1>1. IsFiniteSet(S) /\ Cardinality(S) = 1 /\ SumOf(f, S) = f[a]
    BY SumOne
  <1>2. T = S \cup {b} /\ b \notin S /\ \A i \in S : f[i] \in Int
    OBVIOUS
  <1> HIDE DEF S, T
  <1>3. IsFiniteSet(T) /\ Cardinality(T) = Cardinality(S) + 1
    BY <1>1, <1>2, FS_AddElement
  <1>4. SumOf(f, T) = SumOf(f, S) + f[b]
    BY <1>1, <1>2, SumAdd
  <1> QED
    BY <1>1, <1>3, <1>4 DEF T

LEMMA LedgerConstants ==
    /\ \A t \in Trade : t.price \in Nat /\ t.price > 0 /\ Quote(t) = 100 * t.price
    /\ \A t \in Trade, c \in BOOLEAN : Commission(t, c) = 0 \/ Commission(t, c) = t.price
    /\ \A t \in Trade, c \in BOOLEAN : Commission(t, c) <= Commission(t, TRUE)
    /\ Lots = 2
  <1>1. \A t \in Trade : t.price \in Nat /\ t.price > 0
    <2>1. \A t \in Trade : t.price \in EntryPrices \cup ExitPrices
      BY DEF Trade
    <2>2. EntryPrices \cup ExitPrices \subseteq Nat \ {0}
      BY LedgerAssumption DEF LedgerAssumption
    <2>3. \A x \in EntryPrices \cup ExitPrices : x \in Nat /\ x # 0
      BY <2>2
    <2>4. \A x \in Nat : x # 0 => x > 0
      OBVIOUS
    <2> QED
      BY <2>1, <2>3, <2>4
  <1>2. Lots = 2
    <2>1. 1 \in {1} /\ 2 \notin {1} /\ 1..2 = {1} \cup {2}
      OBVIOUS
    <2>2. IsFiniteSet({1}) /\ Cardinality({1}) = 1
      BY FS_Singleton
    <2>3. Cardinality({1} \cup {2}) = 1 + 1
      BY <2>1, <2>2, FS_AddElement
    <2> QED
      BY <2>1, <2>3 DEF Lots, Parts
  <1>3. \A t \in Trade, c \in BOOLEAN : /\ Commission(t, c) = 0 \/ Commission(t, c) = t.price
                                        /\ Commission(t, TRUE) = t.price
    <2> TAKE t \in Trade, c \in BOOLEAN
    <2>1. Commission(t, TRUE) = t.price
      BY DEF Commission
    <2>2. Commission(t, c) = 0 \/ Commission(t, c) = t.price
      BY Zenon DEF Commission
    <2> QED
      BY <2>1, <2>2
  <1>4. \A t \in Trade, c \in BOOLEAN : Commission(t, c) <= Commission(t, TRUE)
    <2> TAKE t \in Trade, c \in BOOLEAN
    <2>1. t.price \in Nat /\ t.price >= 0 /\ t.price <= t.price
      BY <1>1
    <2> QED
      BY <1>3, <2>1
  <1> QED
    BY <1>1, <1>2, <1>3, <1>4 DEF Quote

\* What one or two trades are worth.
Priced(a) == Quote(a) \in Int /\ \A c \in BOOLEAN : Commission(a, c) \in Int

LEMMA TradePriced == \A a \in Trade : Priced(a)
  BY LedgerConstants DEF Priced

LEMMA WorthOne ==
    ASSUME NEW a \in Trade, NEW converts \in BOOLEAN
    PROVE  /\ QuoteOf({a}) = Quote(a) /\ CommissionOf({a}, converts) = Commission(a, converts)
           /\ Cardinality({a}) = 1
  <1> DEFINE f == QuotesIn({a})
             g == CommissionsIn({a}, converts)
  <1>1. f[a] = Quote(a) /\ g[a] = Commission(a, converts)
    BY DEF QuotesIn, CommissionsIn
  <1>2. f[a] \in Int /\ g[a] \in Int
    BY <1>1, TradePriced DEF Priced
  <1> HIDE DEF f, g
  <1>3. IsFiniteSet({a}) /\ Cardinality({a}) = 1 /\ SumOf(f, {a}) = f[a] /\ SumOf(g, {a}) = g[a]
    BY <1>2, SumOne
  <1> QED
    BY <1>1, <1>3, QuoteIsSum, CommissionIsSum DEF f, g

LEMMA WorthTwo ==
    ASSUME NEW a \in Trade, NEW b \in Trade, a # b, NEW converts \in BOOLEAN
    PROVE  /\ QuoteOf({a, b}) = Quote(a) + Quote(b)
           /\ CommissionOf({a, b}, converts) = Commission(a, converts) + Commission(b, converts)
           /\ Cardinality({a, b}) = 2
  <1> DEFINE f == QuotesIn({a, b})
             g == CommissionsIn({a, b}, converts)
  <1>1. /\ f[a] = Quote(a) /\ f[b] = Quote(b)
        /\ g[a] = Commission(a, converts) /\ g[b] = Commission(b, converts)
    BY DEF QuotesIn, CommissionsIn
  <1>2. f[a] \in Int /\ f[b] \in Int /\ g[a] \in Int /\ g[b] \in Int
    BY <1>1, TradePriced DEF Priced
  <1> HIDE DEF f, g
  <1>3. /\ IsFiniteSet({a, b}) /\ Cardinality({a, b}) = 2
        /\ SumOf(f, {a, b}) = f[a] + f[b] /\ SumOf(g, {a, b}) = g[a] + g[b]
    BY <1>2, SumPair
  <1> QED
    BY <1>1, <1>3, QuoteIsSum, CommissionIsSum DEF f, g

-----------------------------------------------------------------------------
(* A side of an order: no trade, the first or both.                        *)

SideOf(S, exit) ==
    \/ S = {}
    \/ \E a \in Trade : S = {a} /\ a.exit = exit /\ a.part = 1
    \/ \E a \in Trade, b \in Trade :
         S = {a, b} /\ a.exit = exit /\ b.exit = exit /\ a.part = 1 /\ b.part = 2

\* What a trade brings or takes, commission included.
LEMMA TradeCosts ==
    \A t \in Trade :
       /\ t.price \in Nat /\ Quote(t) \in Int /\ Quote(t) > 0
       /\ Earned(t) = Quote(t) - t.price /\ Paid(t) = Quote(t) + t.price
       /\ \A c \in BOOLEAN : Commission(t, c) \in Int /\ 0 <= Commission(t, c) /\ Commission(t, c) <= t.price
  <1> TAKE t \in Trade
  <1>1. t.price \in Nat /\ Quote(t) \in Int /\ Quote(t) > 0
    BY LedgerConstants
  <1>2. Commission(t, TRUE) = t.price
    BY Zenon DEF Commission
  <1>3. Earned(t) = Quote(t) - t.price /\ Paid(t) = Quote(t) + t.price
    BY <1>2, Zenon DEF Earned, Paid
  <1>4. ASSUME NEW c \in BOOLEAN
        PROVE  Commission(t, c) \in Int /\ 0 <= Commission(t, c) /\ Commission(t, c) <= t.price
    <2>1. Commission(t, c) = 0 \/ Commission(t, c) = t.price
      BY LedgerConstants
    <2> QED
      BY <1>1, <2>1
  <1> QED
    BY <1>1, <1>3, <1>4

\* What remains of a side when some of its trades could not be fetched.
KnownSide(S) ==
    \/ \E a \in Trade : S = {a}
    \/ \E a \in Trade, b \in Trade : a # b /\ S = {a, b}

LEMMA KnownOfSide ==
    ASSUME NEW S, NEW exit, SideOf(S, exit), NEW K \in SUBSET S, K # {}
    PROVE  KnownSide(K)
  <1>1. CASE \E a \in Trade : S = {a}
    BY <1>1 DEF KnownSide
  <1>2. CASE \E a \in Trade, b \in Trade : S = {a, b} /\ a.part = 1 /\ b.part = 2
    <2>1. PICK a \in Trade, b \in Trade : S = {a, b} /\ a.part = 1 /\ b.part = 2
      BY <1>2
    <2>2. a # b
      BY <2>1
    <2>3. K = {a} \/ K = {b} \/ K = {a, b}
      BY <2>1
    <2> QED
      BY <2>2, <2>3 DEF KnownSide
  <1> QED
    BY <1>1, <1>2 DEF SideOf

LEMMA SideSize ==
    ASSUME NEW S, NEW exit, SideOf(S, exit)
    PROVE  /\ S = {} <=> Cardinality(S) = 0
           /\ Cardinality(S) = 1 <=> \E a \in Trade : S = {a} /\ a.exit = exit /\ a.part = 1
           /\ Cardinality(S) = 2
              <=> \E a \in Trade, b \in Trade :
                    S = {a, b} /\ a.exit = exit /\ b.exit = exit /\ a.part = 1 /\ b.part = 2
           /\ Cardinality(S) \in {0, 1, 2}
  <1>1. Cardinality({}) = 0
    BY FS_EmptySet
  <1>2. \A a \in Trade : Cardinality({a}) = 1
    BY FS_Singleton
  <1>3. \A a \in Trade, b \in Trade : a.part = 1 /\ b.part = 2 => Cardinality({a, b}) = 2
    <2> TAKE a \in Trade, b \in Trade
    <2>1. a.part = 1 /\ b.part = 2 => a # b
      OBVIOUS
    <2> QED
      BY <2>1, WorthTwo
  <1> QED
    BY <1>1, <1>2, <1>3 DEF SideOf

\* What a known side is worth, in terms of a bound on each of its trades.
LEMMA SideWorth ==
    ASSUME NEW S, KnownSide(S), NEW c \in BOOLEAN, NEW m \in Int
    PROVE  /\ Cardinality(S) \in {1, 2} /\ QuoteOf(S) \in Int /\ CommissionOf(S, c) \in Int
           /\ (\A t \in S : Earned(t) >= m) => QuoteOf(S) - CommissionOf(S, c) >= Cardinality(S) * m
           /\ (\A t \in S : Paid(t) <= m) => QuoteOf(S) + CommissionOf(S, c) <= Cardinality(S) * m
           /\ (\A t \in S : Quote(t) <= m) => QuoteOf(S) - CommissionOf(S, c) <= Cardinality(S) * m
           /\ (\A t \in S : Quote(t) >= m) => QuoteOf(S) + CommissionOf(S, c) >= Cardinality(S) * m
  <1>1. \A t \in Trade : /\ t.price \in Nat /\ Quote(t) \in Int
                         /\ Commission(t, c) \in Int /\ 0 <= Commission(t, c) /\ Commission(t, c) <= t.price
                         /\ Earned(t) = Quote(t) - t.price /\ Paid(t) = Quote(t) + t.price
    BY TradeCosts
  <1>2. CASE \E a \in Trade : S = {a}
    <2>1. PICK a \in Trade : S = {a}
      BY <1>2
    <2>2. QuoteOf(S) = Quote(a) /\ CommissionOf(S, c) = Commission(a, c) /\ Cardinality(S) = 1
      BY <2>1, WorthOne
    <2>3. a \in S
      BY <2>1
    <2> QED
      BY <1>1, <2>2, <2>3
  <1>3. CASE \E a \in Trade, b \in Trade : a # b /\ S = {a, b}
    <2>1. PICK a \in Trade, b \in Trade : a # b /\ S = {a, b}
      BY <1>3
    <2>2. /\ QuoteOf(S) = Quote(a) + Quote(b) /\ Cardinality(S) = 2
          /\ CommissionOf(S, c) = Commission(a, c) + Commission(b, c)
      BY <2>1, WorthTwo
    <2>3. a \in S /\ b \in S
      BY <2>1
    <2> QED
      BY <1>1, <2>2, <2>3
  <1> QED
    BY <1>2, <1>3 DEF KnownSide

\* A price between two sides that do not overlap.
LEMMA LeastEarned ==
    ASSUME NEW S, KnownSide(S)
    PROVE  \E s \in S : \A t \in S : Earned(t) >= Earned(s)
  <1>1. \A t \in Trade : Earned(t) \in Int
    BY TradeCosts
  <1> QED
    BY <1>1 DEF KnownSide

LEMMA LeastQuoted ==
    ASSUME NEW S, KnownSide(S)
    PROVE  \E s \in S : \A t \in S : Quote(t) >= Quote(s)
  <1>1. \A t \in Trade : Quote(t) \in Int
    BY TradePriced DEF Priced
  <1> QED
    BY <1>1 DEF KnownSide

LEMMA Shares ==
    ASSUME NEW k \in {1, 2}, NEW n \in {1, 2}, NEW m \in Nat, NEW gain \in Int, NEW cost \in Int
    PROVE  /\ gain - (cost * Lesser(n, k)) \div k \in Int
           /\ gain >= n * m /\ cost <= k * m => gain - (cost * Lesser(n, k)) \div k >= 0
           /\ k = 2 /\ gain <= n * m /\ cost >= k * m => gain - (cost * Lesser(n, k)) \div k <= 0
  <1>1. CASE k = 1
    <2>1. Lesser(n, k) = 1 /\ cost * 1 = cost
      BY <1>1 DEF Lesser
    <2>2. cost \div 1 = cost
      OBVIOUS
    <2> QED
      BY <1>1, <2>1, <2>2
  <1>2. CASE k = 2 /\ n = 1
    <2>1. Lesser(n, k) = 1 /\ cost * 1 = cost
      BY <1>2 DEF Lesser
    <2> QED
      BY <1>2, <2>1
  <1>3. CASE k = 2 /\ n = 2
    <2>1. Lesser(n, k) = 2
      BY <1>3 DEF Lesser
    <2>2. (cost * 2) \div 2 = cost
      OBVIOUS
    <2> QED
      BY <1>3, <2>1, <2>2
  <1> QED
    BY <1>1, <1>2, <1>3

-----------------------------------------------------------------------------
(* The profit of what is known of an order.                                *)

BothKnown(K) == KnownSide(Entries(K)) /\ KnownSide(Exits(K))

LEMMA TripUnfolds ==
    ASSUME NEW K, BothKnown(K), NEW c \in BOOLEAN
    PROVE  \E gain \in Int, cost \in Int, n \in {1, 2}, k \in {1, 2} :
             /\ gain = QuoteOf(Exits(K)) - CommissionOf(Exits(K), c)
             /\ cost = QuoteOf(Entries(K)) + CommissionOf(Entries(K), c)
             /\ n = Cardinality(Exits(K)) /\ k = Cardinality(Entries(K))
             /\ RoundTrip(K, c) = gain - (cost * Lesser(n, k)) \div k
  <1> DEFINE X == Exits(K)
             E == Entries(K)
             gain == QuoteOf(X) - CommissionOf(X, c)
             cost == QuoteOf(E) + CommissionOf(E, c)
  <1>1. /\ QuoteOf(X) \in Int /\ CommissionOf(X, c) \in Int /\ Cardinality(X) \in {1, 2}
        /\ QuoteOf(E) \in Int /\ CommissionOf(E, c) \in Int /\ Cardinality(E) \in {1, 2}
    BY SideWorth, 0 \in Int DEF BothKnown
  <1>2. X # {} /\ E # {}
    BY DEF BothKnown, KnownSide
  <1>3. RoundTrip(K, c) = gain - (cost * Lesser(Cardinality(X), Cardinality(E))) \div Cardinality(E)
    BY <1>2, Zenon DEF RoundTrip
  <1>4. gain \in Int /\ cost \in Int
    BY <1>1
  <1> QED
    BY <1>1, <1>3, <1>4

LEMMA TripIsInt ==
    ASSUME NEW K, BothKnown(K), NEW c \in BOOLEAN
    PROVE  RoundTrip(K, c) \in Int
  BY TripUnfolds, Shares, 0 \in Nat

LEMMA TripNoLoss ==
    ASSUME NEW K \in SUBSET Trade, BothKnown(K), NEW c \in BOOLEAN,
           \A s \in Exits(K), b \in Entries(K) : Earned(s) >= Paid(b)
    PROVE  RoundTrip(K, c) >= 0
  <1>1. PICK s \in Exits(K) : \A t \in Exits(K) : Earned(t) >= Earned(s)
    BY LeastEarned DEF BothKnown
  <1>2. Entries(K) # {} /\ s \in Trade /\ \A b \in Entries(K) : b \in Trade
    BY DEF BothKnown, KnownSide, Entries, Exits
  <1> DEFINE m == Earned(s)
  <1>3. m \in Nat
    BY <1>2, TradeCosts
  <1>4. \A b \in Entries(K) : Paid(b) <= m
    BY <1>2, TradeCosts
  <1> HIDE DEF m
  <1>5. \A t \in Exits(K) : Earned(t) >= m
    BY <1>1 DEF m
  <1>6. /\ QuoteOf(Exits(K)) - CommissionOf(Exits(K), c) >= Cardinality(Exits(K)) * m
        /\ QuoteOf(Entries(K)) + CommissionOf(Entries(K), c) <= Cardinality(Entries(K)) * m
    BY <1>3, <1>4, <1>5, SideWorth DEF BothKnown
  <1>7. PICK gain \in Int, cost \in Int, n \in {1, 2}, k \in {1, 2} :
             /\ gain = QuoteOf(Exits(K)) - CommissionOf(Exits(K), c)
             /\ cost = QuoteOf(Entries(K)) + CommissionOf(Entries(K), c)
             /\ n = Cardinality(Exits(K)) /\ k = Cardinality(Entries(K))
             /\ RoundTrip(K, c) = gain - (cost * Lesser(n, k)) \div k
    BY TripUnfolds
  <1>8. gain >= n * m /\ cost <= k * m
    BY <1>6, <1>7
  <1>9. gain - (cost * Lesser(n, k)) \div k >= 0
    BY <1>3, <1>6, <1>7, <1>8, Shares
  <1> QED
    BY <1>7, <1>9

LEMMA TripNoProfit ==
    ASSUME NEW K \in SUBSET Trade, BothKnown(K), NEW c \in BOOLEAN, Cardinality(Entries(K)) = 2,
           \A s \in Exits(K), b \in Entries(K) : Quote(s) <= Quote(b)
    PROVE  RoundTrip(K, c) <= 0
  <1>1. PICK b \in Entries(K) : \A t \in Entries(K) : Quote(t) >= Quote(b)
    BY LeastQuoted DEF BothKnown
  <1>2. b \in Trade
    BY DEF Entries
  <1> DEFINE m == Quote(b)
  <1>3. m \in Nat
    BY <1>2, TradeCosts
  <1>4. \A s \in Exits(K) : Quote(s) <= m
    OBVIOUS
  <1> HIDE DEF m
  <1>5. \A t \in Entries(K) : Quote(t) >= m
    BY <1>1 DEF m
  <1>6. /\ QuoteOf(Exits(K)) - CommissionOf(Exits(K), c) <= Cardinality(Exits(K)) * m
        /\ QuoteOf(Entries(K)) + CommissionOf(Entries(K), c) >= Cardinality(Entries(K)) * m
    BY <1>3, <1>4, <1>5, SideWorth DEF BothKnown
  <1>7. PICK gain \in Int, cost \in Int, n \in {1, 2}, k \in {1, 2} :
             /\ gain = QuoteOf(Exits(K)) - CommissionOf(Exits(K), c)
             /\ cost = QuoteOf(Entries(K)) + CommissionOf(Entries(K), c)
             /\ n = Cardinality(Exits(K)) /\ k = Cardinality(Entries(K))
             /\ RoundTrip(K, c) = gain - (cost * Lesser(n, k)) \div k
    BY TripUnfolds
  <1>8. gain <= n * m /\ cost >= k * m
    BY <1>6, <1>7
  <1>9. gain - (cost * Lesser(n, k)) \div k <= 0
    BY <1>3, <1>6, <1>7, <1>8, Shares
  <1> QED
    BY <1>7, <1>9

LEMMA TripOfOneSide ==
    ASSUME NEW K, NEW c, Entries(K) = {} \/ Exits(K) = {}
    PROVE  RoundTrip(K, c) = 0
  BY Zenon DEF RoundTrip

-----------------------------------------------------------------------------
(* The inductive invariant: the entry trades before the exit does, the     *)
(* fills are trades, and the column holds the profit of some fills as soon *)
(* as both sides are known, that of the last fills once the order closes.  *)

BookOf(o) ==
    /\ fills[o] \subseteq traded[o]
    /\ SideOf(Entries(traded[o]), FALSE) /\ SideOf(Exits(traded[o]), TRUE)
    /\ status[o] = "ENTRY_OPEN" => Exits(traded[o]) = {} /\ settled[o] = {}
    /\ status[o] # "ENTRY_OPEN" => Cardinality(Entries(traded[o])) = Lots
    /\ status[o] = "POSITION_OPEN" => settled[o] # Parts
    /\ Entries(fills[o]) = {} \/ Exits(fills[o]) = {} => realized[o] = 0
    /\ status[o] = "CLOSED" => \E c \in BOOLEAN : realized[o] = RoundTrip(fills[o], c)
    /\ LessonIsFinal(o)

LedgerTyped ==
    /\ traded \in [Orders -> SUBSET Trade] /\ fills \in [Orders -> SUBSET Trade]
    /\ settled \in [Orders -> SUBSET Parts]
    /\ status \in [Orders -> {"ENTRY_OPEN", "POSITION_OPEN", "CLOSED"}]
    /\ realized \in [Orders -> Int] /\ lesson \in [Orders -> Int \cup {NoLesson}]

LedgerInv == LedgerTyped /\ \A o \in Orders : BookOf(o)

LEMMA KnownSides ==
    ASSUME NEW K, NEW T, K \subseteq T, SideOf(Entries(T), FALSE), SideOf(Exits(T), TRUE),
           Entries(K) # {}, Exits(K) # {}
    PROVE  BothKnown(K)
  <1>1. Entries(K) \in SUBSET Entries(T) /\ Exits(K) \in SUBSET Exits(T)
    BY DEF Entries, Exits
  <1> QED
    BY <1>1, KnownOfSide DEF BothKnown

(* What the sides of the trades of one order promise.                      *)
LEMMA BookOfOne ==
    ASSUME LedgerInv, NEW o \in Orders
    PROVE  NoPhantomLoss(o) /\ NoPhantomProfit(o)
  <1> DEFINE K == fills[o]
             T == traded[o]
  <1>1. /\ K \in SUBSET Trade /\ K \subseteq T /\ BookOf(o)
        /\ SideOf(Entries(T), FALSE) /\ SideOf(Exits(T), TRUE)
        /\ status[o] # "ENTRY_OPEN" => Cardinality(Entries(T)) = 2
        /\ status[o] = "ENTRY_OPEN" => Exits(T) = {}
    BY LedgerConstants DEF LedgerInv, LedgerTyped, BookOf
  <1>2. \E c \in BOOLEAN : Booked(o) = RoundTrip(K, c)
    <2>1. CASE status[o] = "CLOSED"
      BY <1>1, <2>1, Zenon DEF BookOf, Booked
    <2>2. CASE status[o] # "CLOSED"
      <3>1. Booked(o) = RoundTrip(K, FALSE)
        BY <2>2, Zenon DEF Booked
      <3> QED
        BY <3>1, Zenon
    <2> QED
      BY <2>1, <2>2
  <1>3. PICK c \in BOOLEAN : Booked(o) = RoundTrip(K, c)
    BY <1>2
  <1>4. Entries(K) \subseteq Entries(T) /\ Exits(K) \subseteq Exits(T)
    BY <1>1 DEF Entries, Exits
  <1> HIDE DEF K, T
  <1>5. CASE Entries(K) = {} \/ Exits(K) = {}
    <2>1. Booked(o) = 0
      BY <1>3, <1>5, TripOfOneSide
    <2> QED
      BY <2>1 DEF NoPhantomLoss, NoPhantomProfit
  <1>6. CASE Entries(K) # {} /\ Exits(K) # {}
    <2>1. BothKnown(K)
      BY <1>1, <1>6, KnownSides
    <2>2. ASSUME \A s \in Exits(T), b \in Entries(T) : Earned(s) >= Paid(b)
          PROVE  Booked(o) >= 0
      <3>1. \A s \in Exits(K), b \in Entries(K) : Earned(s) >= Paid(b)
        BY <1>4, <2>2
      <3> QED
        BY <1>1, <1>3, <2>1, <3>1, TripNoLoss
    <2>3. ASSUME Entries(T) \subseteq K,
                 \A s \in Exits(T), b \in Entries(T) : Quote(s) <= Quote(b)
          PROVE  Booked(o) <= 0
      <3>1. \A s \in Exits(K), b \in Entries(K) : Quote(s) <= Quote(b)
        BY <1>4, <2>3
      <3>2. Entries(K) = Entries(T)
        BY <1>4, <2>3 DEF Entries
      <3>3. Cardinality(Entries(K)) = 2
        BY <1>1, <1>4, <1>6, <3>2
      <3> QED
        BY <1>1, <1>3, <2>1, <3>1, <3>3, TripNoProfit
    <2> QED
      BY <2>2, <2>3, Zenon DEF NoPhantomLoss, NoPhantomProfit, T, K
  <1> QED
    BY <1>5, <1>6

LEMMA LedgerInvInit == LedgerInit => LedgerInv
  <1> SUFFICES ASSUME LedgerInit PROVE LedgerInv
    OBVIOUS
  <1>1. LedgerTyped
    BY DEF LedgerInit, LedgerTyped
  <1>2. ASSUME NEW o \in Orders PROVE BookOf(o)
    <2>1. /\ traded[o] = {} /\ fills[o] = {} /\ settled[o] = {} /\ status[o] = "ENTRY_OPEN"
          /\ realized[o] = 0 /\ lesson[o] = NoLesson
      BY <1>2 DEF LedgerInit
    <2>2. Entries({}) = {} /\ Exits({}) = {}
      BY DEF Entries, Exits
    <2> QED
      BY <2>1, <2>2 DEF BookOf, SideOf, LessonIsFinal
  <1> QED
    BY <1>1, <1>2 DEF LedgerInv

LEMMA SideGrows ==
    ASSUME NEW S, NEW exit, SideOf(S, exit), Cardinality(S) < Lots,
           NEW t \in Trade, t.exit = exit, t.part = Cardinality(S) + 1
    PROVE  SideOf(S \cup {t}, exit)
  <1>1. CASE S = {}
    <2>1. S \cup {t} = {t} /\ t.part = 1
      BY <1>1, SideSize
    <2> QED
      BY <2>1 DEF SideOf
  <1>2. CASE S # {}
    <2>1. Cardinality(S) = 1
      BY <1>2, SideSize, LedgerConstants
    <2>2. PICK a \in Trade : S = {a} /\ a.exit = exit /\ a.part = 1
      BY <2>1, SideSize
    <2>3. S \cup {t} = {a, t} /\ t.part = 2
      BY <2>1, <2>2
    <2> QED
      BY <2>2, <2>3 DEF SideOf
  <1> QED
    BY <1>1, <1>2

\* Another order, or no order at all, is touched.
LEMMA OthersKept ==
    ASSUME NEW o \in Orders, BookOf(o),
           traded'[o] = traded[o], fills'[o] = fills[o], settled'[o] = settled[o],
           status'[o] = status[o], realized'[o] = realized[o], lesson'[o] = lesson[o]
    PROVE  BookOf(o)'
  <1>1. LessonIsFinal(o) => LessonIsFinal(o)'
    BY DEF LessonIsFinal
  <1> QED
    BY <1>1 DEF BookOf

LEMMA TradesKept ==
    ASSUME LedgerInv, NEW o \in Orders, EntryTrades(o) \/ ExitTrades(o)
    PROVE  LedgerInv'
  <1> DEFINE T == traded[o]
  <1>1. /\ traded \in [Orders -> SUBSET Trade] /\ BookOf(o) /\ T \in SUBSET Trade
        /\ \A p \in Orders : BookOf(p)
    BY DEF LedgerInv, LedgerTyped
  <1>2. PICK exit \in BOOLEAN, prices \in {EntryPrices, ExitPrices} :
          /\ SideTrades(o, exit, prices)
          /\ status[o] = IF exit THEN "POSITION_OPEN" ELSE "ENTRY_OPEN"
    BY DEF EntryTrades, ExitTrades
  <1>3. UNCHANGED <<fills, settled, status, realized, lesson>>
    BY DEF EntryTrades, ExitTrades
  <1> DEFINE side == {t \in T : t.exit = exit}
  <1>4. PICK price \in prices, asset \in FeeAssets :
          /\ Cardinality(side) < Lots
          /\ traded' = [traded EXCEPT ![o] = @ \cup {[exit |-> exit, part |-> Cardinality(side) + 1,
                                                      price |-> price, asset |-> asset]}]
    BY <1>2 DEF SideTrades
  <1> DEFINE t == [exit |-> exit, part |-> Cardinality(side) + 1, price |-> price, asset |-> asset]
  <1>5. \A x \in T : x.exit \in BOOLEAN
    BY <1>1 DEF Trade
  <1>6. side = IF exit THEN Exits(T) ELSE Entries(T)
    BY <1>5 DEF Exits, Entries
  <1>7. SideOf(side, exit)
    BY <1>1, <1>6 DEF BookOf
  <1>8. Cardinality(side) + 1 \in Parts /\ t \in Trade
    <2>1. Cardinality(side) \in {0, 1, 2} /\ Cardinality(side) < 2
      BY <1>4, <1>7, SideSize, LedgerConstants
    <2>2. Cardinality(side) + 1 \in Parts
      BY <2>1 DEF Parts
    <2>3. price \in EntryPrices \cup ExitPrices
      BY <1>2
    <2> QED
      BY <2>2, <2>3 DEF Trade
  <1>9. /\ t.exit = exit /\ t.part = Cardinality(side) + 1
        /\ traded' = [traded EXCEPT ![o] = T \cup {t}]
    BY <1>1, <1>4
  <1> HIDE DEF t, side
  <1>10. SideOf(side \cup {t}, exit)
    BY <1>4, <1>7, <1>8, <1>9, SideGrows
  <1>11. /\ traded'[o] = T \cup {t} /\ \A p \in Orders : p # o => traded'[p] = traded[p]
         /\ traded' \in [Orders -> SUBSET Trade]
    BY <1>1, <1>8, <1>9
  <1>12. /\ exit => Exits(traded'[o]) = side \cup {t} /\ Entries(traded'[o]) = Entries(T)
         /\ ~exit => Entries(traded'[o]) = side \cup {t} /\ Exits(traded'[o]) = Exits(T)
    BY <1>6, <1>9, <1>11 DEF Exits, Entries
  <1>13. BookOf(o)'
    <2>1. /\ SideOf(Entries(T), FALSE) /\ SideOf(Exits(T), TRUE) /\ fills[o] \subseteq T
      BY <1>1 DEF BookOf
    <2>2. SideOf(Entries(traded'[o]), FALSE) /\ SideOf(Exits(traded'[o]), TRUE)
      <3>1. CASE exit
        BY <1>10, <1>12, <2>1, <3>1
      <3>2. CASE ~exit
        BY <1>10, <1>12, <2>1, <3>2
      <3> QED
        BY <3>1, <3>2
    <2>3. /\ status[o] = "ENTRY_OPEN" => Exits(traded'[o]) = {} /\ settled[o] = {}
          /\ status[o] # "ENTRY_OPEN" => Cardinality(Entries(traded'[o])) = Lots
      BY <1>1, <1>2, <1>12 DEF BookOf
    <2>4. LessonIsFinal(o)'
      BY <1>1, <1>3 DEF BookOf, LessonIsFinal
    <2>5. fills[o] \subseteq traded'[o]
      BY <1>11, <2>1
    <2>6. status[o] # "CLOSED"
      BY <1>2
    <2> QED
      BY <1>1, <1>3, <2>2, <2>3, <2>4, <2>5, <2>6 DEF BookOf
  <1>14. ASSUME NEW p \in Orders PROVE BookOf(p)'
    BY <1>1, <1>3, <1>11, <1>13, OthersKept
  <1> QED
    BY <1>3, <1>11, <1>14 DEF LedgerInv, LedgerTyped

\* What a pass does, for one choice of what could be fetched.
Synced(o, entry, exits, converts) ==
    LET fetched == {t \in traded[o] : IF t.exit THEN t.part \in exits ELSE entry}
        known == fills[o] \cup fetched
        done == {t.part : t \in Exits(traded[o])}
        now == Advanced(o, done)
        profit == IF done = settled[o] \/ Entries(known) = {} \/ Exits(known) = {}
                    THEN realized[o] ELSE RoundTrip(known, converts)
    IN  /\ exits \subseteq done
        /\ fills' = [fills EXCEPT ![o] = known]
        /\ settled' = [settled EXCEPT ![o] = done]
        /\ status' = [status EXCEPT ![o] = now]
        /\ realized' = [realized EXCEPT ![o] = profit]
        /\ lesson' = IF Learns(o, now, known)
                     THEN [lesson EXCEPT ![o] = profit] ELSE lesson

LEMMA SyncKept ==
    ASSUME LedgerInv, NEW o \in Orders, SyncLedger(o)
    PROVE  LedgerInv'
  <1> DEFINE T == traded[o]
             done == {t.part : t \in Exits(T)}
             now == Advanced(o, done)
  <1>1. PICK entry \in BOOLEAN, exits \in SUBSET (Parts \ settled[o]), converts \in BOOLEAN :
          Synced(o, entry, exits, converts)
    BY Zenon DEF SyncLedger, Synced
  <1> DEFINE fetched == {t \in T : IF t.exit THEN t.part \in exits ELSE entry}
             known == fills[o] \cup fetched
             profit == IF done = settled[o] \/ Entries(known) = {} \/ Exits(known) = {}
                         THEN realized[o] ELSE RoundTrip(known, converts)
             learns == Learns(o, now, known)
  <1>2. /\ fills' = [fills EXCEPT ![o] = known] /\ settled' = [settled EXCEPT ![o] = done]
        /\ status' = [status EXCEPT ![o] = now] /\ realized' = [realized EXCEPT ![o] = profit]
        /\ lesson' = IF learns THEN [lesson EXCEPT ![o] = profit] ELSE lesson
    BY <1>1, Zenon DEF Synced
  <1>3. traded' = traded /\ status[o] \in {"ENTRY_OPEN", "POSITION_OPEN"}
    BY DEF SyncLedger
  <1>4. /\ BookOf(o) /\ fills[o] \subseteq T /\ T \in SUBSET Trade
        /\ SideOf(Entries(T), FALSE) /\ SideOf(Exits(T), TRUE)
        /\ \A p \in Orders : BookOf(p)
    BY DEF LedgerInv, LedgerTyped, BookOf
  <1>5. known \subseteq T /\ fills[o] \subseteq known
    BY <1>4
  <1>6. done \in SUBSET Parts
    BY <1>4 DEF Trade, Exits
  <1>7. learns => now = "CLOSED" /\ lesson[o] = NoLesson
    BY DEF Learns
  <1>8. /\ now \in {"ENTRY_OPEN", "POSITION_OPEN", "CLOSED"}
        /\ status[o] = "ENTRY_OPEN" => now \in {"ENTRY_OPEN", "POSITION_OPEN"}
        /\ status[o] = "POSITION_OPEN" => now \in {"POSITION_OPEN", "CLOSED"}
        /\ now = "CLOSED" => status[o] = "POSITION_OPEN" /\ done = Parts
        /\ now = "POSITION_OPEN" /\ status[o] = "POSITION_OPEN" => done # Parts
        /\ now = "POSITION_OPEN" /\ status[o] = "ENTRY_OPEN" => Cardinality(Entries(T)) = Lots
    BY <1>3 DEF Advanced
  <1> HIDE DEF fetched, known, now, learns
  <1>9. Entries(known) # {} /\ Exits(known) # {} => RoundTrip(known, converts) \in Int
    BY <1>4, <1>5, KnownSides, TripIsInt
  <1>10. /\ profit \in Int
         /\ Entries(known) = {} \/ Exits(known) = {} => profit = 0
         /\ now = "CLOSED" => profit = RoundTrip(known, converts)
    <2>1. realized[o] \in Int
      BY DEF LedgerInv, LedgerTyped
    <2>2. Entries(known) = {} \/ Exits(known) = {} => realized[o] = 0
      <3>1. Entries(fills[o]) \subseteq Entries(known) /\ Exits(fills[o]) \subseteq Exits(known)
        BY <1>5 DEF Entries, Exits
      <3>2. Entries(known) = {} \/ Exits(known) = {} => Entries(fills[o]) = {} \/ Exits(fills[o]) = {}
        BY <3>1
      <3> QED
        BY <1>4, <3>2 DEF BookOf
    <2>3. now = "CLOSED" => done # settled[o]
      BY <1>4, <1>8 DEF BookOf
    <2>4. Entries(known) = {} \/ Exits(known) = {} => RoundTrip(known, converts) = 0
      BY TripOfOneSide
    <2> HIDE DEF done
    <2> QED
      BY <1>9, <2>1, <2>2, <2>3, <2>4
  <1> HIDE DEF done, profit
  <1>11. LedgerTyped'
    <2>1. traded' \in [Orders -> SUBSET Trade] /\ fills' \in [Orders -> SUBSET Trade]
      BY <1>2, <1>3, <1>4, <1>5 DEF LedgerInv, LedgerTyped
    <2>2. settled' \in [Orders -> SUBSET Parts] /\ realized' \in [Orders -> Int]
      BY <1>2, <1>6, <1>10 DEF LedgerInv, LedgerTyped
    <2>3. status' \in [Orders -> {"ENTRY_OPEN", "POSITION_OPEN", "CLOSED"}]
      BY <1>2, <1>8 DEF LedgerInv, LedgerTyped
    <2>4. lesson' \in [Orders -> Int \cup {NoLesson}]
      <3>1. lesson \in [Orders -> Int \cup {NoLesson}] /\ profit \in Int \cup {NoLesson}
        BY <1>10 DEF LedgerInv, LedgerTyped
      <3> QED
        BY <1>2, <3>1
    <2> QED
      BY <2>1, <2>2, <2>3, <2>4 DEF LedgerTyped
  <1>12. /\ fills'[o] = known /\ settled'[o] = done /\ status'[o] = now /\ realized'[o] = profit
         /\ lesson'[o] = IF learns THEN profit ELSE lesson[o]
    BY <1>2 DEF LedgerInv, LedgerTyped
  <1>13. ASSUME NEW p \in Orders, p # o
         PROVE  /\ traded'[p] = traded[p] /\ fills'[p] = fills[p] /\ settled'[p] = settled[p]
                /\ status'[p] = status[p] /\ realized'[p] = realized[p] /\ lesson'[p] = lesson[p]
    BY <1>2, <1>3, <1>13 DEF LedgerInv, LedgerTyped
  <1>14. BookOf(o)'
    <2>1. SideOf(Entries(traded'[o]), FALSE) /\ SideOf(Exits(traded'[o]), TRUE) /\ traded'[o] = T
      BY <1>3, <1>4
    <2>2. LessonIsFinal(o)'
      <3>1. lesson[o] = NoLesson
        BY <1>3, <1>4 DEF BookOf, LessonIsFinal
      <3> QED
        BY <1>7, <1>12, <3>1 DEF LessonIsFinal
    <2>3. status'[o] = "ENTRY_OPEN" => Exits(T) = {} /\ done = {}
      <3>1. status'[o] = "ENTRY_OPEN" => Exits(T) = {}
        BY <1>3, <1>4, <1>8, <1>12 DEF BookOf
      <3> QED
        BY <3>1 DEF done
    <2>4. status'[o] # "ENTRY_OPEN" => Cardinality(Entries(T)) = Lots
      BY <1>3, <1>4, <1>8, <1>12 DEF BookOf
    <2>5. status'[o] = "POSITION_OPEN" => done # Parts
      <3>1. status[o] = "ENTRY_OPEN" => done = {}
        BY <1>4 DEF BookOf, done
      <3>2. Parts # {}
        BY DEF Parts
      <3> QED
        BY <1>3, <1>8, <1>12, <3>1, <3>2
    <2>6. status'[o] = "CLOSED" => \E c \in BOOLEAN : realized'[o] = RoundTrip(known, c)
      BY <1>10, <1>12, Zenon
    <2>7. fills'[o] \subseteq traded'[o]
      BY <1>5, <1>12, <2>1
    <2>8. Entries(fills'[o]) = {} \/ Exits(fills'[o]) = {} => realized'[o] = 0
      BY <1>10, <1>12
    <2>9. (\E c \in BOOLEAN : realized[o] = RoundTrip(fills[o], c))'
          <=> \E c \in BOOLEAN : realized'[o] = RoundTrip(known, c)
      BY <1>12, Zenon
    <2> QED
      BY <1>12, <2>1, <2>2, <2>3, <2>4, <2>5, <2>6, <2>7, <2>8, <2>9 DEF BookOf
  <1>15. ASSUME NEW p \in Orders PROVE BookOf(p)'
    BY <1>4, <1>13, <1>14, OthersKept
  <1> QED
    BY <1>11, <1>15 DEF LedgerInv

LEMMA LedgerInvHolds == LedgerSpec => []LedgerInv
  <1>1. LedgerInit => LedgerInv
    BY LedgerInvInit
  <1>2. LedgerInv /\ [LedgerNext]_ledgerVars => LedgerInv'
    <2> SUFFICES ASSUME LedgerInv, [LedgerNext]_ledgerVars PROVE LedgerInv'
      OBVIOUS
    <2>1. CASE LedgerNext
      BY <2>1, TradesKept, SyncKept DEF LedgerNext
    <2>2. CASE UNCHANGED ledgerVars
      <3>1. ASSUME NEW o \in Orders PROVE BookOf(o)'
        BY <2>2, OthersKept DEF LedgerInv, ledgerVars
      <3> QED
        BY <2>2, <3>1 DEF LedgerInv, LedgerTyped, ledgerVars
    <2> QED
      BY <2>1, <2>2
  <1> QED
    BY <1>1, <1>2, PTL DEF LedgerSpec

(***************************************************************************)
(* For all prices, every choice of assets for the commissions (of one      *)
(* percent), sides that fill in one or two parts, and whatever fetches     *)
(* fail: a trade whose exits earned more than its entry cost is never      *)
(* booked as a loss (round_trip_pnl matches the share of the cost that was *)
(* sold).  One sold below cost is never booked as a profit provided that   *)
(* the trades of its entry have been fetched; without them the code does   *)
(* book one.  The lesson of a closed trade records what its row holds.     *)
(***************************************************************************)
THEOREM BookHolds == LedgerSpec => []BookSound
  <1>1. LedgerInv => BookSound
    <2> SUFFICES ASSUME LedgerInv, NEW o \in Orders
                 PROVE  NoPhantomLoss(o) /\ NoPhantomProfit(o) /\ LessonIsFinal(o)
      BY DEF BookSound
    <2>1. LessonIsFinal(o)
      BY DEF LedgerInv, BookOf
    <2> QED
      BY <2>1, BookOfOne
  <1> QED
    BY <1>1, LedgerInvHolds, PTL

-----------------------------------------------------------------------------
(* Part 2.  The evidence.                                                  *)

FeedNames == {"token-info", "rest", "rss", "social-hype", "web-news", "gdelt",
              "derivatives", "smart-money", "tvl"}

Payloads == [age : Nat, useful : BOOLEAN]

FeedsTyped ==
    /\ cache \in [Cached -> Payloads \cup {NoPayload}]
    /\ evidence \in [Agents -> [source : FeedNames \cup {"none", "placeholder", "simulated"}, age : Nat]]

FeedsInv == FeedsTyped /\ EvidenceGrounded

LEMMA TtlPositive == \A s : Ttl(s) \in Nat /\ Ttl(s) > 0
  BY FeedsAssumption DEF FeedsAssumption, Ttl

\* The sources of an agent, each asked once and by that agent only.
LEMMA Chains ==
    /\ \A a \in Agents : /\ Chain(a) \in Seq(FeedNames) /\ Len(Chain(a)) \in 1..4
                         /\ DOMAIN Chain(a) = 1..Len(Chain(a))
                         /\ \A m, n \in 1..Len(Chain(a)) : Chain(a)[m] = Chain(a)[n] => m = n
    /\ \A a, b \in Agents : \A m \in DOMAIN Chain(a), n \in DOMAIN Chain(b) :
          Chain(a)[m] = Chain(b)[n] => a = b
  <1>1. /\ Chain("market") = <<"token-info", "rest">>
        /\ Chain("news") = <<"rss", "social-hype", "web-news", "gdelt">>
        /\ Chain("onchain") = <<"derivatives", "smart-money", "tvl">>
    BY DEF Chain
  <1>2. /\ DOMAIN Chain("market") = 1..2 /\ DOMAIN Chain("news") = 1..4 /\ DOMAIN Chain("onchain") = 1..3
        /\ Len(Chain("market")) = 2 /\ Len(Chain("news")) = 4 /\ Len(Chain("onchain")) = 3
    BY <1>1
  <1>3. /\ \A m \in 1..2 : Chain("market")[m] \in {"token-info", "rest"}
        /\ \A m \in 1..4 : Chain("news")[m] \in {"rss", "social-hype", "web-news", "gdelt"}
        /\ \A m \in 1..3 : Chain("onchain")[m] \in {"derivatives", "smart-money", "tvl"}
    BY <1>1
  <1>4. ASSUME NEW a \in Agents
        PROVE  /\ Chain(a) \in Seq(FeedNames) /\ Len(Chain(a)) \in 1..4
               /\ DOMAIN Chain(a) = 1..Len(Chain(a))
               /\ \A m, n \in 1..Len(Chain(a)) : Chain(a)[m] = Chain(a)[n] => m = n
    <2>1. CASE a = "market"
      <3>1. Chain("market") \in Seq(FeedNames)
        <4>1. \A m \in 1..2 : Chain("market")[m] \in FeedNames
          BY <1>3 DEF FeedNames
        <4>2. Chain("market") = [m \in 1..2 |-> Chain("market")[m]]
          BY <1>1
        <4>3. Chain("market") \in [1..2 -> FeedNames] /\ 2 \in Nat
          BY <4>1, <4>2
        <4> QED
          BY <4>3, SeqDef, Zenon
      <3>2. \A m, n \in 1..2 : Chain("market")[m] = Chain("market")[n] => m = n
        BY <1>1
      <3> QED
        BY <1>2, <2>1, <3>1, <3>2
    <2>2. CASE a = "news"
      <3>1. Chain("news") \in Seq(FeedNames)
        <4>1. \A m \in 1..4 : Chain("news")[m] \in FeedNames
          BY <1>3 DEF FeedNames
        <4>2. Chain("news") = [m \in 1..4 |-> Chain("news")[m]]
          BY <1>1
        <4>3. Chain("news") \in [1..4 -> FeedNames] /\ 4 \in Nat
          BY <4>1, <4>2
        <4> QED
          BY <4>3, SeqDef, Zenon
      <3>2. \A m, n \in 1..4 : Chain("news")[m] = Chain("news")[n] => m = n
        BY <1>1
      <3> QED
        BY <1>2, <2>2, <3>1, <3>2
    <2>3. CASE a = "onchain"
      <3>1. Chain("onchain") \in Seq(FeedNames)
        <4>1. \A m \in 1..3 : Chain("onchain")[m] \in FeedNames
          BY <1>3 DEF FeedNames
        <4>2. Chain("onchain") = [m \in 1..3 |-> Chain("onchain")[m]]
          BY <1>1
        <4>3. Chain("onchain") \in [1..3 -> FeedNames] /\ 3 \in Nat
          BY <4>1, <4>2
        <4> QED
          BY <4>3, SeqDef, Zenon
      <3>2. \A m, n \in 1..3 : Chain("onchain")[m] = Chain("onchain")[n] => m = n
        BY <1>1
      <3> QED
        BY <1>2, <2>3, <3>1, <3>2
    <2> QED
      BY <2>1, <2>2, <2>3 DEF Agents
  <1>5. ASSUME NEW a \in Agents, NEW b \in Agents, a # b,
               NEW m \in DOMAIN Chain(a), NEW n \in DOMAIN Chain(b)
        PROVE  Chain(a)[m] # Chain(b)[n]
    <2>1. CASE a = "market"
      BY <1>2, <1>3, <1>5, <2>1 DEF Agents
    <2>2. CASE a = "news"
      BY <1>2, <1>3, <1>5, <2>2 DEF Agents
    <2>3. CASE a = "onchain"
      BY <1>2, <1>3, <1>5, <2>3 DEF Agents
    <2> QED
      BY <2>1, <2>2, <2>3 DEF Agents
  <1> QED
    BY <1>4, <1>5

LEMMA FirstOfFew ==
    ASSUME NEW I, I \subseteq 1..4, I # {}
    PROVE  Min(I) \in I /\ \A j \in I : Min(I) <= j
  <1>1. \E x \in I : \A y \in I : x <= y
    <2>1. \A y \in I : y = 1 \/ y = 2 \/ y = 3 \/ y = 4
      OBVIOUS
    <2>2. CASE 1 \in I
      BY <2>1, <2>2
    <2>3. CASE 1 \notin I /\ 2 \in I
      BY <2>1, <2>3
    <2>4. CASE 1 \notin I /\ 2 \notin I /\ 3 \in I
      BY <2>1, <2>4
    <2>5. CASE 1 \notin I /\ 2 \notin I /\ 3 \notin I
      <3>1. \A y \in I : y = 4
        BY <2>1, <2>5
      <3>2. 4 \in I
        BY <3>1
      <3> QED
        BY <3>1, <3>2
    <2> QED
      BY <2>2, <2>3, <2>4, <2>5
  <1> QED
    BY <1>1 DEF Min

\* Who speaks for an agent: the first source that can, or none.
LEMMA FirstSpeaker ==
    ASSUME NEW a \in Agents, NEW outcome
    PROVE  LET i == FirstToSpeak(a, outcome)
           IN  /\ i \in 0..Len(Chain(a))
               /\ i # 0 => Speaks(Chain(a)[i], outcome)
               /\ \A n \in 1..Len(Chain(a)) : i = 0 \/ n < i => ~Speaks(Chain(a)[n], outcome)
  <1> DEFINE I == {n \in 1..Len(Chain(a)) : Speaks(Chain(a)[n], outcome)}
  <1>1. FirstToSpeak(a, outcome) = IF I # {} THEN Min(I) ELSE 0
    BY Zenon DEF FirstToSpeak, SelectInSeq
  <1>2. I \subseteq 1..Len(Chain(a)) /\ Len(Chain(a)) \in 1..4
    BY Chains
  <1>3. I \subseteq 1..4
    BY <1>2
  <1> HIDE DEF I
  <1>4. I # {} => Min(I) \in I /\ \A j \in I : Min(I) <= j
    BY <1>3, FirstOfFew
  <1>5. \A n \in I : n \in 1..Len(Chain(a)) /\ Speaks(Chain(a)[n], outcome)
    BY DEF I
  <1>6. \A n \in 1..Len(Chain(a)) : Speaks(Chain(a)[n], outcome) => n \in I
    BY DEF I
  <1> DEFINE i == FirstToSpeak(a, outcome)
  <1> HIDE DEF i
  <1>7. i = IF I # {} THEN Min(I) ELSE 0
    BY <1>1 DEF i
  <1>8. i \in 0..Len(Chain(a)) /\ (i # 0 => i \in I)
    <2>1. CASE I = {}
      BY <1>2, <1>7, <2>1
    <2>2. CASE I # {}
      <3>1. i \in I
        BY <1>4, <1>7, <2>2
      <3> QED
        BY <1>2, <1>5, <3>1
    <2> QED
      BY <2>1, <2>2
  <1>9. ASSUME NEW n \in 1..Len(Chain(a)), i = 0 \/ n < i PROVE ~Speaks(Chain(a)[n], outcome)
    <2>1. n \in Int /\ i \in Int
      BY <1>2, <1>8
    <2>2. SUFFICES ASSUME n \in I PROVE FALSE
      BY <1>6
    <2>3. i \in I /\ i <= n /\ i # 0
      BY <1>4, <1>5, <1>7, <2>2
    <2> QED
      BY <1>9, <2>1, <2>3
  <1> QED
    BY <1>5, <1>8, <1>9 DEF i

\* Of the sources before the one that spoke, none could.
LEMMA BeforeIsEarlier ==
    ASSUME NEW a \in Agents, NEW source, NEW s \in Before(a, source)
    PROVE  \E n \in 1..Len(Chain(a)) : s = Chain(a)[n] /\ \A m \in 1..n : Chain(a)[m] # source
  BY Chains DEF Before

\* The sources that are asked: up to the one that speaks, else all.
LEMMA Asked ==
    ASSUME NEW a \in Agents, NEW outcome
    PROVE  LET i == FirstToSpeak(a, outcome)
               k == IF i = 0 THEN Len(Chain(a)) ELSE i
           IN  \A s : s \in AskedBy(a, outcome)
                      <=> Allowed(s) /\ \E n \in 1..k : s = Chain(a)[n]
  <1> DEFINE i == FirstToSpeak(a, outcome)
             k == IF i = 0 THEN Len(Chain(a)) ELSE i
             chain == Chain(a)
             asked == SubSeq(chain, 1, k)
  <1>1. AskedBy(a, outcome) = {s \in ToSet(asked) : Allowed(s)}
    BY Zenon DEF AskedBy
  <1>2. i \in 0..Len(chain) /\ chain \in Seq(FeedNames) /\ Len(chain) \in 1..4
    BY Chains, FirstSpeaker
  <1> HIDE DEF i, chain
  <1>3. k \in 1..Len(chain)
    <2>1. k = IF i = 0 THEN Len(chain) ELSE i
      BY DEF chain, i
    <2> HIDE DEF k
    <2> QED
      BY <1>2, <2>1
  <1> HIDE DEF k
  <1>4. DOMAIN asked = 1..k /\ \A n \in 1..k : asked[n] = chain[n]
    <2>1. asked = [n \in 1..k |-> chain[n]]
      BY <1>2, <1>3
    <2> QED
      BY <2>1
  <1> HIDE DEF asked
  <1>5. \A s : s \in ToSet(asked) <=> \E n \in 1..k : s = chain[n]
    BY <1>4 DEF ToSet
  <1> QED
    BY <1>1, <1>5 DEF i, k, chain

\* A source that was asked and had nothing to say cannot be used after it either.
LEMMA SilentStays ==
    ASSUME FeedsTyped, NEW a \in Agents, NEW outcome, NEW s, ~Speaks(s, outcome),
           s \in AskedBy(a, outcome) <=> Allowed(s),
           cache' = [t \in Cached |->
                       IF t \in AskedBy(a, outcome) /\ Answer(t, outcome) # NoPayload
                         THEN Answer(t, outcome) ELSE cache[t]],
           UNCHANGED <<online, registry>>
    PROVE  ~Usable(s)'
  <1>1. Allowed(s)' <=> Allowed(s)
    BY DEF Allowed
  <1>2. CASE ~Allowed(s) \/ s \notin Cached
    BY <1>1, <1>2 DEF Usable, Fresh
  <1>3. CASE Allowed(s) /\ s \in Cached /\ Answer(s, outcome) = NoPayload
    <2>1. cache'[s] = cache[s]
      BY <1>3
    <2>2. ~Fresh(s)
      BY <1>3 DEF Answer, Fresh
    <2> QED
      BY <2>1, <2>2 DEF Usable, Fresh
  <1>4. CASE Allowed(s) /\ s \in Cached /\ Answer(s, outcome) # NoPayload
    <2>1. cache'[s] = Answer(s, outcome)
      BY <1>4
    <2>2. ~Answer(s, outcome).useful
      BY <1>4 DEF Speaks
    <2> QED
      BY <2>1, <2>2 DEF Usable
  <1> QED
    BY <1>2, <1>3, <1>4

LEMMA AnalyzeKept ==
    ASSUME FeedsInv, NEW b \in Agents, Analyze(b)
    PROVE  FeedsInv'
  <1>1. PICK outcome \in [ToSet(Chain(b)) -> Outcomes] :
          /\ evidence' = [evidence EXCEPT ![b] = RecordOf(b, outcome)]
          /\ cache' = [s \in Cached |->
                         IF s \in AskedBy(b, outcome) /\ Answer(s, outcome) # NoPayload
                           THEN Answer(s, outcome) ELSE cache[s]]
    BY DEF Analyze
  <1>2. UNCHANGED <<online, registry>>
    BY DEF Analyze
  <1> DEFINE i == FirstToSpeak(b, outcome)
             chain == Chain(b)
             record == RecordOf(b, outcome)
             asked == AskedBy(b, outcome)
  <1>3. /\ i \in 0..Len(chain) /\ Len(chain) \in 1..4
        /\ i # 0 => Speaks(chain[i], outcome)
        /\ \A n \in 1..Len(chain) : i = 0 \/ n < i => ~Speaks(chain[n], outcome)
    BY FirstSpeaker, Chains
  <1>4. /\ i # 0 => record = [source |-> chain[i], age |-> Answer(chain[i], outcome).age]
        /\ i = 0 => record = [source |-> IF b = "market" THEN "simulated" ELSE "placeholder", age |-> 0]
    BY Zenon DEF RecordOf
  <1>5. \A s : s \in asked <=> Allowed(s) /\ \E n \in 1..(IF i = 0 THEN Len(chain) ELSE i) : s = chain[n]
    BY Asked
  <1>6. \A n \in 1..Len(chain) : chain[n] \in FeedNames
    BY Chains, ElementOfSeq
  <1> HIDE DEF i, chain, asked
  <1>7. i # 0 => /\ Answer(chain[i], outcome).age \in Nat
                 /\ chain[i] \in Cached => Answer(chain[i], outcome).age < Ttl(chain[i])
    <2> SUFFICES ASSUME i # 0 PROVE /\ Answer(chain[i], outcome).age \in Nat
                                    /\ Answer(chain[i], outcome).age < Ttl(chain[i])
      OBVIOUS
    <2>1. Speaks(chain[i], outcome)
      BY <1>3
    <2>2. CASE Fresh(chain[i])
      BY <2>2 DEF Fresh, Answer, FeedsInv, FeedsTyped, Payloads
    <2>3. CASE ~Fresh(chain[i])
      <3>1. Answer(chain[i], outcome) # NoPayload
        BY <2>1 DEF Speaks
      <3>2. Answer(chain[i], outcome) = [age |-> 0, useful |-> outcome[chain[i]] = "useful"]
        BY <2>3, <3>1, Zenon DEF Answer
      <3>3. Answer(chain[i], outcome).age = 0
        BY <3>2
      <3> QED
        BY <3>3, TtlPositive
    <2> QED
      BY <2>2, <2>3
  <1>8. record \in [source : FeedNames \cup {"none", "placeholder", "simulated"}, age : Nat]
    BY <1>3, <1>4, <1>6, <1>7
  <1>9. evidence'[b] = record /\ \A a \in Agents : a # b => evidence'[a] = evidence[a]
    BY <1>1 DEF FeedsInv, FeedsTyped
  <1>10. \A s \in Cached : cache'[s] = IF s \in asked /\ Answer(s, outcome) # NoPayload
                                         THEN Answer(s, outcome) ELSE cache[s]
    BY <1>1 DEF asked
  <1>11. FeedsTyped'
    <2>1. ASSUME NEW s \in Cached PROVE cache'[s] \in Payloads \cup {NoPayload}
      <3>1. cache[s] \in Payloads \cup {NoPayload}
        BY DEF FeedsInv, FeedsTyped
      <3>2. [age |-> 0, useful |-> outcome[s] = "useful"] \in Payloads
        BY DEF Payloads
      <3>3. Answer(s, outcome) \in Payloads \cup {NoPayload}
        BY <3>1, <3>2, Zenon DEF Answer
      <3> QED
        BY <1>10, <3>1, <3>3
    <2>2. cache' \in [Cached -> Payloads \cup {NoPayload}]
      BY <1>1, <2>1 DEF asked
    <2>3. evidence' \in [Agents -> [source : FeedNames \cup {"none", "placeholder", "simulated"}, age : Nat]]
      BY <1>1, <1>8 DEF FeedsInv, FeedsTyped
    <2> QED
      BY <2>2, <2>3 DEF FeedsTyped
  <1>12. ASSUME NEW a \in Agents, NEW source, source = evidence'[a].source
         PROVE  /\ source \in Cached => evidence'[a].age < Ttl(source)
                /\ source # "none" => \A s \in Before(a, source) : ~Usable(s)'
    <2>1. CASE a = b
      <3>1. source \in Cached => evidence'[a].age < Ttl(source)
        <4>1. i = 0 => source \notin Cached
          BY <1>4, <1>9, <1>12, <2>1 DEF Cached
        <4> QED
          BY <1>4, <1>7, <1>9, <1>12, <2>1, <4>1
      <3>2. ASSUME NEW s \in Before(a, source) PROVE ~Usable(s)'
        <4>1. PICK n \in 1..Len(chain) : s = chain[n] /\ \A m \in 1..n : chain[m] # source
          BY <2>1, <3>2, BeforeIsEarlier DEF chain
        <4>2. i = 0 \/ n < i
          <5>1. i # 0 => source = chain[i]
            BY <1>4, <1>9, <1>12, <2>1
          <5> QED
            BY <1>3, <4>1, <5>1
        <4>3. ~Speaks(s, outcome)
          BY <1>3, <4>1, <4>2
        <4>4. s \in asked <=> Allowed(s)
          <5>1. n \in 1..(IF i = 0 THEN Len(chain) ELSE i)
            BY <1>3, <4>1, <4>2
          <5> QED
            BY <1>5, <4>1, <5>1
        <4> QED
          BY <1>1, <1>2, <4>3, <4>4, SilentStays DEF FeedsInv, asked
      <3> QED
        BY <3>1, <3>2
    <2>2. CASE a # b
      <3>1. evidence'[a] = evidence[a]
        BY <1>9, <2>2
      <3>2. ASSUME source # "none", NEW s \in Before(a, source) PROVE ~Usable(s)'
        <4>1. ~Usable(s)
          BY <1>12, <3>1, <3>2, Zenon DEF FeedsInv, EvidenceGrounded
        <4>2. s \notin asked
          <5>1. PICK m \in 1..Len(Chain(a)) : s = Chain(a)[m]
            BY <3>2, BeforeIsEarlier
          <5>2. m \in DOMAIN Chain(a) /\ \A n \in 1..Len(chain) : n \in DOMAIN chain
            BY Chains DEF chain
          <5>3. \A n \in 1..Len(chain) : chain[n] # s
            BY <2>2, <5>1, <5>2, Chains DEF chain
          <5> QED
            BY <1>3, <1>5, <5>3
        <4>3. s \in Cached => cache'[s] = cache[s]
          BY <1>10, <4>2
        <4> QED
          BY <1>2, <4>1, <4>3 DEF Usable, Fresh, Allowed
      <3>3. source \in Cached => evidence'[a].age < Ttl(source)
        BY <1>12, <3>1, Zenon DEF FeedsInv, EvidenceGrounded
      <3> QED
        BY <3>2, <3>3
    <2> QED
      BY <2>1, <2>2
  <1>13. EvidenceGrounded'
    BY <1>12, Zenon DEF EvidenceGrounded
  <1> QED
    BY <1>11, <1>13 DEF FeedsInv

LEMMA TimeKept ==
    ASSUME FeedsInv, TimeGoesBy
    PROVE  FeedsInv'
  <1>1. ASSUME NEW s \in Cached
        PROVE  /\ cache'[s] \in Payloads \cup {NoPayload}
               /\ cache'[s] # NoPayload =>
                    /\ cache[s] # NoPayload /\ cache'[s].useful = cache[s].useful
                    /\ cache[s].age \in Nat /\ cache'[s].age \in {cache[s].age, cache[s].age + 1}
    <2>1. cache[s] \in Payloads \cup {NoPayload}
      BY DEF FeedsInv, FeedsTyped
    <2>2. cache'[s] = IF cache[s] = NoPayload THEN NoPayload
                      ELSE [cache[s] EXCEPT !.age = IF @ < Ttl(s) THEN @ + 1 ELSE @]
      BY DEF TimeGoesBy
    <2>3. CASE cache[s] = NoPayload
      BY <2>2, <2>3
    <2>4. CASE cache[s] # NoPayload
      <3>1. cache[s] \in Payloads
        BY <2>1, <2>4
      <3> QED
        BY <2>2, <2>4, <3>1 DEF Payloads
    <2> QED
      BY <2>3, <2>4
  <1>2. \A s : ~Usable(s) => ~Usable(s)'
    <2> TAKE s
    <2>1. CASE s \in Cached
      BY <1>1, <2>1, TtlPositive DEF Usable, Fresh, Allowed, TimeGoesBy
    <2>2. CASE s \notin Cached
      BY <2>2 DEF Usable, Fresh
    <2> QED
      BY <2>1, <2>2
  <1>3. evidence' = evidence
    BY DEF TimeGoesBy
  <1>4. FeedsTyped'
    BY <1>1, <1>3 DEF FeedsInv, FeedsTyped, TimeGoesBy
  <1>5. EvidenceGrounded'
    <2>1. ASSUME NEW a \in Agents, NEW source, source = evidence[a].source
          PROVE  /\ source \in Cached => evidence[a].age < Ttl(source)
                 /\ source # "none" => \A s \in Before(a, source) : ~Usable(s)'
      <3>1. source # "none" => \A s \in Before(a, source) : ~Usable(s)
        BY <2>1, Zenon DEF FeedsInv, EvidenceGrounded
      <3>2. source \in Cached => evidence[a].age < Ttl(source)
        BY <2>1, Zenon DEF FeedsInv, EvidenceGrounded
      <3> QED
        BY <1>2, <3>1, <3>2
    <2> QED
      BY <1>3, <2>1, Zenon DEF EvidenceGrounded
  <1> QED
    BY <1>4, <1>5 DEF FeedsInv

(***************************************************************************)
(* The evidence of a cycle is grounded, whatever the lifetimes: no record  *)
(* is made of a payload that had expired (_cached_fetch, _run_skill_cached *)
(* drop what a failure leaves too old), and no source, placeholder or      *)
(* simulation stands in for an earlier one that can still be used.         *)
(***************************************************************************)
THEOREM EvidenceHolds == FeedsSpec => []EvidenceGrounded
  <1>1. FeedsInit => FeedsInv
    <2> SUFFICES ASSUME FeedsInit PROVE FeedsInv
      OBVIOUS
    <2>1. \A a \in Agents : evidence[a] = [source |-> "none", age |-> 0]
      BY DEF FeedsInit
    <2>2. "none" \notin Cached
      BY DEF Cached
    <2>3. EvidenceGrounded
      BY <2>1, <2>2 DEF EvidenceGrounded
    <2>4. FeedsTyped
      BY DEF FeedsInit, FeedsTyped
    <2> QED
      BY <2>3, <2>4 DEF FeedsInv
  <1>2. FeedsInv /\ [FeedsNext]_feedVars => FeedsInv'
    <2> SUFFICES ASSUME FeedsInv, [FeedsNext]_feedVars PROVE FeedsInv'
      OBVIOUS
    <2>1. CASE FeedsNext
      BY <2>1, TimeKept, AnalyzeKept DEF FeedsNext
    <2>2. CASE UNCHANGED feedVars
      BY <2>2 DEF FeedsInv, FeedsTyped, EvidenceGrounded, Usable, Fresh, Allowed, feedVars
    <2> QED
      BY <2>1, <2>2
  <1>3. FeedsInv => EvidenceGrounded
    BY DEF FeedsInv
  <1> QED
    BY <1>1, <1>2, <1>3, PTL DEF FeedsSpec

-----------------------------------------------------------------------------
(* Part 3.  One call of the adapter, for every number of attempts, every   *)
(* quantity and price and every set of filters: an order is placed at most *)
(* once, and what is sent passes the filters of the venue.                 *)

(* Quantities: what rounding down to a step gives.                         *)

LEMMA QuotientNat ==
  ASSUME NEW v \in Nat, NEW s \in Nat \ {0} PROVE v \div s \in Nat
  BY SMT

LEMMA QuotientBelow ==
  ASSUME NEW v \in Nat, NEW s \in Nat \ {0} PROVE (v \div s) * s <= v
  BY SMT

LEMMA MultipleDivides ==
  ASSUME NEW k \in Nat, NEW s \in Nat \ {0} PROVE (k * s) % s = 0 /\ k * s \in Nat
  BY SMT

LEMMA ProductBelow ==
  ASSUME NEW a \in Nat, NEW b \in Nat, NEW c \in Nat, NEW d \in Nat, a <= c, b <= d
  PROVE  a * b <= c * d
  BY SMT

LEMMA QuantizedDown ==
  ASSUME NEW v \in Nat, NEW s \in Nat
  PROVE  /\ QuantizeDown(v, s) \in Nat /\ QuantizeDown(v, s) <= v
         /\ s > 0 => QuantizeDown(v, s) % s = 0
<1>1. CASE s = 0
  BY <1>1 DEF QuantizeDown
<1>2. CASE s # 0
  <2>1. QuantizeDown(v, s) = (v \div s) * s
    BY <1>2 DEF QuantizeDown
  <2>2. v \div s \in Nat /\ (v \div s) * s <= v
    BY <1>2, QuotientNat, QuotientBelow
  <2>3. ((v \div s) * s) % s = 0 /\ (v \div s) * s \in Nat
    BY <1>2, <2>2, MultipleDivides
  <2> QED
    BY <2>1, <2>2, <2>3, Zenon
<1> QED
  BY <1>1, <1>2

-----------------------------------------------------------------------------
(***************************************************************************)
(* The invariant.  An order that is still to be sent, or to be sent again, *)
(* has had no effect: a POST goes round again only after an answer that    *)
(* says the venue did not take it.  It is this that keeps a second attempt *)
(* from placing a second order.                                            *)
(***************************************************************************)
CallTyped ==
    /\ call \in [method : Methods, attempt : 0..(MaxAttempts - 1), at : {"idle", "clock", "resync", "send", "done"},
                 result : {"none", "ok"} \cup Failures]
    /\ effects \in Nat

Underway == call.at \in {"clock", "resync", "send"}

NothingYet ==
    /\ call.at = "idle" => call.method = "GET"
    /\ (call.method = "POST" /\ Underway) => effects = 0 /\ call.result = "none"

AdapterInv == CallTyped /\ NothingYet /\ PlacedAtMostOnce /\ SentPassesFilters

LEMMA NoCallTyped ==
    /\ NoCall \in [method : Methods, attempt : 0..(MaxAttempts - 1), at : {"idle", "clock", "resync", "send", "done"},
                   result : {"none", "ok"} \cup Failures]
    /\ NoCall.method = "GET" /\ NoCall.at = "idle" /\ NoCall.result = "none"
  BY AdapterAssumption DEF NoCall, Methods, AdapterAssumption

LEMMA InitAdapter == AdapterInit => AdapterInv
<1> SUFFICES ASSUME AdapterInit PROVE AdapterInv
  OBVIOUS
<1>1. call = NoCall /\ effects = 0
  BY DEF AdapterInit
<1> QED
  BY <1>1, NoCallTyped DEF AdapterInv, CallTyped, NothingYet, Underway, PlacedAtMostOnce, SentPassesFilters

LEMMA PostKeeps == ASSUME AdapterInv, PostOrder PROVE AdapterInv'
<1>1. PICK qty \in Amounts, price \in Amounts, f \in Filters :
        /\ QuantizeDown(qty, f.step) >= f.minQty
        /\ QuantizeDown(price, f.tick) * QuantizeDown(qty, f.step) >= f.minNotional
        /\ order' = [qty |-> qty, price |-> price, filter |-> f,
                     sentQty |-> QuantizeDown(qty, f.step), sentPrice |-> QuantizeDown(price, f.tick)]
  BY DEF PostOrder
<1> DEFINE q == QuantizeDown(qty, f.step)
           p == QuantizeDown(price, f.tick)
<1>2. qty \in Nat /\ price \in Nat /\ f \in [tick : Nat, step : Nat, minQty : Nat, minNotional : Nat]
  BY AdapterAssumption DEF AdapterAssumption
<1>3. /\ q \in Nat /\ q <= qty /\ (f.step > 0 => q % f.step = 0)
      /\ p \in Nat /\ p <= price /\ (f.tick > 0 => p % f.tick = 0)
  BY <1>2, QuantizedDown
<1> HIDE DEF q, p
<1>4. q * p <= qty * price
  BY <1>2, <1>3, ProductBelow
<1>5. q * p >= f.minNotional
  <2>1. p * q >= f.minNotional
    BY <1>1 DEF q, p
  <2>2. p * q = q * p
    BY <1>3
  <2> QED
    BY <2>1, <2>2
<1>6. SentPassesFilters'
  BY <1>1, <1>3, <1>4, <1>5 DEF SentPassesFilters, q, p
<1>7. call' = [NoCall EXCEPT !.method = "POST", !.at = "clock"] /\ effects' = 0
  BY DEF PostOrder
<1>8. /\ CallTyped'
      /\ call'.method = "POST" /\ call'.at = "clock" /\ call'.result = "none"
  BY <1>7, NoCallTyped DEF CallTyped, Methods
<1> QED
  BY <1>6, <1>7, <1>8 DEF AdapterInv, NothingYet, PlacedAtMostOnce

LEMMA QuietKeeps ==
  ASSUME AdapterInv, OtherCall \/ SyncsClock \/ Returns \/ ClockMoves \/ UNCHANGED adapterVars
  PROVE  AdapterInv'
<1>1. CASE OtherCall
  <2>1. PICK method \in {"GET", "DELETE"} : call' = [NoCall EXCEPT !.method = method, !.at = "clock"]
    BY <1>1 DEF OtherCall
  <2>2. effects' = 0
    BY <1>1 DEF OtherCall
  <2>3. CallTyped' /\ call'.method = method /\ call'.at = "clock"
    BY <2>1, <2>2, NoCallTyped DEF CallTyped, Methods
  <2> QED
    BY <2>3 DEF AdapterInv, NothingYet, PlacedAtMostOnce, SentPassesFilters
<1>2. CASE SyncsClock
  <2>1. call.at \in {"clock", "resync"} /\ call' = [call EXCEPT !.at = "send"] /\ UNCHANGED <<effects, order>>
    BY <1>2 DEF SyncsClock, Sync
  <2>2. /\ CallTyped' /\ call'.method = call.method /\ call'.result = call.result
        /\ call'.at = "send"
    BY <2>1 DEF AdapterInv, CallTyped
  <2> QED
    BY <2>1, <2>2 DEF AdapterInv, NothingYet, Underway, PlacedAtMostOnce, SentPassesFilters
<1>3. CASE Returns
  <2>1. call' = NoCall /\ effects' = 0
    BY <1>3 DEF Returns
  <2> QED
    BY <2>1, NoCallTyped DEF AdapterInv, CallTyped, NothingYet, Underway, PlacedAtMostOnce, SentPassesFilters
<1>4. CASE ClockMoves \/ UNCHANGED adapterVars
  <2>1. UNCHANGED <<call, effects, order>>
    BY <1>4 DEF ClockMoves, adapterVars
  <2> QED
    BY <2>1 DEF AdapterInv, CallTyped, NothingYet, Underway, PlacedAtMostOnce, SentPassesFilters
<1> QED
  BY <1>1, <1>2, <1>3, <1>4

(* What a failure makes of the call: a POST is sent again after an answer   *)
(* of the venue that says so, and after no other.                          *)
LEMMA FailedCall ==
  ASSUME CallTyped, call.at = "send", NEW failure \in Failures, Failed(failure)
  PROVE  /\ call' \in [method : Methods, attempt : 0..(MaxAttempts - 1), at : {"resync", "send", "done"},
                       result : {"none", "ok"} \cup Failures]
         /\ call'.method = call.method
         /\ \/ call'.at = "done" /\ call'.result = failure
            \/ /\ call'.at \in {"resync", "send"} /\ call'.result = call.result
               /\ call.method = "POST" => failure \in {"stale", "limited"}
<1>1. CASE call.attempt + 1 = MaxAttempts \/ failure = "garbled" \/ ~Retryable(call.method, failure)
  <2>1. call' = [call EXCEPT !.at = "done", !.result = failure]
    BY <1>1 DEF Failed
  <2> QED
    BY <2>1 DEF CallTyped
<1>2. CASE ~(call.attempt + 1 = MaxAttempts \/ failure = "garbled" \/ ~Retryable(call.method, failure))
  <2>1. call' = [call EXCEPT !.attempt = @ + 1, !.at = IF failure = "stale" THEN "resync" ELSE "send"]
    BY <1>2 DEF Failed
  <2>2. call.attempt + 1 \in 0..(MaxAttempts - 1)
    BY <1>2, AdapterAssumption DEF CallTyped, AdapterAssumption
  <2>3. call.method = "POST" => failure \in {"stale", "limited"}
    BY <1>2 DEF Retryable
  <2>4. CASE failure = "stale"
    BY <2>1, <2>2, <2>3, <2>4 DEF CallTyped
  <2>5. CASE failure # "stale"
    BY <2>1, <2>2, <2>3, <2>5 DEF CallTyped
  <2> QED
    BY <2>4, <2>5
<1> QED
  BY <1>1, <1>2

LEMMA EffectOnce ==
  ASSUME effects \in Nat
  PROVE  Effect \in Nat /\ (call.method = "POST" /\ effects = 0 => Effect = 1)
  BY DEF Effect

LEMMA SendsKeeps == ASSUME AdapterInv, Sends PROVE AdapterInv'
<1>1. call.at = "send" /\ UNCHANGED order /\ CallTyped
  BY DEF Sends, AdapterInv
<1>2. call.method = "POST" => effects = 0 /\ call.result = "none"
  BY <1>1 DEF AdapterInv, NothingYet, Underway
<1>3. Effect \in Nat /\ (call.method = "POST" => Effect = 1) /\ effects \in Nat
  BY <1>1, <1>2, EffectOnce DEF CallTyped
<1> HIDE DEF Effect
<1>4. ASSUME call'.method = call.method PROVE SentPassesFilters'
  BY <1>1, <1>4 DEF AdapterInv, SentPassesFilters
<1> USE DEF Failures
<1>5. CASE Answered
  <2>1. CASE call.method = "DELETE" /\ effects > 0
    <3>1. Failed("refused") /\ effects' = Effect
      BY <1>5, <2>1 DEF Answered
    <3>2. CallTyped' /\ call'.method = "DELETE" /\ call'.at # "idle"
      BY <1>1, <1>3, <2>1, <3>1, FailedCall DEF CallTyped
    <3> QED
      BY <1>4, <2>1, <3>2 DEF AdapterInv, NothingYet, PlacedAtMostOnce
  <2>2. CASE ~(call.method = "DELETE" /\ effects > 0)
    <3>1. call' = [call EXCEPT !.at = "done", !.result = "ok"] /\ effects' = Effect
      BY <1>5, <2>2 DEF Answered
    <3>2. CallTyped' /\ call'.method = call.method /\ call'.at = "done" /\ call'.result = "ok"
      BY <1>1, <1>3, <3>1 DEF CallTyped
    <3> QED
      BY <1>3, <1>4, <3>1, <3>2 DEF AdapterInv, NothingYet, Underway, PlacedAtMostOnce
  <2> QED
    BY <2>1, <2>2
<1>6. CASE Doubtful
  <2>1. PICK failure \in {"server", "lost"} : Failed(failure)
    BY <1>6 DEF Doubtful
  <2>2. effects' \in {effects, Effect}
    BY <1>6 DEF Doubtful
  <2>3. /\ CallTyped' /\ call'.method = call.method /\ call'.at # "idle"
        /\ call.method = "POST" => call'.at = "done" /\ call'.result = failure
    BY <1>1, <1>3, <2>1, <2>2, FailedCall DEF CallTyped
  <2> QED
    BY <1>2, <1>3, <1>4, <2>2, <2>3 DEF AdapterInv, NothingYet, Underway, PlacedAtMostOnce
<1>7. CASE Garbled
  <2>1. Failed("garbled") /\ effects' = Effect
    BY <1>7 DEF Garbled
  <2>2. /\ CallTyped' /\ call'.method = call.method /\ call'.at # "idle"
        /\ call.method = "POST" => call'.at = "done" /\ call'.result = "garbled"
    BY <1>1, <1>3, <2>1, FailedCall DEF CallTyped
  <2> QED
    BY <1>2, <1>3, <1>4, <2>1, <2>2 DEF AdapterInv, NothingYet, Underway, PlacedAtMostOnce
<1>8. CASE Declined
  <2>1. PICK failure \in {"limited", "refused", "stale"} : Failed(failure)
    BY <1>8 DEF Declined
  <2>2. effects' = effects
    BY <1>8 DEF Declined
  <2>3. /\ CallTyped' /\ call'.method = call.method /\ call'.at \in {"resync", "send", "done"}
        /\ call'.at \in {"resync", "send"} => call'.result = call.result
    BY <1>1, <1>3, <2>1, <2>2, FailedCall DEF CallTyped
  <2> QED
    <3>1. SentPassesFilters'
      BY <1>4, <2>3
    <3>2. NothingYet'
      BY <1>2, <2>2, <2>3 DEF NothingYet, Underway
    <3>3. PlacedAtMostOnce'
      BY <1>2, <2>2, <2>3 DEF PlacedAtMostOnce
    <3> QED
      BY <2>3, <3>1, <3>2, <3>3 DEF AdapterInv
<1> QED
  BY <1>5, <1>6, <1>7, <1>8 DEF Sends

LEMMA NextAdapter == AdapterInv /\ [AdapterNext]_adapterVars => AdapterInv'
  BY PostKeeps, QuietKeeps, SendsKeeps DEF AdapterNext

LEMMA AdapterSound == AdapterSpec => []AdapterInv
  BY InitAdapter, NextAdapter, PTL DEF AdapterSpec

(***************************************************************************)
(* An order is placed at most once however many attempts are allowed and   *)
(* however answers are lost, and one that ends in a refusal, a rate limit  *)
(* or a stale timestamp has not been placed at all (_retryable).           *)
(***************************************************************************)
THEOREM PlacedOnceHolds == AdapterSpec => []PlacedAtMostOnce
  BY AdapterSound, PTL DEF AdapterInv

(***************************************************************************)
(* For any quantity, price and filters, what quantize_order sends is a     *)
(* multiple of the step and of the tick, is not below the minima, and is   *)
(* worth no more than what was asked.                                      *)
(***************************************************************************)
THEOREM FiltersHold == AdapterSpec => []SentPassesFilters
  BY AdapterSound, PTL DEF AdapterInv

-----------------------------------------------------------------------------
(* Part 4.  The replay.  A fold over a window, one candle at a time: the   *)
(* community modules take the largest index of the set that is left, so    *)
(* that its value on 1..k is the simulation after the first k candles.     *)

StepBy(exits, bid, ttl, window, sim, i) ==
    IF exits = "tiers" THEN LadderStep(bid, ttl, window, sim, i) ELSE BracketStep(bid, ttl, window, sim, i)

Replayed(exits, bid, ttl, window) ==
    IF exits = "tiers"
    THEN FoldLeftDomain(LAMBDA sim, i : LadderStep(bid, ttl, window, sim, i), Waiting, window)
    ELSE FoldLeftDomain(LAMBDA sim, i : BracketStep(bid, ttl, window, sim, i), Waiting, window)

Walking(g, exits, bid, ttl, window, S) ==
    [s \in SUBSET S |-> IF s = {} THEN Waiting
                        ELSE LET x == Max(s) IN StepBy(exits, bid, ttl, window, g[s \ {x}], x)]

LEMMA LargestOfSome ==
    ASSUME NEW n \in Nat, NEW s \in SUBSET (1..n), s # {}
    PROVE  Max(s) \in s /\ \A y \in s : y <= Max(s)
  <1> DEFINE gaps == {n - x : x \in s}
  <1>1. gaps \subseteq Nat /\ gaps # {}
    <2>1. \A x \in s : n - x \in Nat
      OBVIOUS
    <2> QED
      BY <2>1
  <1> HIDE DEF gaps
  <1>2. PICK gap \in gaps : \A m \in gaps : ~ (<<m, gap>> \in OpToRel(<, Nat))
    BY <1>1, WFMin, NatLessThanWellFounded
  <1>3. \A m \in gaps : gap <= m
    <2> TAKE m \in gaps
    <2>1. m \in Nat /\ gap \in Nat
      BY <1>1
    <2>2. ~(m < gap)
      BY <1>2, <2>1 DEF OpToRel
    <2> QED
      BY <2>1, <2>2
  <1>4. PICK x \in s : gap = n - x
    BY DEF gaps
  <1>5. \A y \in s : y <= x
    <2> TAKE y \in s
    <2>1. n - y \in gaps
      BY DEF gaps
    <2>2. gap <= n - y /\ x \in Int /\ y \in Int
      BY <1>3, <2>1
    <2> QED
      BY <1>4, <2>2
  <1> QED
    BY <1>5 DEF Max

LEMMA WalkExists ==
    ASSUME NEW exits, NEW bid, NEW ttl, NEW window, NEW len \in Nat
    PROVE  \E g : g = Walking(g, exits, bid, ttl, window, 1..len)
  <1> DEFINE S == 1..len
             upTo(n) == {s \in SUBSET S : Cardinality(s) <= n}
             next(g, s) == StepBy(exits, bid, ttl, window, g[s \ {Max(s)}], Max(s))
             partial(g, n) == g = [s \in upTo(n) |-> IF s = {} THEN Waiting ELSE next(g, s)]
             G == {n \in Nat : \E g : partial(g, n)}
  <1>0. IsFiniteSet(S) /\ Cardinality(S) \in Nat
    BY FS_Interval, FS_CardinalityType
  <1>1. 0 \in G
    <2> DEFINE g == [s \in upTo(0) |-> Waiting]
    <2>1. ASSUME NEW s \in upTo(0) PROVE s = {}
      <3>1. IsFiniteSet(s) /\ Cardinality(s) <= 0
        BY <1>0, FS_Subset
      <3>2. Cardinality(s) = 0
        BY <3>1, FS_CardinalityType
      <3> QED
        BY <3>1, <3>2, FS_EmptySet
    <2>2. partial(g, 0)
      BY <2>1
    <2> QED
      BY <2>2
  <1>2. ASSUME NEW n \in Nat, n \in G PROVE n + 1 \in G
    <2>1. PICK g : partial(g, n)
      BY <1>2
    <2> DEFINE h == [s \in upTo(n + 1) |-> IF s = {} THEN Waiting ELSE next(g, s)]
    <2>2. ASSUME NEW s \in upTo(n + 1), s # {}
          PROVE  s \ {Max(s)} \in upTo(n) /\ s \ {Max(s)} \in upTo(n + 1)
      <3>1. Max(s) \in s /\ s \in SUBSET S
        BY <2>2, LargestOfSome
      <3>2. /\ Cardinality(s) \in Nat /\ s \ {Max(s)} \in SUBSET S
            /\ Cardinality(s \ {Max(s)}) = Cardinality(s) - 1
        BY <1>0, <2>2, <3>1, SmallerSet
      <3> QED
        BY <2>2, <3>2
    <2>3. ASSUME NEW s \in upTo(n), s \in upTo(n + 1) PROVE h[s] = g[s]
      <3> HIDE DEF next
      <3>1. h[s] = IF s = {} THEN Waiting ELSE next(g, s)
        BY <2>3
      <3>2. g[s] = IF s = {} THEN Waiting ELSE next(g, s)
        BY <2>1
      <3> QED
        BY <3>1, <3>2
    <2>4. ASSUME NEW s \in upTo(n + 1), s # {}
          PROVE  next(h, s) = next(g, s)
      <3>1. h[s \ {Max(s)}] = g[s \ {Max(s)}]
        BY <2>2, <2>3, <2>4
      <3> HIDE DEF h, upTo
      <3> QED
        BY <3>1
    <2>5. partial(h, n + 1)
      <3> HIDE DEF next, upTo
      <3> QED
        BY <2>4
    <2> HIDE DEF h, partial
    <2>6. \E i : partial(i, n + 1)
      BY <2>5
    <2> QED
      BY <2>6
  <1> HIDE DEF G
  <1>3. Cardinality(S) \in G
    BY <1>0, <1>1, <1>2, NatClosed
  <1>4. upTo(Cardinality(S)) = SUBSET S
    BY <1>0, FS_Subset
  <1> QED
    BY <1>3, <1>4, Zenon DEF G, Walking

LEMMA ReplayUnfolds ==
    ASSUME NEW exits, NEW bid, NEW ttl, NEW window, NEW len \in Nat, DOMAIN window = 1..len
    PROVE  \E g : Replayed(exits, bid, ttl, window) = g[1..len] /\ g = Walking(g, exits, bid, ttl, window, 1..len)
  <1> DEFINE indices == [i \in DOMAIN window |-> i]
             Walked(g) == [s \in SUBSET (DOMAIN indices) |->
                             IF s = {} THEN Waiting
                             ELSE LET x == Max(s)
                                  IN  StepBy(exits, bid, ttl, window, g[s \ {x}], indices[x])]
  <1>1. \E h : /\ Replayed(exits, bid, ttl, window) = h[DOMAIN indices]
               /\ (\E g : g = Walked(g)) => h = Walked(h)
    <2> DEFINE Rung(g) == [s \in SUBSET (DOMAIN indices) |->
                             IF s = {} THEN Waiting
                             ELSE LET x == Max(s) IN LadderStep(bid, ttl, window, g[s \ {x}], indices[x])]
               Pair(g) == [s \in SUBSET (DOMAIN indices) |->
                             IF s = {} THEN Waiting
                             ELSE LET x == Max(s) IN BracketStep(bid, ttl, window, g[s \ {x}], indices[x])]
    <2>1. exits = "tiers" => \E h : /\ Replayed(exits, bid, ttl, window) = h[DOMAIN indices]
                                    /\ (\E g : g = Rung(g)) => h = Rung(h)
      BY DEF Replayed, FoldLeftDomain, FoldLeft, MapThenFoldSet
    <2>2. exits # "tiers" => \E h : /\ Replayed(exits, bid, ttl, window) = h[DOMAIN indices]
                                    /\ (\E g : g = Pair(g)) => h = Pair(h)
      BY DEF Replayed, FoldLeftDomain, FoldLeft, MapThenFoldSet
    <2>3. exits = "tiers" => \A g : Walked(g) = Rung(g)
      BY DEF StepBy
    <2>4. exits # "tiers" => \A g : Walked(g) = Pair(g)
      BY DEF StepBy
    <2> HIDE DEF Walked, Rung, Pair
    <2> QED
      BY <2>1, <2>2, <2>3, <2>4
  <1>2. DOMAIN indices = 1..len
    OBVIOUS
  <1>3. ASSUME NEW g PROVE Walked(g) = Walking(g, exits, bid, ttl, window, 1..len)
    <2>1. ASSUME NEW s \in SUBSET (1..len), s # {} PROVE indices[Max(s)] = Max(s)
      BY <2>1, LargestOfSome
    <2> HIDE DEF indices
    <2> QED
      BY <1>2, <2>1 DEF Walking
  <1> HIDE DEF Walked, indices
  <1>4. PICK h : /\ Replayed(exits, bid, ttl, window) = h[1..len]
                 /\ (\E g : g = Walked(g)) => h = Walked(h)
    BY <1>1, <1>2
  <1>5. h = Walking(h, exits, bid, ttl, window, 1..len)
    BY <1>3, <1>4, WalkExists
  <1> QED
    BY <1>4, <1>5

\* The simulations after each candle of a window.
Simulates(sims, exits, bid, ttl, window, len) ==
    /\ sims[0] = Waiting
    /\ \A k \in 1..len : sims[k] = StepBy(exits, bid, ttl, window, sims[k - 1], k)

LEMMA SimsExist ==
    ASSUME NEW exits, NEW bid, NEW ttl, NEW window, NEW len \in Nat, DOMAIN window = 1..len
    PROVE  \E sims : Simulates(sims, exits, bid, ttl, window, len) /\ Replayed(exits, bid, ttl, window) = sims[len]
  <1>1. PICK g : /\ Replayed(exits, bid, ttl, window) = g[1..len]
                 /\ g = Walking(g, exits, bid, ttl, window, 1..len)
    BY ReplayUnfolds
  <1> DEFINE sims == [k \in 0..len |-> g[1..k]]
  <1>2. \A s \in SUBSET (1..len) :
          g[s] = IF s = {} THEN Waiting ELSE StepBy(exits, bid, ttl, window, g[s \ {Max(s)}], Max(s))
    BY <1>1, Zenon DEF Walking
  <1>3. sims[0] = Waiting
    <2>1. 1..0 = {} /\ 0 \in 0..len
      OBVIOUS
    <2> QED
      BY <1>2, <2>1
  <1>4. ASSUME NEW k \in 1..len PROVE sims[k] = StepBy(exits, bid, ttl, window, sims[k - 1], k)
    <2>1. 1..k \in SUBSET (1..len) /\ 1..k # {} /\ (1..k) \ {k} = 1..(k - 1)
      OBVIOUS
    <2>2. Max(1..k) \in 1..k /\ \A y \in 1..k : y <= Max(1..k)
      BY <2>1, LargestOfSome
    <2>3. Max(1..k) = k
      BY <2>2
    <2>4. sims[k] = g[1..k] /\ sims[k - 1] = g[1..(k - 1)]
      OBVIOUS
    <2> HIDE DEF sims
    <2> QED
      BY <1>2, <2>1, <2>3, <2>4
  <1>5. Replayed(exits, bid, ttl, window) = sims[len]
    BY <1>1
  <1> HIDE DEF sims
  <1> QED
    BY <1>3, <1>4, <1>5 DEF Simulates

LEMMA SimsUnique ==
    ASSUME NEW exits, NEW bid, NEW ttl, NEW window, NEW len \in Nat, NEW f, NEW g,
           Simulates(f, exits, bid, ttl, window, len), Simulates(g, exits, bid, ttl, window, len)
    PROVE  f[len] = g[len]
  <1> DEFINE G == {k \in Nat : k <= len => f[k] = g[k]}
  <1>1. 0 \in G
    BY DEF Simulates
  <1>2. ASSUME NEW k \in Nat, k \in G PROVE k + 1 \in G
    <2>1. SUFFICES ASSUME k + 1 <= len PROVE f[k + 1] = g[k + 1]
      OBVIOUS
    <2>2. f[k] = g[k] /\ k + 1 \in 1..len /\ (k + 1) - 1 = k
      BY <1>2, <2>1
    <2> QED
      BY <2>2 DEF Simulates
  <1> HIDE DEF G
  <1>3. len \in G
    BY <1>1, <1>2, NatClosed
  <1> QED
    BY <1>3 DEF G

LEMMA StepsAre ==
    ASSUME NEW bid, NEW ttl, NEW window, NEW sim, NEW i
    PROVE  /\ StepBy("bracket", bid, ttl, window, sim, i) = BracketStep(bid, ttl, window, sim, i)
           /\ StepBy("tiers", bid, ttl, window, sim, i) = LadderStep(bid, ttl, window, sim, i)
  BY DEF StepBy

\* One more candle: what BracketStep does with it.
StepOn(bid, ttl, bar, sim, i) ==
    CASE sim.at = "waiting" /\ i > ttl -> [at |-> "lapsed"]
      [] sim.at = "waiting" /\ i <= ttl /\ FillsOn(bid, bar) -> [at |-> "open", entry |-> i]
      [] sim.at = "open" /\ LeavesOn(bid, bar) ->
            [at |-> "closed",
             result |-> Closed(sim.entry, i, bid, ExitOn(bid, bar).price, ExitOn(bid, bar).reason)]
      [] OTHER -> sim

LEMMA StepIsOn ==
    ASSUME NEW bid, NEW ttl, NEW window, NEW sim, NEW i
    PROVE  StepBy("bracket", bid, ttl, window, sim, i) = StepOn(bid, ttl, window[i], sim, i)
  <1>1. BracketStep(bid, ttl, window, sim, i) = StepOn(bid, ttl, window[i], sim, i)
    BY Zenon DEF BracketStep, StepOn
  <1> QED
    BY <1>1, StepsAre

LEMMA ReplayEmpty ==
    ASSUME NEW bid, NEW ttl
    PROVE  Replayed("bracket", bid, ttl, <<>>) = Waiting
  <1>1. DOMAIN <<>> = 1..0
    OBVIOUS
  <1> QED
    BY <1>1, SimsExist DEF Simulates

LEMMA ReplayAppend ==
    ASSUME NEW bid, NEW ttl, NEW window \in Seq(Bars), NEW bar \in Bars
    PROVE  Replayed("bracket", bid, ttl, Append(window, bar))
             = StepOn(bid, ttl, bar, Replayed("bracket", bid, ttl, window), Len(window) + 1)
  <1> DEFINE len == Len(window)
             longer == Append(window, bar)
  <1>1. /\ len \in Nat /\ len + 1 \in Nat /\ DOMAIN window = 1..len /\ DOMAIN longer = 1..(len + 1)
        /\ longer[len + 1] = bar /\ \A k \in 1..len : longer[k] = window[k]
    OBVIOUS
  <1> HIDE DEF len, longer
  <1>2. PICK sims : Simulates(sims, "bracket", bid, ttl, longer, len + 1) /\ Replayed("bracket", bid, ttl, longer) = sims[len + 1]
    BY <1>1, SimsExist
  <1>3. PICK f : Simulates(f, "bracket", bid, ttl, window, len) /\ Replayed("bracket", bid, ttl, window) = f[len]
    BY <1>1, SimsExist
  <1>4. Simulates(sims, "bracket", bid, ttl, window, len)
    <2>1. ASSUME NEW k \in 1..len PROVE sims[k] = StepBy("bracket", bid, ttl, window, sims[k - 1], k)
      <3>1. k \in 1..(len + 1) /\ longer[k] = window[k]
        BY <1>1
      <3>2. sims[k] = StepBy("bracket", bid, ttl, longer, sims[k - 1], k)
        BY <1>2, <3>1 DEF Simulates
      <3> QED
        BY <3>1, <3>2, StepIsOn
    <2> QED
      BY <1>2, <2>1 DEF Simulates
  <1>5. sims[len] = f[len]
    BY <1>1, <1>3, <1>4, SimsUnique
  <1>6. len + 1 \in 1..(len + 1) /\ (len + 1) - 1 = len
    BY <1>1
  <1>7. sims[len + 1] = StepBy("bracket", bid, ttl, longer, sims[len], len + 1)
    BY <1>2, <1>6 DEF Simulates
  <1>8. sims[len + 1] = StepOn(bid, ttl, bar, Replayed("bracket", bid, ttl, window), len + 1)
    BY <1>1, <1>3, <1>5, <1>7, StepIsOn
  <1> QED
    BY <1>2, <1>8 DEF len, longer

-----------------------------------------------------------------------------
(* The inductive invariant: what the walk knows of a bid is what the       *)
(* replay, candle by candle, knows of it by now.                           *)

\* The candles since a decision, and the replay over them.
SinceIn(bs, decided) == SubSeq(bs, decided + 1, Len(bs))
Sim(bs, bid, decided) == Replayed("bracket", bid, BidTtl(bid), SinceIn(bs, decided))

OpenSince(entry) == [at |-> "open", entry |-> entry]
ClosedWith(result) == [at |-> "closed", result |-> result]

Ending(bs, entry, bid) == Closed(entry, Len(bs), bid, Last(bs).close, "END_OF_DATA")

RestingBid(bs, p) ==
    /\ p.bid \in Bids /\ p.decided \in 1..Len(bs)
    /\ Sim(bs, p.bid, p.decided) = Waiting /\ Len(bs) - p.decided < BidTtl(p.bid)

HeldBid(bs, p) ==
    /\ p.bid \in Bids /\ p.decided \in 1..Len(bs) /\ p.entry \in Nat /\ p.entry > p.decided
    /\ p.decided < Len(bs) /\ Sim(bs, p.bid, p.decided) = OpenSince(p.entry - p.decided)

Reasons == {"STOP_LOSS", "TAKE_PROFIT", "END_OF_DATA"}
Results == [entry : Int, exit : Int, price : Int, pnl : Int, reason : Reasons]

\* What a turn of the walk has settled, and what the end of the series has.
SettledByTurn(bs, t) ==
    /\ t.bid \in Bids /\ t.decided \in 1..Len(bs)
    /\ \E entry \in Nat, exit \in Nat, price \in Int, reason \in Reasons :
         /\ t.result = Closed(entry + t.decided, exit + t.decided, t.bid, price, reason)
         /\ Sim(bs, t.bid, t.decided) = ClosedWith(Closed(entry, exit, t.bid, price, reason))

SettledAtEnd(bs, t) ==
    /\ t.bid \in Bids /\ t.decided \in 1..Len(bs) /\ t.decided < Len(bs)
    /\ \E entry \in Nat : /\ entry > t.decided /\ t.result = Ending(bs, entry, t.bid)
                          /\ Sim(bs, t.bid, t.decided) = OpenSince(entry - t.decided)

ReplayInv ==
    /\ bars \in Seq(Bars) /\ Len(bars) > 0 /\ over \in BOOLEAN
    /\ trades \in Seq([bid : Bids, decided : Nat, result : Results])
    /\ pending = None \/ position = None
    /\ pending # None => RestingBid(bars, pending)
    /\ position # None => HeldBid(bars, position)
    /\ \A n \in 1..Len(trades) : SettledByTurn(bars, trades[n]) \/ (over /\ SettledAtEnd(bars, trades[n]))

LEMMA BacktestConstants ==
    /\ \A b \in Bars : b.low \in Nat /\ b.high \in Nat /\ b.close \in Nat
    /\ \A b \in Bids : /\ b.price \in Nat /\ b.stop \in Nat /\ b.target \in Nat
                       /\ BidTtl(b) \in Nat /\ BidTtl(b) > 0
    /\ BidLots \in Nat /\ FeePct \in Nat /\ Slip \in Nat /\ ReplayTtl \in Nat
    /\ None \notin Results
  <1>1. \A b \in Bars : b.low \in Nat /\ b.high \in Nat /\ b.close \in Nat
    BY BacktestAssumption DEF BacktestAssumption
  <1>2. \A b \in Bids : b.price \in Nat /\ b.stop \in Nat /\ b.target \in Nat
    BY BacktestAssumption DEF BacktestAssumption
  <1>3. {EntryTtl, ZoneTtl, BidLots} \subseteq Nat \ {0} /\ {ReplayTtl, FeePct, Slip} \subseteq Nat
    BY BacktestAssumption DEF BacktestAssumption
  <1>4. None \notin Results
    BY BacktestAssumption, Zenon DEF BacktestAssumption, Results, Reasons
  <1>5. \A b \in Bids : BidTtl(b) = ZoneTtl \/ BidTtl(b) = EntryTtl
    BY Zenon DEF BidTtl
  <1>6. ZoneTtl \in Nat /\ ZoneTtl > 0 /\ EntryTtl \in Nat /\ EntryTtl > 0
    BY <1>3
  <1> QED
    BY <1>1, <1>2, <1>3, <1>4, <1>5, <1>6

Moved(trade, d) == [trade EXCEPT !.entry = @ + d, !.exit = @ + d]

\* A settled trade is a record, and its profit does not depend on when it was made.
LEMMA ClosedIs ==
    ASSUME NEW bid \in Bids, NEW entry \in Int, NEW exit \in Int, NEW price \in Int, NEW reason \in Reasons
    PROVE  /\ Closed(entry, exit, bid, price, reason) \in Results
           /\ Closed(entry, exit, bid, price, reason) # None
           /\ \A d \in Int : Closed(entry + d, exit + d, bid, price, reason)
                                = Moved(Closed(entry, exit, bid, price, reason), d)
  <1> DEFINE pnl == 100 * (price - bid.price) * BidLots - (FeeOf(bid.price, BidLots) + FeeOf(price, BidLots))
  <1>1. \A e, x : Closed(e, x, bid, price, reason)
                    = [entry |-> e, exit |-> x, price |-> price, reason |-> reason, pnl |-> pnl]
    BY DEF Closed
  <1>2. pnl \in Int
    <2>1. bid.price \in Int /\ BidLots \in Int /\ FeePct \in Int
      BY BacktestConstants
    <2>2. bid.price * BidLots \in Int /\ price * BidLots \in Int /\ (100 * (price - bid.price)) * BidLots \in Int
      BY <2>1
    <2>3. FeeOf(bid.price, BidLots) \in Int /\ FeeOf(price, BidLots) \in Int
      BY <2>1, <2>2 DEF FeeOf
    <2> QED
      BY <2>2, <2>3
  <1> HIDE DEF pnl
  <1>3. Closed(entry, exit, bid, price, reason) \in Results
    BY <1>1, <1>2 DEF Results
  <1>4. Closed(entry, exit, bid, price, reason) # None
    BY <1>3, BacktestConstants
  <1>5. ASSUME NEW d \in Int
        PROVE  Closed(entry + d, exit + d, bid, price, reason)
                 = Moved(Closed(entry, exit, bid, price, reason), d)
    <2> DEFINE r == [entry |-> entry, exit |-> exit, price |-> price, reason |-> reason, pnl |-> pnl]
               q == [entry |-> entry + d, exit |-> exit, price |-> price, reason |-> reason, pnl |-> pnl]
    <2>1. [r EXCEPT !.entry = @ + d] = q
      OBVIOUS
    <2>2. [q EXCEPT !.exit = @ + d]
            = [entry |-> entry + d, exit |-> exit + d, price |-> price, reason |-> reason, pnl |-> pnl]
      OBVIOUS
    <2> HIDE DEF r, q
    <2>3. [r EXCEPT !.entry = @ + d, !.exit = @ + d] = [[r EXCEPT !.entry = @ + d] EXCEPT !.exit = @ + d]
      OBVIOUS
    <2>4. Moved(r, d)
            = [entry |-> entry + d, exit |-> exit + d, price |-> price, reason |-> reason, pnl |-> pnl]
      BY <2>1, <2>2, <2>3 DEF Moved
    <2>5. r = Closed(entry, exit, bid, price, reason)
      BY <1>1 DEF r
    <2> QED
      BY <1>1, <2>4, <2>5
  <1> QED
    BY <1>3, <1>4, <1>5

LEMMA SinceGrows ==
    ASSUME NEW bs \in Seq(Bars), NEW bar \in Bars, NEW d \in 1..Len(bs)
    PROVE  /\ SinceIn(bs, d) \in Seq(Bars) /\ Len(SinceIn(bs, d)) = Len(bs) - d
           /\ SinceIn(Append(bs, bar), d) = Append(SinceIn(bs, d), bar)
           /\ d < Len(bs) => Last(SinceIn(bs, d)) = Last(bs)
  <1> DEFINE n == Len(bs)
             longer == Append(bs, bar)
             w == SubSeq(bs, d + 1, n)
             v == SubSeq(longer, d + 1, n + 1)
  <1>1. /\ n \in Nat /\ d \in Nat /\ d <= n /\ d + 1 \in Int /\ n \in Int /\ n + 1 \in Int
        /\ \A i \in (d + 1)..n : bs[i] \in Bars
    OBVIOUS
  <1>2. /\ longer \in Seq(Bars) /\ Len(longer) = n + 1 /\ longer[n + 1] = bar
        /\ \A i \in 1..n : longer[i] = bs[i]
    OBVIOUS
  <1>3. \A i \in (d + 1)..(n + 1) : longer[i] \in Bars
    BY <1>1, <1>2
  <1> HIDE DEF n, longer
  <1>4. /\ w \in Seq(Bars) /\ Len(w) = IF d + 1 <= n THEN n - (d + 1) + 1 ELSE 0
        /\ \A i \in 1..(n - (d + 1) + 1) : w[i] = bs[(d + 1) + i - 1]
    BY <1>1, SubSeqProperties
  <1>5. /\ v \in Seq(Bars) /\ Len(v) = IF d + 1 <= n + 1 THEN (n + 1) - (d + 1) + 1 ELSE 0
        /\ \A i \in 1..((n + 1) - (d + 1) + 1) : v[i] = longer[(d + 1) + i - 1]
    BY <1>1, <1>3, SubSeqProperties
  <1> HIDE DEF w, v
  <1>6. Len(w) = n - d /\ Len(v) = n - d + 1
    BY <1>1, <1>4, <1>5
  <1>7. /\ \A i \in 1..(n - d) : w[i] = bs[d + i] /\ v[i] = longer[d + i]
        /\ v[n - d + 1] = longer[n + 1]
    <2>1. ASSUME NEW i \in 1..(n - d) PROVE w[i] = bs[d + i] /\ v[i] = longer[d + i]
      <3>1. /\ (d + 1) + i - 1 = d + i
            /\ i \in 1..(n - (d + 1) + 1) /\ i \in 1..((n + 1) - (d + 1) + 1)
        BY <1>1
      <3> QED
        BY <1>4, <1>5, <3>1
    <2>2. v[n - d + 1] = longer[n + 1]
      <3>1. (d + 1) + (n - d + 1) - 1 = n + 1 /\ n - d + 1 \in 1..((n + 1) - (d + 1) + 1)
        BY <1>1
      <3> QED
        BY <1>5, <3>1
    <2> QED
      BY <2>1, <2>2
  <1>8. Append(w, bar) \in Seq(Bars) /\ Len(Append(w, bar)) = n - d + 1
        /\ Append(w, bar)[n - d + 1] = bar /\ \A i \in 1..(n - d) : Append(w, bar)[i] = w[i]
    <2>1. n - d \in Nat /\ Len(w) = n - d /\ w \in Seq(Bars)
      BY <1>1, <1>4, <1>6
    <2> DEFINE m == n - d
    <2> HIDE DEF m
    <2>2. /\ Append(w, bar) \in Seq(Bars) /\ Len(Append(w, bar)) = m + 1
          /\ Append(w, bar)[m + 1] = bar /\ \A i \in 1..m : Append(w, bar)[i] = w[i]
      BY <2>1 DEF m
    <2> QED
      BY <2>2 DEF m
  <1>9. \A i \in 1..Len(v) : v[i] = Append(w, bar)[i]
    <2> TAKE i \in 1..Len(v)
    <2>1. CASE i = n - d + 1
      BY <1>2, <1>7, <1>8, <2>1
    <2>2. CASE i # n - d + 1
      <3>1. i \in 1..(n - d) /\ d + i \in 1..n
        BY <1>1, <1>6, <2>2
      <3> QED
        BY <1>2, <1>7, <1>8, <3>1
    <2> QED
      BY <2>1, <2>2
  <1>10. v = Append(w, bar)
    BY <1>5, <1>6, <1>8, <1>9, SeqEqual
  <1>11. d < n => w[n - d] = bs[n]
    <2> SUFFICES ASSUME d < n PROVE w[n - d] = bs[n]
      OBVIOUS
    <2>1. n - d \in 1..(n - d) /\ d + (n - d) = n
      BY <1>1
    <2> QED
      BY <1>7, <2>1
  <1>12. SinceIn(bs, d) = w /\ SinceIn(longer, d) = v
    BY <1>2 DEF SinceIn, w, v, n
  <1> QED
    BY <1>4, <1>6, <1>10, <1>11, <1>12 DEF n, longer, Last

LEMMA SinceNow ==
    ASSUME NEW bs \in Seq(Bars)
    PROVE  SinceIn(bs, Len(bs)) = <<>>
  <1>1. Len(bs) \in Int /\ ~(Len(bs) + 1 <= Len(bs))
    OBVIOUS
  <1>2. \A i \in (Len(bs) + 1)..Len(bs) : bs[i] \in Bars
    OBVIOUS
  <1>3. SinceIn(bs, Len(bs)) \in Seq(Bars) /\ Len(SinceIn(bs, Len(bs))) = 0
    BY <1>1, <1>2, SubSeqProperties DEF SinceIn
  <1> QED
    BY <1>3

\* One more candle for a bid: what the replay makes of it.
LEMMA SimGrows ==
    ASSUME NEW bs \in Seq(Bars), NEW bar \in Bars, NEW bid \in Bids, NEW d \in 1..Len(bs)
    PROVE  Sim(Append(bs, bar), bid, d)
             = StepOn(bid, BidTtl(bid), bar, Sim(bs, bid, d), Len(bs) - d + 1)
  <1> DEFINE w == SinceIn(bs, d)
  <1>1. w \in Seq(Bars) /\ Len(w) = Len(bs) - d /\ SinceIn(Append(bs, bar), d) = Append(w, bar)
    BY SinceGrows
  <1>2. Sim(bs, bid, d) = Replayed("bracket", bid, BidTtl(bid), w)
    BY DEF Sim
  <1> HIDE DEF w
  <1>3. Sim(Append(bs, bar), bid, d) = Replayed("bracket", bid, BidTtl(bid), Append(w, bar))
    BY <1>1, Zenon DEF Sim
  <1>4. Replayed("bracket", bid, BidTtl(bid), Append(w, bar))
          = StepOn(bid, BidTtl(bid), bar, Replayed("bracket", bid, BidTtl(bid), w), Len(w) + 1)
    BY <1>1, ReplayAppend
  <1> QED
    BY <1>1, <1>2, <1>3, <1>4

LEMMA SimFresh ==
    ASSUME NEW bs \in Seq(Bars), NEW bid
    PROVE  Sim(bs, bid, Len(bs)) = Waiting
  BY SinceNow, ReplayEmpty DEF Sim

\* The step from each simulation that can come.
StepCases(bid, ttl, bar, i) ==
    /\ i <= ttl /\ ~FillsOn(bid, bar) => StepOn(bid, ttl, bar, Waiting, i) = Waiting
    /\ i <= ttl /\ FillsOn(bid, bar) => StepOn(bid, ttl, bar, Waiting, i) = OpenSince(i)
    /\ \A e : ~LeavesOn(bid, bar) => StepOn(bid, ttl, bar, OpenSince(e), i) = OpenSince(e)
    /\ \A e : LeavesOn(bid, bar)
         => StepOn(bid, ttl, bar, OpenSince(e), i)
              = ClosedWith(Closed(e, i, bid, ExitOn(bid, bar).price, ExitOn(bid, bar).reason))
    /\ \A r : StepOn(bid, ttl, bar, ClosedWith(r), i) = ClosedWith(r)

LEMMA Steps ==
    ASSUME NEW bid, NEW ttl \in Nat, NEW bar, NEW i \in Nat
    PROVE  StepCases(bid, ttl, bar, i)
  <1> DEFINE filling == FillsOn(bid, bar)
             leaves == LeavesOn(bid, bar)
             exit(e) == Closed(e, i, bid, ExitOn(bid, bar).price, ExitOn(bid, bar).reason)
  <1>1. \A sim : StepOn(bid, ttl, bar, sim, i)
                   = CASE sim.at = "waiting" /\ i > ttl -> [at |-> "lapsed"]
                       [] sim.at = "waiting" /\ i <= ttl /\ filling -> [at |-> "open", entry |-> i]
                       [] sim.at = "open" /\ leaves -> [at |-> "closed", result |-> exit(sim.entry)]
                       [] OTHER -> sim
    BY DEF StepOn
  <1> HIDE DEF filling, leaves, exit
  <1>2. i <= ttl => ~(i > ttl)
    OBVIOUS
  <1>3. Waiting.at = "waiting"
    BY DEF Waiting
  <1>4. \A e : OpenSince(e).at = "open" /\ OpenSince(e).entry = e
    BY DEF OpenSince
  <1>5. \A r : ClosedWith(r).at = "closed"
    BY DEF ClosedWith
  <1>6. /\ i <= ttl /\ ~filling => StepOn(bid, ttl, bar, Waiting, i) = Waiting
        /\ i <= ttl /\ filling => StepOn(bid, ttl, bar, Waiting, i) = OpenSince(i)
    BY <1>1, <1>2, <1>3 DEF OpenSince
  <1>7. /\ \A e : ~leaves => StepOn(bid, ttl, bar, OpenSince(e), i) = OpenSince(e)
        /\ \A e : leaves => StepOn(bid, ttl, bar, OpenSince(e), i) = ClosedWith(exit(e))
    BY <1>1, <1>4 DEF ClosedWith
  <1>8. \A r : StepOn(bid, ttl, bar, ClosedWith(r), i) = ClosedWith(r)
    BY <1>1, <1>5
  <1> QED
    BY <1>6, <1>7, <1>8 DEF filling, leaves, exit, StepCases

SimCases(bs, bar, bid, d, i) ==
    LET now == Sim(bs, bid, d)
        next == Sim(Append(bs, bar), bid, d)
        exit == ExitOn(bid, bar)
    IN  /\ now = Waiting /\ i <= BidTtl(bid) /\ ~FillsOn(bid, bar) => next = Waiting
        /\ now = Waiting /\ i <= BidTtl(bid) /\ FillsOn(bid, bar) => next = OpenSince(i)
        /\ \A e : now = OpenSince(e) /\ ~LeavesOn(bid, bar) => next = OpenSince(e)
        /\ \A e : now = OpenSince(e) /\ LeavesOn(bid, bar)
                   => next = ClosedWith(Closed(e, i, bid, exit.price, exit.reason))
        /\ \A r : now = ClosedWith(r) => next = ClosedWith(r)

LEMMA SimSteps ==
    ASSUME NEW bs \in Seq(Bars), NEW bar \in Bars, NEW bid \in Bids, NEW d \in 1..Len(bs)
    PROVE  SimCases(bs, bar, bid, d, Len(bs) - d + 1)
  <1> DEFINE i == Len(bs) - d + 1
  <1>1. i \in Nat /\ BidTtl(bid) \in Nat
    BY BacktestConstants
  <1>2. Sim(Append(bs, bar), bid, d) = StepOn(bid, BidTtl(bid), bar, Sim(bs, bid, d), i)
    BY SimGrows
  <1> DEFINE ttl == BidTtl(bid)
  <1>0. ttl \in Nat
    BY <1>1
  <1> HIDE DEF ttl, i
  <1>3. StepCases(bid, ttl, bar, i)
    BY <1>0, <1>1, Steps
  <1> QED
    BY <1>2, <1>3, Zenon DEF ttl, i, StepCases, SimCases

\* A settled trade stays what the replay makes of its bid, whatever comes.
LEMMA SettledGrows ==
    ASSUME NEW bs \in Seq(Bars), NEW bar \in Bars, NEW t, SettledByTurn(bs, t)
    PROVE  SettledByTurn(Append(bs, bar), t)
  <1> DEFINE more == Append(bs, bar)
             d == t.decided
  <1>1. Len(bs) \in Nat /\ Len(more) = Len(bs) + 1 /\ t.bid \in Bids /\ d \in 1..Len(bs)
    BY DEF SettledByTurn
  <1>2. PICK entry \in Nat, exit \in Nat, price \in Int, reason \in Reasons :
          /\ t.result = Closed(entry + d, exit + d, t.bid, price, reason)
          /\ Sim(bs, t.bid, d) = ClosedWith(Closed(entry, exit, t.bid, price, reason))
    BY Zenon DEF SettledByTurn
  <1>3. Sim(more, t.bid, d) = ClosedWith(Closed(entry, exit, t.bid, price, reason))
    <2>1. SimCases(bs, bar, t.bid, d, Len(bs) - d + 1)
      BY <1>1, SimSteps
    <2> QED
      BY <1>2, <2>1, Zenon DEF SimCases
  <1>4. d \in 1..Len(more)
    BY <1>1
  <1> HIDE DEF more
  <1>5. SettledByTurn(more, t)
    BY <1>1, <1>2, <1>3, <1>4, Zenon DEF SettledByTurn
  <1> QED
    BY <1>5 DEF more

LEMMA ExitIs ==
    ASSUME NEW bid \in Bids, NEW bar
    PROVE  ExitOn(bid, bar).price \in Int /\ ExitOn(bid, bar).reason \in Reasons
  <1>1. bid.stop - Slip \in Int /\ bid.target \in Int
    BY BacktestConstants
  <1> QED
    BY <1>1 DEF ExitOn, Reasons

\* A bid made on the close of the last candle has all its time before it.
LEMMA DecidesWell ==
    ASSUME NEW bs \in Seq(Bars), Len(bs) > 0, NEW p, NEW bar,
           p \in {None} \cup {[bid |-> b, decided |-> Len(bs)] : b \in {c \in Bids : c.price <= bar.close}}
    PROVE  p = None \/ RestingBid(bs, p)
  <1> SUFFICES ASSUME NEW b \in Bids, p = [bid |-> b, decided |-> Len(bs)] PROVE RestingBid(bs, p)
    OBVIOUS
  <1>1. p.bid = b /\ p.decided = Len(bs) /\ Len(bs) \in 1..Len(bs) /\ Len(bs) - Len(bs) = 0
    OBVIOUS
  <1>2. BidTtl(b) > 0 /\ Sim(bs, b, Len(bs)) = Waiting
    BY BacktestConstants, SimFresh
  <1> QED
    BY <1>1, <1>2 DEF RestingBid

LEMMA TurnKept ==
    ASSUME ReplayInv, Turn
    PROVE  ReplayInv'
  <1> DEFINE n == Len(bars)
             more == bars'
             Records == [bid : Bids, decided : Nat, result : Results]
  <1>1. PICK bar \in Bars :
          /\ bars' = Append(bars, bar)
          /\ \/ Holds(bar) \/ Leaves(n + 1, bar) \/ Enters(n + 1, bar)
             \/ Waits(n + 1, bar) \/ Looks(n + 1, bar)
    BY Zenon DEF Turn
  <1>2. /\ bars \in Seq(Bars) /\ n \in Nat /\ n > 0 /\ trades \in Seq(Records) /\ Len(trades) \in Nat
        /\ more \in Seq(Bars) /\ Len(more) = n + 1 /\ over = FALSE /\ over' = over
    BY <1>1 DEF ReplayInv, Turn
  <1>3. \A m \in 1..Len(trades) : SettledByTurn(more, trades[m])
    BY <1>1, <1>2, SettledGrows DEF ReplayInv
  <1>4. ASSUME NEW bid \in Bids, NEW d \in 1..n
        PROVE  /\ d \in 1..(n + 1) /\ n - d + 1 \in Nat /\ (n - d + 1) + d = n + 1
               /\ BidTtl(bid) \in Nat /\ SimCases(bars, bar, bid, d, n - d + 1)
    BY <1>2, SimSteps, BacktestConstants
  <1>5. Decides(n + 1, bar) => pending' = None \/ RestingBid(more, pending')
    BY <1>2, DecidesWell DEF Decides
  <1>6. ASSUME pending' = None \/ position' = None,
               pending' # None => RestingBid(more, pending'),
               position' # None => HeldBid(more, position'),
               trades' \in Seq(Records), \A m \in 1..Len(trades') : SettledByTurn(more, trades'[m])
        PROVE  ReplayInv'
    BY <1>2, <1>6 DEF ReplayInv
  <1> HIDE DEF more, n, Records
  <1>7. CASE Holds(bar)
    <2>1. position # None /\ ~LeavesOn(position.bid, bar) /\ UNCHANGED <<pending, position, trades>>
      BY <1>7 DEF Holds
    <2>2. HeldBid(bars, position) /\ pending = None
      BY <2>1 DEF ReplayInv
    <2> DEFINE bid == position.bid
               d == position.decided
    <2>3. bid \in Bids /\ d \in 1..n /\ Sim(bars, bid, d) = OpenSince(position.entry - d)
      BY <2>2 DEF HeldBid, n
    <2>4. Sim(more, bid, d) = OpenSince(position.entry - d)
      BY <1>1, <1>4, <2>1, <2>3, Zenon DEF SimCases, more
    <2>5. HeldBid(more, position)
      BY <1>2, <1>4, <2>2, <2>3, <2>4 DEF HeldBid, n
    <2> QED
      BY <1>2, <1>3, <1>6, <2>1, <2>2, <2>5
  <1>8. CASE Leaves(n + 1, bar)
    <2> DEFINE bid == position.bid
               d == position.decided
               from == position.entry - d
               exit == ExitOn(bid, bar)
               trade == [bid |-> bid, decided |-> d,
                         result |-> Closed(position.entry, n + 1, bid, exit.price, exit.reason)]
    <2>1. /\ position # None /\ LeavesOn(bid, bar) /\ Decides(n + 1, bar) /\ position' = None
          /\ trades' = Append(trades, trade)
      BY <1>8 DEF Leaves
    <2>2. HeldBid(bars, position)
      BY <2>1 DEF ReplayInv
    <2>3. /\ bid \in Bids /\ d \in 1..n /\ position.entry \in Nat /\ from \in Nat
          /\ from + d = position.entry /\ Sim(bars, bid, d) = OpenSince(from)
      BY <1>2, <2>2 DEF HeldBid, n
    <2>4. exit.price \in Int /\ exit.reason \in Reasons
      BY <2>3, ExitIs
    <2> HIDE DEF exit, from, bid, d
    <2>5. Closed(position.entry, n + 1, bid, exit.price, exit.reason) \in Results
      <3>1. position.entry \in Int /\ n + 1 \in Int /\ bid \in Bids
        BY <1>2, <2>3
      <3> HIDE DEF Results
      <3> QED
        BY <2>4, <3>1, ClosedIs
    <2>6. trade \in Records
      BY <1>2, <2>3, <2>5 DEF Records
    <2>7. Sim(more, bid, d) = ClosedWith(Closed(from, n - d + 1, bid, exit.price, exit.reason))
      BY <1>1, <1>4, <2>1, <2>3, Zenon DEF SimCases, more, exit
    <2>8. SettledByTurn(more, trade)
      <3>1. trade.bid = bid /\ trade.decided = d /\ d \in 1..Len(more)
        BY <1>2, <1>4, <2>3
      <3>2. /\ trade.result = Closed(from + d, (n - d + 1) + d, bid, exit.price, exit.reason)
            /\ n - d + 1 \in Nat
        BY <1>4, <2>3
      <3> HIDE DEF trade
      <3> QED
        BY <2>3, <2>4, <2>7, <3>1, <3>2, Zenon DEF SettledByTurn
    <2> HIDE DEF trade
    <2>9. /\ trades' \in Seq(Records) /\ Len(trades') = Len(trades) + 1 /\ trades'[Len(trades) + 1] = trade
          /\ \A m \in 1..Len(trades) : trades'[m] = trades[m]
      BY <1>2, <2>1, <2>6
    <2>10. ASSUME NEW m \in 1..Len(trades') PROVE SettledByTurn(more, trades'[m])
      <3>1. CASE m = Len(trades) + 1
        BY <2>8, <2>9, <3>1
      <3>2. CASE m # Len(trades) + 1
        BY <1>2, <1>3, <2>9, <3>2
      <3> QED
        BY <3>1, <3>2
    <2> QED
      BY <1>5, <1>6, <2>1, <2>9, <2>10
  <1>9. CASE Enters(n + 1, bar)
    <2> DEFINE bid == pending.bid
               d == pending.decided
               p == [bid |-> bid, decided |-> d, entry |-> n + 1]
    <2>1. pending # None /\ FillsOn(bid, bar) /\ position' = p /\ pending' = None /\ trades' = trades
      BY <1>9 DEF Enters
    <2>2. RestingBid(bars, pending)
      BY <2>1 DEF ReplayInv
    <2>3. bid \in Bids /\ d \in 1..n /\ Sim(bars, bid, d) = Waiting /\ n - d < BidTtl(bid)
      BY <2>2 DEF RestingBid, n
    <2> HIDE DEF bid, d
    <2>4. n - d + 1 <= BidTtl(bid)
      BY <1>2, <1>4, <2>3
    <2>5. Sim(more, bid, d) = OpenSince(n - d + 1)
      BY <1>1, <1>4, <2>1, <2>3, <2>4, Zenon DEF SimCases, more
    <2>6. HeldBid(more, p)
      <3>1. p.bid = bid /\ p.decided = d /\ p.entry = n + 1
        OBVIOUS
      <3>2. n - d + 1 = (n + 1) - d /\ n + 1 > d /\ n + 1 \in Nat
        BY <1>2, <2>3
      <3> HIDE DEF p
      <3> QED
        BY <1>2, <1>4, <2>3, <2>5, <3>1, <3>2 DEF HeldBid
    <2> QED
      BY <1>2, <1>3, <1>6, <2>1, <2>6
  <1>10. CASE Waits(n + 1, bar)
    <2> DEFINE bid == pending.bid
               d == pending.decided
    <2>1. /\ pending # None /\ ~FillsOn(bid, bar) /\ UNCHANGED <<position, trades>>
          /\ IF Expires(bid, d, n + 1) THEN Decides(n + 1, bar) ELSE UNCHANGED pending
      BY <1>10 DEF Waits
    <2>2. RestingBid(bars, pending) /\ position = None
      BY <2>1 DEF ReplayInv
    <2>3. bid \in Bids /\ d \in 1..n /\ Sim(bars, bid, d) = Waiting /\ n - d < BidTtl(bid)
      BY <2>2 DEF RestingBid, n
    <2>4. n - d + 1 <= BidTtl(bid)
      <3> HIDE DEF bid, d
      <3> QED
        BY <1>2, <1>4, <2>3
    <2>5. Sim(more, bid, d) = Waiting
      BY <1>1, <1>4, <2>1, <2>3, <2>4, Zenon DEF SimCases, more
    <2>6. ~Expires(bid, d, n + 1) => n + 1 - d < BidTtl(bid)
      <3> HIDE DEF bid, d
      <3> QED
        BY <1>2, <1>4, <2>3 DEF Expires
    <2>7. ~Expires(bid, d, n + 1) => RestingBid(more, pending)
      BY <1>2, <1>4, <2>3, <2>5, <2>6 DEF RestingBid
    <2>8. pending' = None \/ RestingBid(more, pending')
      <3>1. CASE Expires(bid, d, n + 1)
        BY <1>5, <2>1, <3>1
      <3>2. CASE ~Expires(bid, d, n + 1)
        BY <2>1, <2>7, <3>2
      <3> QED
        BY <3>1, <3>2
    <2> QED
      BY <1>2, <1>3, <1>6, <2>1, <2>2, <2>8
  <1>11. CASE Looks(n + 1, bar)
    <2>1. position = None /\ Decides(n + 1, bar) /\ UNCHANGED <<position, trades>>
      BY <1>11 DEF Looks
    <2> QED
      BY <1>2, <1>3, <1>5, <1>6, <2>1
  <1> QED
    BY <1>1, <1>7, <1>8, <1>9, <1>10, <1>11 DEF n

LEMMA EndKept ==
    ASSUME ReplayInv, SeriesEnds
    PROVE  ReplayInv'
  <1> DEFINE n == Len(bars)
             Records == [bid : Bids, decided : Nat, result : Results]
             bid == position.bid
             d == position.decided
             trade == [bid |-> bid, decided |-> d, result |-> Ending(bars, position.entry, bid)]
  <1>1. /\ over = FALSE /\ over' = TRUE /\ position' = None /\ bars' = bars /\ pending' = pending
        /\ trades' = IF position = None THEN trades ELSE Append(trades, trade)
    BY DEF SeriesEnds, Ending
  <1>2. /\ bars \in Seq(Bars) /\ n \in Nat /\ n > 0 /\ trades \in Seq(Records) /\ Len(trades) \in Nat
        /\ \A m \in 1..Len(trades) : SettledByTurn(bars, trades[m])
        /\ pending # None => RestingBid(bars, pending)
    BY <1>1 DEF ReplayInv
  <1>3. ASSUME trades' \in Seq(Records),
               \A m \in 1..Len(trades') : SettledByTurn(bars, trades'[m]) \/ SettledAtEnd(bars, trades'[m])
        PROVE  ReplayInv'
    BY <1>1, <1>2, <1>3 DEF ReplayInv
  <1> HIDE DEF Records
  <1>4. CASE position = None
    BY <1>1, <1>2, <1>3, <1>4
  <1>5. CASE position # None
    <2>1. HeldBid(bars, position)
      BY <1>5 DEF ReplayInv
    <2>2. /\ bid \in Bids /\ d \in 1..n /\ position.entry \in Nat /\ position.entry > d /\ d < n
          /\ Sim(bars, bid, d) = OpenSince(position.entry - d)
      BY <2>1 DEF HeldBid
    <2>3. Ending(bars, position.entry, bid) \in Results
      <3>1. Last(bars).close \in Int
        BY <1>2, BacktestConstants DEF Last
      <3>2. "END_OF_DATA" \in Reasons /\ position.entry \in Int /\ n \in Int
        BY <1>2, <2>2 DEF Reasons
      <3> HIDE DEF bid, Results
      <3> QED
        BY <2>2, <3>1, <3>2, ClosedIs DEF Ending
    <2> HIDE DEF bid, d
    <2>4. trade \in Records
      BY <1>2, <2>2, <2>3 DEF Records
    <2>5. SettledAtEnd(bars, trade)
      <3>1. trade.bid = bid /\ trade.decided = d /\ trade.result = Ending(bars, position.entry, bid)
        OBVIOUS
      <3> HIDE DEF trade
      <3> QED
        BY <2>2, <3>1, Zenon DEF SettledAtEnd
    <2> HIDE DEF trade
    <2>6. /\ trades' \in Seq(Records) /\ Len(trades') = Len(trades) + 1 /\ trades'[Len(trades) + 1] = trade
          /\ \A m \in 1..Len(trades) : trades'[m] = trades[m]
      BY <1>1, <1>2, <1>5, <2>4
    <2>7. ASSUME NEW m \in 1..Len(trades')
          PROVE  SettledByTurn(bars, trades'[m]) \/ SettledAtEnd(bars, trades'[m])
      <3>1. CASE m = Len(trades) + 1
        BY <2>5, <2>6, <3>1
      <3>2. CASE m # Len(trades) + 1
        BY <1>2, <2>6, <3>2
      <3> QED
        BY <3>1, <3>2
    <2> QED
      BY <1>3, <2>6, <2>7
  <1> QED
    BY <1>4, <1>5

LEMMA ReplayInvHolds == BacktestSpec => []ReplayInv
  <1>1. BacktestInit => ReplayInv
    <2> SUFFICES ASSUME BacktestInit PROVE ReplayInv
      OBVIOUS
    <2>1. PICK bar \in Bars : bars = <<bar>>
      BY DEF BacktestInit
    <2>2. bars \in Seq(Bars) /\ Len(bars) > 0
      BY <2>1
    <2>3. trades = <<>> /\ pending = None /\ position = None /\ over = FALSE
      BY DEF BacktestInit
    <2>4. trades \in Seq([bid : Bids, decided : Nat, result : Results]) /\ 1..Len(trades) = {}
      BY <2>3
    <2> QED
      BY <2>2, <2>3, <2>4 DEF ReplayInv
  <1>2. ReplayInv /\ [BacktestNext]_backtestVars => ReplayInv'
    <2> SUFFICES ASSUME ReplayInv, [BacktestNext]_backtestVars PROVE ReplayInv'
      OBVIOUS
    <2>1. CASE BacktestNext
      BY <2>1, TurnKept, EndKept DEF BacktestNext
    <2>2. CASE UNCHANGED backtestVars
      BY <2>2 DEF ReplayInv, backtestVars
    <2> QED
      BY <2>1, <2>2
  <1> QED
    BY <1>1, <1>2, PTL DEF BacktestSpec

-----------------------------------------------------------------------------
(* Two lifetimes.  The walk gives a bid its own, the replay gives every    *)
(* bid the same: as far as both are still waiting, or the bid was filled   *)
(* within both, they see the same.                                         *)

Lapsed == [at |-> "lapsed"]

LEMMA LapsedSteps ==
    ASSUME NEW bid, NEW ttl \in Nat, NEW bar, NEW i \in Nat
    PROVE  /\ i > ttl => StepOn(bid, ttl, bar, Waiting, i) = Lapsed
           /\ StepOn(bid, ttl, bar, Lapsed, i) = Lapsed
  <1> DEFINE filling == FillsOn(bid, bar)
             leaves == LeavesOn(bid, bar)
             exit(e) == Closed(e, i, bid, ExitOn(bid, bar).price, ExitOn(bid, bar).reason)
  <1>1. \A sim : StepOn(bid, ttl, bar, sim, i)
                   = CASE sim.at = "waiting" /\ i > ttl -> [at |-> "lapsed"]
                       [] sim.at = "waiting" /\ i <= ttl /\ filling -> [at |-> "open", entry |-> i]
                       [] sim.at = "open" /\ leaves -> [at |-> "closed", result |-> exit(sim.entry)]
                       [] OTHER -> sim
    BY DEF StepOn
  <1> DEFINE late == i > ttl
             early == i <= ttl
  <1> HIDE DEF filling, leaves, exit, late, early
  <1>2. \A sim : StepOn(bid, ttl, bar, sim, i)
                   = CASE sim.at = "waiting" /\ late -> Lapsed
                       [] sim.at = "waiting" /\ early /\ filling -> [at |-> "open", entry |-> i]
                       [] sim.at = "open" /\ leaves -> [at |-> "closed", result |-> exit(sim.entry)]
                       [] OTHER -> sim
    BY <1>1, Zenon DEF late, early, Lapsed
  <1>3. ~(late /\ early)
    BY DEF late, early
  <1>4. Waiting.at = "waiting" /\ Lapsed.at = "lapsed"
    BY DEF Waiting, Lapsed
  <1>5. late => StepOn(bid, ttl, bar, Waiting, i) = Lapsed
    BY <1>2, <1>3, <1>4
  <1>6. StepOn(bid, ttl, bar, Lapsed, i) = Lapsed
    BY <1>2, <1>4
  <1> QED
    BY <1>5, <1>6 DEF late

FilledAt(f, e) == f = OpenSince(e) \/ \E r : f = ClosedWith(r) /\ r.entry = e

\* After k candles f knows of a bid with a lifetime of its own, g with the replay's.
Outlived(own, f, g, k) ==
    \/ f = Waiting /\ (g = Waiting \/ (g = Lapsed /\ k > ReplayTtl))
    \/ f = Lapsed
    \/ \E e \in Nat : /\ FilledAt(f, e) /\ e <= own
                      /\ e <= ReplayTtl => g = f
                      /\ e > ReplayTtl => g = Lapsed

LEMMA OutlivedKept ==
    ASSUME NEW bid \in Bids, NEW own \in Nat, NEW bar \in Bars, NEW k \in Nat, NEW f, NEW g,
           Outlived(own, f, g, k)
    PROVE  Outlived(own, StepOn(bid, own, bar, f, k + 1), StepOn(bid, ReplayTtl, bar, g, k + 1), k + 1)
  <1> DEFINE i == k + 1
             F == StepOn(bid, own, bar, f, i)
             G == StepOn(bid, ReplayTtl, bar, g, i)
  <1> SUFFICES Outlived(own, F, G, i)
    OBVIOUS
  <1>1. i \in Nat /\ ReplayTtl \in Nat /\ i > k
    BY BacktestConstants
  <1> HIDE DEF i
  <1>2. StepCases(bid, own, bar, i) /\ StepCases(bid, ReplayTtl, bar, i)
    BY <1>1, Steps
  <1>3. /\ i > own => StepOn(bid, own, bar, Waiting, i) = Lapsed
        /\ StepOn(bid, own, bar, Lapsed, i) = Lapsed
        /\ i > ReplayTtl => StepOn(bid, ReplayTtl, bar, Waiting, i) = Lapsed
        /\ StepOn(bid, ReplayTtl, bar, Lapsed, i) = Lapsed
    BY <1>1, LapsedSteps
  <1>4. CASE f = Waiting /\ (g = Waiting \/ (g = Lapsed /\ k > ReplayTtl))
    <2>1. CASE i > own
      BY <1>3, <1>4, <2>1 DEF Outlived
    <2>2. CASE i <= own /\ ~FillsOn(bid, bar)
      <3>1. F = Waiting
        BY <1>2, <1>4, <2>2, Zenon DEF StepCases
      <3>2. CASE i <= ReplayTtl
        <4>1. g = Waiting
          BY <1>1, <1>4, <3>2
        <4>2. G = Waiting
          BY <1>2, <2>2, <3>2, <4>1, Zenon DEF StepCases
        <4> QED
          BY <3>1, <4>2 DEF Outlived
      <3>3. CASE i > ReplayTtl
        BY <1>3, <1>4, <3>1, <3>3 DEF Outlived
      <3> QED
        BY <1>1, <3>2, <3>3
    <2>3. CASE i <= own /\ FillsOn(bid, bar)
      <3>1. F = OpenSince(i)
        BY <1>2, <1>4, <2>3, Zenon DEF StepCases
      <3>2. i <= ReplayTtl => G = OpenSince(i)
        <4>1. i <= ReplayTtl => g = Waiting
          BY <1>1, <1>4
        <4> QED
          BY <1>2, <2>3, <4>1, Zenon DEF StepCases
      <3>3. i > ReplayTtl => G = Lapsed
        BY <1>3, <1>4
      <3> HIDE DEF F, G
      <3> QED
        BY <1>1, <2>3, <3>1, <3>2, <3>3, Zenon DEF Outlived, FilledAt
    <2> QED
      BY <1>1, <2>1, <2>2, <2>3
  <1>5. CASE f = Lapsed
    BY <1>3, <1>5 DEF Outlived
  <1>6. ASSUME NEW e \in Nat, FilledAt(f, e), e <= own, e <= ReplayTtl => g = f, e > ReplayTtl => g = Lapsed
        PROVE  Outlived(own, F, G, i)
    <2>1. FilledAt(F, e) /\ F = StepOn(bid, ReplayTtl, bar, f, i)
      <3>1. CASE f = OpenSince(e)
        <4> DEFINE closed == Closed(e, i, bid, ExitOn(bid, bar).price, ExitOn(bid, bar).reason)
        <4>1. closed.entry = e
          BY DEF Closed
        <4>2. /\ ~LeavesOn(bid, bar) => F = OpenSince(e) /\ StepOn(bid, ReplayTtl, bar, f, i) = OpenSince(e)
              /\ LeavesOn(bid, bar) => F = ClosedWith(closed) /\ StepOn(bid, ReplayTtl, bar, f, i) = ClosedWith(closed)
          BY <1>2, <3>1, Zenon DEF StepCases
        <4> HIDE DEF closed, F
        <4> QED
          BY <4>1, <4>2, Zenon DEF FilledAt
      <3>2. CASE \E r : f = ClosedWith(r) /\ r.entry = e
        <4>1. PICK r : f = ClosedWith(r) /\ r.entry = e
          BY <3>2
        <4>2. F = ClosedWith(r) /\ StepOn(bid, ReplayTtl, bar, f, i) = ClosedWith(r)
          BY <1>2, <4>1, Zenon DEF StepCases
        <4> QED
          BY <4>1, <4>2, Zenon DEF FilledAt
      <3> QED
        BY <1>6, <3>1, <3>2 DEF FilledAt
    <2>2. e <= ReplayTtl => G = F
      BY <1>6, <2>1
    <2>3. e > ReplayTtl => G = Lapsed
      BY <1>3, <1>6
    <2> HIDE DEF F, G
    <2> QED
      BY <1>6, <2>1, <2>2, <2>3, Zenon DEF Outlived
  <1> QED
    BY <1>4, <1>5, <1>6, Zenon DEF Outlived, i

LEMMA OutlivedReplays ==
    ASSUME NEW bid \in Bids, NEW own \in Nat, NEW window \in Seq(Bars)
    PROVE  Outlived(own, Replayed("bracket", bid, own, window), Replayed("bracket", bid, ReplayTtl, window),
                    Len(window))
  <1> DEFINE len == Len(window)
  <1>1. len \in Nat /\ DOMAIN window = 1..len /\ \A k \in 1..len : window[k] \in Bars
    OBVIOUS
  <1> HIDE DEF len
  <1>2. PICK f : Simulates(f, "bracket", bid, own, window, len) /\ Replayed("bracket", bid, own, window) = f[len]
    BY <1>1, SimsExist
  <1>3. PICK g : /\ Simulates(g, "bracket", bid, ReplayTtl, window, len)
                 /\ Replayed("bracket", bid, ReplayTtl, window) = g[len]
    BY <1>1, SimsExist
  <1> DEFINE G == {k \in Nat : k <= len => Outlived(own, f[k], g[k], k)}
  <1>4. 0 \in G
    BY <1>2, <1>3 DEF Simulates, Outlived
  <1>5. ASSUME NEW k \in Nat, k \in G PROVE k + 1 \in G
    <2>1. SUFFICES ASSUME k + 1 <= len PROVE Outlived(own, f[k + 1], g[k + 1], k + 1)
      OBVIOUS
    <2>2. k + 1 \in Nat /\ k + 1 \in 1..len /\ (k + 1) - 1 = k /\ Outlived(own, f[k], g[k], k)
      BY <1>1, <1>5, <2>1
    <2>3. /\ f[k + 1] = StepBy("bracket", bid, own, window, f[k], k + 1)
          /\ g[k + 1] = StepBy("bracket", bid, ReplayTtl, window, g[k], k + 1)
      BY <1>2, <1>3, <2>2 DEF Simulates
    <2>4. /\ f[k + 1] = StepOn(bid, own, window[k + 1], f[k], k + 1)
          /\ g[k + 1] = StepOn(bid, ReplayTtl, window[k + 1], g[k], k + 1)
      BY <2>3, StepIsOn
    <2> QED
      BY <1>1, <2>2, <2>4, OutlivedKept
  <1> HIDE DEF G
  <1>6. len \in G
    BY <1>1, <1>4, <1>5, NatClosed
  <1> QED
    BY <1>1, <1>2, <1>3, <1>6 DEF G, len

\* What the replay knows of a bid by now.
Shipped(bs, bid, decided) == Replayed("bracket", bid, ReplayTtl, SinceIn(bs, decided))

LEMMA ShippedIs ==
    ASSUME NEW bs \in Seq(Bars), NEW bid \in Bids, NEW d \in 1..Len(bs)
    PROVE  Outlived(BidTtl(bid), Sim(bs, bid, d), Shipped(bs, bid, d), Len(bs) - d)
  <1>1. PICK bar \in Bars : TRUE
    <2>1. 1 \in 1..Len(bs)
      OBVIOUS
    <2> QED
      BY <2>1
  <1>2. SinceIn(bs, d) \in Seq(Bars) /\ Len(SinceIn(bs, d)) = Len(bs) - d /\ BidTtl(bid) \in Nat
    BY <1>1, SinceGrows, BacktestConstants
  <1> QED
    BY <1>2, OutlivedReplays DEF Sim, Shipped

\* What the replay says of a bid, from the simulation it ends with.
LEMMA ReplayEnds ==
    ASSUME NEW bs \in Seq(Bars), NEW bid \in Bids, NEW d \in 1..Len(bs)
    PROVE  LET replayed == Replay(bid, SinceIn(bs, d))
           IN  /\ Shipped(bs, bid, d) \in {Waiting, Lapsed} => replayed = None
               /\ \A r : Shipped(bs, bid, d) = ClosedWith(r) => replayed = r
               /\ \A e : Shipped(bs, bid, d) = OpenSince(e) /\ d < Len(bs)
                         => replayed = Closed(e, Len(bs) - d, bid, Last(bs).close, "END_OF_DATA")
  <1> DEFINE w == SinceIn(bs, d)
             sim == Shipped(bs, bid, d)
             end(e) == Closed(e, Len(w), bid, Last(w).close, "END_OF_DATA")
             replayed == Replay(bid, w)
  <1>1. replayed = CASE sim.at = "closed" -> sim.result
                     [] sim.at = "open" -> end(sim.entry)
                     [] OTHER -> None
    <2>1. Replayed("bracket", bid, ReplayTtl, w)
            = FoldLeftDomain(LAMBDA s, i : BracketStep(bid, ReplayTtl, w, s, i), Waiting, w)
      BY DEF Replayed
    <2> QED
      BY <2>1, Zenon DEF Replay, BracketReplay, Shipped
  <1>2. Len(w) = Len(bs) - d /\ (d < Len(bs) => Last(w) = Last(bs))
    <2>1. PICK bar \in Bars : TRUE
      BY DEF Last
    <2> QED
      BY <2>1, SinceGrows
  <1>3. d < Len(bs) => \A e : end(e) = Closed(e, Len(bs) - d, bid, Last(bs).close, "END_OF_DATA")
    BY <1>2
  <1> HIDE DEF w, sim, end, replayed
  <1>4. sim \in {Waiting, Lapsed} => replayed = None
    BY <1>1 DEF Waiting, Lapsed
  <1>5. \A r : sim = ClosedWith(r) => replayed = r
    BY <1>1 DEF ClosedWith
  <1>6. \A e : sim = OpenSince(e) => replayed = end(e)
    BY <1>1 DEF OpenSince
  <1> QED
    BY <1>3, <1>4, <1>5, <1>6 DEF w, sim, replayed

\* The replay counts from the decision on.
LEMMA Shifted ==
    ASSUME NEW bid \in Bids, NEW entry \in Int, NEW exit \in Int, NEW price \in Int, NEW reason \in Reasons,
           NEW d \in Int, NEW result, NEW replayed,
           result = Closed(entry + d, exit + d, bid, price, reason),
           replayed = Closed(entry, exit, bid, price, reason)
    PROVE  SameTrade(result, d, replayed)
  <1> DEFINE there == Closed(entry, exit, bid, price, reason)
             here == Closed(entry + d, exit + d, bid, price, reason)
  <1>1. there # None /\ here = Moved(there, d)
    BY ClosedIs
  <1> HIDE DEF there, here
  <1>2. result = here /\ replayed = there
    BY DEF there, here
  <1> QED
    BY <1>1, <1>2, Zenon DEF SameTrade, Moved

(* Places of a filled bid, told apart.                                     *)
LEMMA FilledIsNot ==
    ASSUME NEW f, NEW e, FilledAt(f, e)
    PROVE  f # Waiting /\ f # Lapsed
  BY DEF FilledAt, OpenSince, ClosedWith, Waiting, Lapsed

LEMMA FilledOnce ==
    ASSUME NEW f, NEW e, NEW x, FilledAt(f, e), FilledAt(f, x)
    PROVE  e = x
  <1>1. ASSUME NEW y, f = OpenSince(y)
        PROVE  f.at = "open" /\ f.entry = y
    BY <1>1 DEF OpenSince
  <1>2. ASSUME NEW r, f = ClosedWith(r)
        PROVE  f.at = "closed" /\ f.result = r
    BY <1>2 DEF ClosedWith
  <1>3. "open" # "closed"
    OBVIOUS
  <1>4. (f.at = "open" /\ f.entry = e) \/ (f.at = "closed" /\ f.result.entry = e)
    BY <1>1, <1>2, Zenon DEF FilledAt
  <1>5. (f.at = "open" /\ f.entry = x) \/ (f.at = "closed" /\ f.result.entry = x)
    BY <1>1, <1>2, Zenon DEF FilledAt
  <1> QED
    BY <1>3, <1>4, <1>5

\* A bid that the walk has filled: within its own lifetime, and seen or missed by the replay.
LEMMA FilledSeen ==
    ASSUME NEW bs \in Seq(Bars), NEW bid \in Bids, NEW d \in 1..Len(bs), NEW e \in Nat, FilledAt(Sim(bs, bid, d), e)
    PROVE  /\ e <= BidTtl(bid)
           /\ e <= ReplayTtl => Shipped(bs, bid, d) = Sim(bs, bid, d)
           /\ e > ReplayTtl => Shipped(bs, bid, d) = Lapsed
  <1> DEFINE f == Sim(bs, bid, d)
             g == Shipped(bs, bid, d)
  <1>1. Outlived(BidTtl(bid), f, g, Len(bs) - d)
    BY ShippedIs
  <1> HIDE DEF f, g
  <1>2. FilledAt(f, e)
    BY DEF f
  <1>3. f # Waiting /\ f # Lapsed
    BY <1>2, FilledIsNot
  <1>4. PICK x \in Nat : /\ FilledAt(f, x) /\ x <= BidTtl(bid)
                         /\ x <= ReplayTtl => g = f
                         /\ x > ReplayTtl => g = Lapsed
    BY <1>1, <1>3, Zenon DEF Outlived
  <1>5. x = e
    BY <1>2, <1>4, FilledOnce
  <1> QED
    BY <1>4, <1>5 DEF f, g

(***************************************************************************)
(* For every series of candles, every bid and every pair of lifetimes, the *)
(* replay of a decision scores as the walk of the baseline does, if the    *)
(* bid was filled within the one lifetime that replay_recorded_decisions   *)
(* gives to all: while it rests the replay has not filled it, a position   *)
(* or a trade has the entry, the exit and the profit of                    *)
(* simulate_limit_entry.  What the walk fills later, as it may fill a zone *)
(* bid, the replay reports as never filled.                                *)
(***************************************************************************)
THEOREM ReplayHolds == BacktestSpec => []ReplayFaithful
  <1>1. ReplayInv => ReplayFaithful
    <2> SUFFICES ASSUME ReplayInv PROVE ReplayFaithful
      OBVIOUS
    <2> DEFINE Found(bid, d) == Replay(bid, Since(d))
    <2>1. /\ bars \in Seq(Bars) /\ Len(bars) \in Nat /\ Len(bars) > 0
          /\ DOMAIN trades = 1..Len(trades)
      BY DEF ReplayInv
    <2>2. \A d : Since(d) = SinceIn(bars, d)
      BY DEF Since, SinceIn
    <2>3. Last(bars).close \in Int
      BY <2>1, BacktestConstants DEF Last
    <2>4. ASSUME NEW bid \in Bids, NEW d \in 1..Len(bars)
          PROVE  /\ Shipped(bars, bid, d) \in {Waiting, Lapsed} => Found(bid, d) = None
                 /\ \A r : Shipped(bars, bid, d) = ClosedWith(r) => Found(bid, d) = r
                 /\ \A e : Shipped(bars, bid, d) = OpenSince(e) /\ d < Len(bars)
                      => Found(bid, d) = Closed(e, Len(bars) - d, bid, Last(bars).close, "END_OF_DATA")
      BY <2>1, <2>2, ReplayEnds
    <2> HIDE DEF Found
    <2>5. ASSUME NEW bid \in Bids, NEW d \in 1..Len(bars), d < Len(bars), NEW entry \in Nat, entry > d,
                 Sim(bars, bid, d) = OpenSince(entry - d), NEW result, result = Ending(bars, entry, bid)
          PROVE  ScoredAs(bid, d, result)
      <3>1. /\ entry - d \in Nat /\ entry - d \in Int /\ Len(bars) - d \in Int /\ d \in Int
            /\ "END_OF_DATA" \in Reasons
            /\ (entry - d) + d = entry /\ (Len(bars) - d) + d = Len(bars)
        BY <2>1, <2>5 DEF Reasons
      <3>2. /\ entry - d <= BidTtl(bid)
            /\ entry - d <= ReplayTtl => Shipped(bars, bid, d) = OpenSince(entry - d)
            /\ entry - d > ReplayTtl => Shipped(bars, bid, d) = Lapsed
        <4>1. FilledAt(Sim(bars, bid, d), entry - d)
          BY <2>5 DEF FilledAt
        <4> QED
          BY <2>1, <2>5, <3>1, <4>1, FilledSeen
      <3>3. result.entry = entry
        BY <2>5 DEF Ending, Closed
      <3>4. result = Closed((entry - d) + d, (Len(bars) - d) + d, bid, Last(bars).close, "END_OF_DATA")
        BY <2>5, <3>1 DEF Ending
      <3>5. entry - d <= ReplayTtl => SameTrade(result, d, Found(bid, d))
        <4> SUFFICES ASSUME entry - d <= ReplayTtl PROVE SameTrade(result, d, Found(bid, d))
          OBVIOUS
        <4>1. Found(bid, d) = Closed(entry - d, Len(bars) - d, bid, Last(bars).close, "END_OF_DATA")
          BY <2>4, <2>5, <3>2
        <4> QED
          BY <2>3, <3>1, <3>4, <4>1, Shifted
      <3>6. entry - d > ReplayTtl => Found(bid, d) = None
        BY <2>4, <3>2
      <3> QED
        BY <3>2, <3>3, <3>5, <3>6, Zenon DEF ScoredAs, Found
    <2>6. pending # None => Found(pending.bid, pending.decided) = None
      <3> SUFFICES ASSUME pending # None PROVE Found(pending.bid, pending.decided) = None
        OBVIOUS
      <3> DEFINE bid == pending.bid
                 d == pending.decided
                 g == Shipped(bars, bid, d)
      <3>1. bid \in Bids /\ d \in 1..Len(bars) /\ Sim(bars, bid, d) = Waiting
        BY DEF ReplayInv, RestingBid
      <3> HIDE DEF bid, d
      <3>2. Outlived(BidTtl(bid), Waiting, g, Len(bars) - d)
        BY <2>1, <3>1, ShippedIs
      <3>3. Waiting # Lapsed /\ \A e : ~FilledAt(Waiting, e)
        BY FilledIsNot DEF Waiting, Lapsed
      <3>4. g \in {Waiting, Lapsed}
        BY <3>2, <3>3, Zenon DEF Outlived
      <3> QED
        BY <2>4, <3>1, <3>4 DEF bid, d
    <2>7. position # None => ScoredAs(position.bid, position.decided, Ending(bars, position.entry, position.bid))
      BY <2>5 DEF ReplayInv, HeldBid
    <2>8. ASSUME NEW m \in 1..Len(trades), NEW t, t = trades[m]
          PROVE  ScoredAs(t.bid, t.decided, t.result)
      <3>1. SettledByTurn(bars, t) \/ SettledAtEnd(bars, t)
        BY <2>8 DEF ReplayInv
      <3>2. CASE SettledByTurn(bars, t)
        <4>1. PICK entry \in Nat, exit \in Nat, price \in Int, reason \in Reasons :
                /\ t.result = Closed(entry + t.decided, exit + t.decided, t.bid, price, reason)
                /\ Sim(bars, t.bid, t.decided) = ClosedWith(Closed(entry, exit, t.bid, price, reason))
          BY <3>2, Zenon DEF SettledByTurn
        <4>2. t.bid \in Bids /\ t.decided \in 1..Len(bars)
          BY <3>2 DEF SettledByTurn
        <4> DEFINE there == Closed(entry, exit, t.bid, price, reason)
        <4>3. there.entry = entry /\ t.result.entry = entry + t.decided
          BY <4>1 DEF Closed
        <4> HIDE DEF there
        <4>4. Sim(bars, t.bid, t.decided) = ClosedWith(there)
          BY <4>1 DEF there
        <4>5. FilledAt(Sim(bars, t.bid, t.decided), entry)
          BY <4>3, <4>4, Zenon DEF FilledAt
        <4>6. /\ entry <= BidTtl(t.bid)
              /\ entry <= ReplayTtl => Shipped(bars, t.bid, t.decided) = ClosedWith(there)
              /\ entry > ReplayTtl => Shipped(bars, t.bid, t.decided) = Lapsed
          BY <2>1, <4>2, <4>4, <4>5, FilledSeen
        <4>7. entry <= ReplayTtl => SameTrade(t.result, t.decided, Found(t.bid, t.decided))
          <5> SUFFICES ASSUME entry <= ReplayTtl PROVE SameTrade(t.result, t.decided, Found(t.bid, t.decided))
            OBVIOUS
          <5>1. Found(t.bid, t.decided) = there
            BY <2>4, <4>2, <4>6
          <5>2. entry \in Int /\ exit \in Int /\ t.decided \in Int
            BY <4>2
          <5> QED
            BY <4>1, <4>2, <5>1, <5>2, Shifted DEF there
        <4>8. entry > ReplayTtl => Found(t.bid, t.decided) = None
          BY <2>4, <4>2, <4>6
        <4>9. t.result.entry - t.decided = entry
          BY <4>2, <4>3
        <4> QED
          BY <4>6, <4>7, <4>8, <4>9, Zenon DEF ScoredAs, Found
      <3>3. CASE SettledAtEnd(bars, t)
        <4>1. PICK entry \in Nat : /\ entry > t.decided /\ t.result = Ending(bars, entry, t.bid)
                                   /\ Sim(bars, t.bid, t.decided) = OpenSince(entry - t.decided)
          BY <3>3, Zenon DEF SettledAtEnd
        <4>2. t.bid \in Bids /\ t.decided \in 1..Len(bars) /\ t.decided < Len(bars)
          BY <3>3 DEF SettledAtEnd
        <4> QED
          BY <2>5, <4>1, <4>2
      <3> QED
        BY <3>1, <3>2, <3>3
    <2> QED
      BY <2>1, <2>6, <2>7, <2>8, Zenon DEF ReplayFaithful, Found, Ending
  <1> QED
    BY <1>1, ReplayInvHolds, PTL

-----------------------------------------------------------------------------
(* Part 5.  The tiered exits.  The replay with the bracket and the one     *)
(* with the ladder fill the same bid on the same candle.  The sums over    *)
(* the tiers change at one tier, the one that is banked.                   *)

Legs == 1..Len(ExitConfig.size)

SoldOn(plan) == [t \in Legs |-> IF plan.filled[t] THEN plan.sold[t] ELSE 0]
GainOn(plan) == [t \in Legs |-> IF plan.filled[t] THEN ExitConfig.gain[t] * plan.sold[t] ELSE 0]

LEMMA ExitConstants ==
    /\ IsFiniteSet(Legs) /\ DOMAIN ExitConfig.gain = Legs /\ ExitConfig.breakeven \in Legs
    /\ \A t \in Legs : t \in Nat /\ ExitConfig.gain[t] \in Nat /\ ExitConfig.size[t] \in 1..100
    /\ ExitConfig.stop \in Nat /\ ExitConfig.lock \in Nat /\ ExitConfig.trail \in Nat
    /\ ExitConfig.breakeven \in Nat /\ ExitConfig.breakeven # 0
    /\ \A b \in Bids : b.price - ExitConfig.stop \in Nat
  <1>1. /\ ExitConfig \in [size : Seq(1..100), gain : Seq(Nat), stop : Nat,
                           breakeven : Nat \ {0}, lock : Nat, trail : Nat]
        /\ Len(ExitConfig.size) = Len(ExitConfig.gain) /\ ExitConfig.breakeven <= Len(ExitConfig.gain)
    BY BacktestAssumption DEF BacktestAssumption
  <1>2. /\ ExitConfig.size \in Seq(1..100) /\ ExitConfig.gain \in Seq(Nat) /\ ExitConfig.stop \in Nat
        /\ ExitConfig.breakeven \in Nat \ {0} /\ ExitConfig.lock \in Nat /\ ExitConfig.trail \in Nat
    BY <1>1
  <1>3. \A b \in Bids : ExitConfig.stop <= b.price
    BY BacktestAssumption DEF BacktestAssumption
  <1>4. Len(ExitConfig.size) \in Nat /\ DOMAIN ExitConfig.gain = Legs /\ ExitConfig.breakeven \in Legs
    BY <1>1, <1>2 DEF Legs
  <1>5. IsFiniteSet(Legs)
    BY <1>4, FS_Interval DEF Legs
  <1>6. \A t \in Legs : t \in Nat /\ ExitConfig.gain[t] \in Nat /\ ExitConfig.size[t] \in 1..100
    <2> DEFINE gain == ExitConfig.gain
               size == ExitConfig.size
    <2>1. gain \in Seq(Nat) /\ size \in Seq(1..100) /\ Len(size) = Len(gain)
      BY <1>1, <1>2
    <2> HIDE DEF gain, size
    <2>2. \A t \in 1..Len(gain) : gain[t] \in Nat
      BY <2>1
    <2>3. \A t \in 1..Len(size) : t \in Nat /\ size[t] \in 1..100
      <3> DEFINE P == 1..100
      <3>1. size \in Seq(P) /\ Len(size) \in Nat
        BY <2>1
      <3> HIDE DEF P
      <3>2. \A t \in 1..Len(size) : t \in Nat /\ size[t] \in P
        BY <3>1
      <3> QED
        BY <3>2 DEF P
    <2> QED
      BY <2>1, <2>2, <2>3 DEF Legs, gain, size
  <1>7. \A b \in Bids : b.price - ExitConfig.stop \in Nat
    BY <1>2, <1>3, BacktestConstants
  <1> QED
    BY <1>2, <1>4, <1>5, <1>6, <1>7

LEMMA SumChanges ==
    ASSUME NEW S, IsFiniteSet(S), NEW f, NEW g, NEW x \in S, \A i \in S : f[i] \in Int /\ g[i] \in Int,
           \A i \in S \ {x} : f[i] = g[i]
    PROVE  SumOf(g, S) = SumOf(f, S) - f[x] + g[x]
  <1> DEFINE R == S \ {x}
  <1>1. IsFiniteSet(R) /\ x \notin R /\ R \cup {x} = S /\ \A i \in R : f[i] \in Int /\ g[i] \in Int /\ f[i] = g[i]
    BY FS_Subset
  <1> HIDE DEF R
  <1>2. SumOf(f, R \cup {x}) = SumOf(f, R) + f[x] /\ SumOf(g, R \cup {x}) = SumOf(g, R) + g[x]
    BY <1>1, SumAdd
  <1>3. SumOf(f, R) = SumOf(g, R) /\ SumOf(f, R) \in Int
    BY <1>1, SumSame, SumInt
  <1>4. SumOf(f, S) = SumOf(f, R) + f[x] /\ SumOf(g, S) = SumOf(g, R) + g[x]
    BY <1>1, <1>2, Zenon
  <1> QED
    BY <1>3, <1>4

AddingSold(g, plan, S) ==
    [s \in SUBSET S |-> IF s = {} THEN 0
                        ELSE LET x == CHOOSE y \in s : TRUE
                             IN  (IF plan.filled[x] THEN plan.sold[x] ELSE 0) + g[s \ {x}]]
AddingGains(g, plan, S) ==
    [s \in SUBSET S |-> IF s = {} THEN 0
                        ELSE LET x == CHOOSE y \in s : TRUE
                             IN  (IF plan.filled[x] THEN ExitConfig.gain[x] * plan.sold[x] ELSE 0) + g[s \ {x}]]

LEMMA RemainingUnfolds ==
    ASSUME NEW bid, NEW plan
    PROVE  \E h : /\ Rungs(bid)!RemainingQuantity(plan, BidLots) = BidLots - h[Legs]
                  /\ (\E g : g = AddingSold(g, plan, Legs)) => h = AddingSold(h, plan, Legs)
  <1> DEFINE h == CHOOSE g : g = AddingSold(g, plan, Legs)
  <1>1. Rungs(bid)!RemainingQuantity(plan, BidLots) = BidLots - h[Legs]
    BY Zenon DEF Rungs!RemainingQuantity, Rungs!Tiers, Rungs!MapThenSumSet, Rungs!MapThenFoldSet,
                 Legs, AddingSold
  <1>2. (\E g : g = AddingSold(g, plan, Legs)) => h = AddingSold(h, plan, Legs)
    BY Zenon
  <1> QED
    BY <1>1, <1>2, Zenon

LEMMA GrossUnfolds ==
    ASSUME NEW plan, DOMAIN ExitConfig.gain = Legs
    PROVE  \E h : /\ BankedGross(plan) = 100 * h[Legs]
                  /\ (\E g : g = AddingGains(g, plan, Legs)) => h = AddingGains(h, plan, Legs)
  <1> DEFINE h == CHOOSE g : g = AddingGains(g, plan, Legs)
  <1>1. BankedGross(plan) = 100 * h[Legs]
    BY Zenon DEF BankedGross, MapThenSumSet, MapThenFoldSet, AddingGains
  <1>2. (\E g : g = AddingGains(g, plan, Legs)) => h = AddingGains(h, plan, Legs)
    BY Zenon
  <1> QED
    BY <1>1, <1>2, Zenon

LEMMA RemainingIs ==
    ASSUME NEW bid, NEW plan
    PROVE  Rungs(bid)!RemainingQuantity(plan, BidLots) = BidLots - SumOf(SoldOn(plan), Legs)
  <1> DEFINE f == SoldOn(plan)
  <1>1. ASSUME NEW g PROVE AddingSold(g, plan, Legs) = Adding(g, f, Legs)
    BY DEF AddingSold, Adding, SoldOn
  <1> HIDE DEF f
  <1>2. PICK i : i = Adding(i, f, Legs)
    BY ExitConstants, SumExists DEF SumsOver
  <1>3. PICK h : /\ Rungs(bid)!RemainingQuantity(plan, BidLots) = BidLots - h[Legs]
                 /\ (\E g : g = AddingSold(g, plan, Legs)) => h = AddingSold(h, plan, Legs)
    BY RemainingUnfolds
  <1>4. SumsOver(h, f, Legs)
    BY <1>1, <1>2, <1>3 DEF SumsOver
  <1>5. SumOf(f, Legs) = h[Legs]
    BY <1>4, ExitConstants, SumIs
  <1> QED
    BY <1>3, <1>5 DEF f

LEMMA BankedGrossIs ==
    ASSUME NEW plan
    PROVE  BankedGross(plan) = 100 * SumOf(GainOn(plan), Legs)
  <1> DEFINE f == GainOn(plan)
  <1>1. ASSUME NEW g PROVE AddingGains(g, plan, Legs) = Adding(g, f, Legs)
    BY DEF AddingGains, Adding, GainOn
  <1> HIDE DEF f
  <1>2. PICK i : i = Adding(i, f, Legs)
    BY ExitConstants, SumExists DEF SumsOver
  <1>3. PICK h : /\ BankedGross(plan) = 100 * h[Legs]
                 /\ (\E g : g = AddingGains(g, plan, Legs)) => h = AddingGains(h, plan, Legs)
    BY GrossUnfolds, ExitConstants
  <1>4. SumsOver(h, f, Legs)
    BY <1>1, <1>2, <1>3 DEF SumsOver
  <1>5. SumOf(f, Legs) = h[Legs]
    BY <1>4, ExitConstants, SumIs
  <1> QED
    BY <1>3, <1>5 DEF f

\* The operators of the ladder, over the legs of the configuration.
EmptyPlan(bid) ==
    [stop |-> bid.price - ExitConfig.stop, high |-> bid.price,
     filled |-> [t \in Legs |-> FALSE], sold |-> [t \in Legs |-> 0],
     xid |-> [t \in Legs |-> 0], cid |-> [t \in Legs |-> FALSE]]

LegPlans == [stop : Nat, high : Nat, filled : [Legs -> BOOLEAN], sold : [Legs -> Nat],
             xid : [Legs -> Nat], cid : [Legs -> BOOLEAN]]

FilledPlan(plan, t, lots, stop) ==
    [plan EXCEPT !.filled[t] = TRUE, !.sold[t] = lots, !.stop = stop]

LEMMA LadderIs ==
    ASSUME NEW bid \in Bids
    PROVE  /\ Rungs(bid)!Plans = LegPlans /\ Rungs(bid)!FreshPlan = EmptyPlan(bid)
           /\ EmptyPlan(bid) \in LegPlans
           /\ \A t : Rungs(bid)!TierQuantity(t, BidLots) = (BidLots * ExitConfig.size[t]) \div 100
  <1>1. Rungs(bid)!Plans = LegPlans
    BY DEF Rungs!Plans, Rungs!Tiers, Legs, LegPlans
  <1>2. Rungs(bid)!FreshPlan = EmptyPlan(bid)
    BY DEF Rungs!FreshPlan, Rungs!Tiers, Legs, EmptyPlan
  <1>3. bid.price \in Nat /\ bid.price - ExitConfig.stop \in Nat
    BY BacktestConstants, ExitConstants
  <1>4. EmptyPlan(bid) \in LegPlans
    BY <1>3 DEF EmptyPlan, LegPlans
  <1>5. \A t : Rungs(bid)!TierQuantity(t, BidLots) = (BidLots * ExitConfig.size[t]) \div 100
    BY DEF Rungs!TierQuantity
  <1> QED
    BY <1>1, <1>2, <1>4, <1>5

Raised(plan, new) ==
    \E stop \in Nat, high \in Nat :
        stop >= plan.stop /\ new = [plan EXCEPT !.high = high, !.stop = stop]

LEMMA TrailedIs ==
    ASSUME NEW bid \in Bids, NEW plan \in LegPlans, NEW mark \in Nat
    PROVE  Raised(plan, Rungs(bid)!Trailed(plan, mark))
  <1> DEFINE high == Rungs(bid)!Higher(plan.high, mark)
             trails == /\ Rungs(bid)!RunnerActive(plan) /\ ExitConfig.trail > 0
                       /\ high >= ExitConfig.trail
             stop == IF trails THEN Rungs(bid)!Higher(plan.stop, high - ExitConfig.trail) ELSE plan.stop
  <1>1. Rungs(bid)!Trailed(plan, mark) = [plan EXCEPT !.high = high, !.stop = stop]
    BY Zenon DEF Rungs!Trailed
  <1>2. plan.stop \in Nat /\ plan.high \in Nat /\ ExitConfig.trail \in Nat
    BY ExitConstants DEF LegPlans
  <1>3. high \in Nat
    BY <1>2 DEF Rungs!Higher
  <1>4. stop \in Nat /\ stop >= plan.stop
    <2> HIDE DEF high
    <2>1. CASE trails
      BY <1>2, <1>3, <2>1 DEF Rungs!Higher
    <2>2. CASE ~trails
      <3>1. stop = plan.stop
        BY <2>2, Zenon
      <3> QED
        BY <1>2, <3>1
    <2> QED
      BY <2>1, <2>2
  <1> HIDE DEF high, stop
  <1> QED
    BY <1>1, <1>3, <1>4, Zenon DEF Raised

\* The floor of the tier that moves the stop to breakeven is the entry price.
LEMMA FilledIs ==
    ASSUME NEW bid \in Bids, NEW plan \in LegPlans, NEW t \in Legs, ~plan.filled[t], NEW lots
    PROVE  \E stop \in Nat :
             /\ stop >= plan.stop
             /\ t = ExitConfig.breakeven => stop >= bid.price
             /\ Rungs(bid)!TierFilled(plan, t, lots) = FilledPlan(plan, t, lots, stop)
  <1> DEFINE even == IF t = ExitConfig.breakeven THEN bid.price ELSE 0
             lock == IF ExitConfig.lock = 0 \/ t < ExitConfig.lock THEN 0
                     ELSE IF t = 1 THEN bid.price ELSE bid.price + ExitConfig.gain[t - 1]
             stop == Rungs(bid)!Higher(plan.stop, Rungs(bid)!Higher(even, lock))
  <1>1. plan.stop \in Nat /\ bid.price \in Nat /\ t \in Nat /\ ExitConfig.lock \in Nat
    BY BacktestConstants, ExitConstants DEF LegPlans
  <1>2. t # 1 => t - 1 \in Legs
    BY DEF Legs
  <1>3. t # 1 => ExitConfig.gain[t - 1] \in Nat
    BY <1>2, ExitConstants
  <1>4. even \in Nat /\ lock \in Nat /\ (t = ExitConfig.breakeven => even = bid.price)
    BY <1>1, <1>3
  <1>5. Rungs(bid)!RatchetTo(t) = Rungs(bid)!Higher(even, lock)
    <2>1. t # 1 => [i \in DOMAIN ExitConfig.gain |-> bid.price + ExitConfig.gain[i]][t - 1]
                     = bid.price + ExitConfig.gain[t - 1]
      BY <1>2, ExitConstants
    <2> QED
      BY <2>1, Zenon DEF Rungs!RatchetTo
  <1> HIDE DEF even, lock
  <1>6. Rungs(bid)!TierFilled(plan, t, lots) = FilledPlan(plan, t, lots, stop)
    BY <1>5, Zenon DEF Rungs!TierFilled, FilledPlan
  <1>7. stop \in Nat /\ stop >= plan.stop /\ (t = ExitConfig.breakeven => stop >= bid.price)
    BY <1>1, <1>4 DEF Rungs!Higher
  <1> HIDE DEF stop
  <1> QED
    BY <1>6, <1>7

LEMMA FilledFields ==
    ASSUME NEW plan \in LegPlans, NEW t \in Legs, NEW lots \in Nat, NEW stop \in Nat,
           NEW new, new = FilledPlan(plan, t, lots, stop)
    PROVE  /\ new \in LegPlans /\ new.stop = stop
           /\ new.filled = [plan.filled EXCEPT ![t] = TRUE] /\ new.sold = [plan.sold EXCEPT ![t] = lots]
  <1> DEFINE p == [plan EXCEPT !.filled[t] = TRUE]
             q == [p EXCEPT !.sold[t] = lots]
  <1>1. new = [q EXCEPT !.stop = stop]
    BY DEF FilledPlan, LegPlans
  <1>2. /\ p \in LegPlans /\ p.filled = [plan.filled EXCEPT ![t] = TRUE] /\ p.sold = plan.sold
    BY DEF LegPlans
  <1> HIDE DEF p
  <1>3. q \in LegPlans /\ q.filled = p.filled /\ q.sold = [p.sold EXCEPT ![t] = lots]
    BY <1>2 DEF LegPlans
  <1> HIDE DEF q
  <1> QED
    BY <1>1, <1>2, <1>3 DEF LegPlans

\* What the tiers have sold and earned, when one more is banked.
LEMMA PlanSums ==
    ASSUME NEW plan \in LegPlans
    PROVE  /\ SumOf(SoldOn(plan), Legs) \in Nat /\ SumOf(GainOn(plan), Legs) \in Nat
           /\ \A t \in Legs : SoldOn(plan)[t] \in Nat /\ GainOn(plan)[t] \in Nat
  <1>1. ASSUME NEW t \in Legs PROVE SoldOn(plan)[t] \in Nat /\ GainOn(plan)[t] \in Nat
    <2>1. plan.sold[t] \in Nat /\ ExitConfig.gain[t] \in Nat
      BY ExitConstants DEF LegPlans
    <2>2. ExitConfig.gain[t] * plan.sold[t] \in Nat
      BY <2>1
    <2> QED
      BY <2>1, <2>2 DEF SoldOn, GainOn
  <1> QED
    BY <1>1, ExitConstants, SumNat

LEMMA FilledSums ==
    ASSUME NEW plan \in LegPlans, NEW new \in LegPlans, NEW t \in Legs, ~plan.filled[t], NEW lots \in Nat,
           new.filled = [plan.filled EXCEPT ![t] = TRUE], new.sold = [plan.sold EXCEPT ![t] = lots]
    PROVE  /\ SumOf(SoldOn(new), Legs) = SumOf(SoldOn(plan), Legs) + lots
           /\ SumOf(GainOn(new), Legs) = SumOf(GainOn(plan), Legs) + ExitConfig.gain[t] * lots
  <1> DEFINE s == SoldOn(plan)
             r == SoldOn(new)
             f == GainOn(plan)
             g == GainOn(new)
  <1>1. /\ new.filled[t] /\ new.sold[t] = lots
        /\ \A i \in Legs \ {t} : new.filled[i] = plan.filled[i] /\ new.sold[i] = plan.sold[i]
    BY DEF LegPlans
  <1>2. s[t] = 0 /\ r[t] = lots /\ f[t] = 0 /\ g[t] = ExitConfig.gain[t] * lots
    BY <1>1 DEF SoldOn, GainOn
  <1>3. \A i \in Legs \ {t} : s[i] = r[i] /\ f[i] = g[i]
    BY <1>1 DEF SoldOn, GainOn
  <1>4. \A i \in Legs : s[i] \in Nat /\ r[i] \in Nat /\ f[i] \in Nat /\ g[i] \in Nat
    BY PlanSums
  <1>5. SumOf(s, Legs) \in Nat /\ SumOf(f, Legs) \in Nat
    BY PlanSums
  <1> HIDE DEF s, r, f, g
  <1>0. \A i \in Legs : s[i] \in Int /\ r[i] \in Int /\ f[i] \in Int /\ g[i] \in Int
    BY <1>4
  <1>10. IsFiniteSet(Legs)
    BY ExitConstants
  <1>6. SumOf(r, Legs) = SumOf(s, Legs) - s[t] + r[t]
    BY <1>3, <1>0, <1>10, SumChanges
  <1>7. SumOf(g, Legs) = SumOf(f, Legs) - f[t] + g[t]
    BY <1>3, <1>0, <1>10, SumChanges
  <1>8. SumOf(r, Legs) = SumOf(s, Legs) + lots
    BY <1>2, <1>5, <1>6
  <1>9. SumOf(g, Legs) = SumOf(f, Legs) + ExitConfig.gain[t] * lots
    <2>1. g[t] \in Nat
      BY <1>4
    <2> QED
      BY <1>2, <1>5, <1>7, <2>1
  <1> QED
    BY <1>8, <1>9 DEF s, r, f, g

LEMMA LeastTouched ==
    ASSUME NEW S \in SUBSET Legs, S # {}
    PROVE  Min(S) \in S
  <1>1. S \subseteq Nat
    BY ExitConstants
  <1>2. PICK x \in S : \A m \in S : ~ (<<m, x>> \in OpToRel(<, Nat))
    BY <1>1, WFMin, NatLessThanWellFounded
  <1>3. \A y \in S : x <= y
    <2> TAKE y \in S
    <2>1. x \in Nat /\ y \in Nat /\ ~(y < x)
      BY <1>1, <1>2 DEF OpToRel
    <2> QED
      BY <2>1
  <1> QED
    BY <1>3 DEF Min

\* The plan after a candle that does not touch the stop: one tier more at most.
Grown(bid, plan, new, t, lots) ==
    /\ ~plan.filled[t] /\ new.filled = [plan.filled EXCEPT ![t] = TRUE]
    /\ new.sold = [plan.sold EXCEPT ![t] = lots]
    /\ t = ExitConfig.breakeven => new.stop >= bid.price

Climbs(bid, plan, bar) ==
    LET banked == Banked(bid, plan, bar)
        new == Rungs(bid)!Trailed(banked, bar.high)
    IN  /\ new \in LegPlans /\ new.stop >= plan.stop
        /\ \/ banked = plan /\ new.filled = plan.filled /\ new.sold = plan.sold
           \/ \E t \in Legs, lots \in Nat :
                t = Min(Touched(bid, plan, bar)) /\ banked # plan /\ Grown(bid, plan, new, t, lots)

LEMMA CandleClimbs ==
    ASSUME NEW bid \in Bids, NEW plan \in LegPlans, NEW bar \in Bars
    PROVE  Climbs(bid, plan, bar)
  <1> DEFINE touched == Touched(bid, plan, bar)
             banked == Banked(bid, plan, bar)
             new == Rungs(bid)!Trailed(banked, bar.high)
             t == Min(touched)
             lots == Rungs(bid)!TierQuantity(t, BidLots)
  <1>1. bar.high \in Nat
    BY BacktestConstants
  <1>2. ASSUME banked \in LegPlans
        PROVE  /\ new \in LegPlans /\ new.stop >= banked.stop
               /\ new.filled = banked.filled /\ new.sold = banked.sold
    <2> HIDE DEF banked
    <2>1. PICK stop \in Nat, high \in Nat :
            stop >= banked.stop /\ new = [banked EXCEPT !.high = high, !.stop = stop]
      <3>1. Raised(banked, new)
        BY <1>1, <1>2, TrailedIs
      <3> HIDE DEF new
      <3> QED
        BY <3>1, Zenon DEF Raised
    <2> DEFINE p == [banked EXCEPT !.high = high]
    <2>2. new = [p EXCEPT !.stop = stop]
      BY <2>1
    <2>3. p \in LegPlans /\ p.filled = banked.filled /\ p.sold = banked.sold
      BY <1>2 DEF LegPlans
    <2> HIDE DEF p, new
    <2> QED
      BY <2>1, <2>2, <2>3 DEF LegPlans
  <1>3. CASE touched = {}
    <2>1. banked = plan
      BY <1>3 DEF Banked
    <2> HIDE DEF banked
    <2>2. new \in LegPlans /\ new.stop >= plan.stop /\ new.filled = plan.filled /\ new.sold = plan.sold
      BY <1>2, <2>1
    <2> QED
      BY <2>1, <2>2, Zenon DEF Climbs, banked
  <1>4. CASE touched # {}
    <2>1. touched \subseteq Legs /\ \A i \in touched : ~plan.filled[i]
      BY ExitConstants DEF Touched
    <2>2. t \in touched
      <3> HIDE DEF touched
      <3> QED
        BY <1>4, <2>1, LeastTouched
    <2>3. t \in Legs /\ ~plan.filled[t] /\ banked = Rungs(bid)!TierFilled(plan, t, lots)
      BY <1>4, <2>1, <2>2 DEF Banked
    <2>4. lots \in Nat
      <3>1. lots = (BidLots * ExitConfig.size[t]) \div 100
        BY LadderIs
      <3>2. BidLots \in Nat /\ ExitConfig.size[t] \in Nat
        BY <2>3, ExitConstants, BacktestConstants
      <3>3. BidLots * ExitConfig.size[t] \in Nat
        BY <3>2
      <3> HIDE DEF lots
      <3> QED
        BY <3>1, <3>3
    <2> HIDE DEF t, lots, banked, touched
    <2>5. PICK stop \in Nat :
            /\ stop >= plan.stop /\ (t = ExitConfig.breakeven => stop >= bid.price)
            /\ banked = FilledPlan(plan, t, lots, stop)
      BY <2>3, FilledIs
    <2>6. /\ banked \in LegPlans /\ banked.stop = stop
          /\ banked.filled = [plan.filled EXCEPT ![t] = TRUE] /\ banked.sold = [plan.sold EXCEPT ![t] = lots]
      BY <2>3, <2>4, <2>5, FilledFields
    <2>7. banked # plan
      BY <2>3, <2>6 DEF LegPlans
    <2>8. /\ new \in LegPlans /\ new.stop >= stop
          /\ new.filled = banked.filled /\ new.sold = banked.sold
      BY <1>2, <2>6
    <2> HIDE DEF new
    <2>9. new.stop \in Nat /\ plan.stop \in Nat /\ bid.price \in Nat
      BY <2>8, BacktestConstants DEF LegPlans
    <2>10. new.stop >= plan.stop /\ (t = ExitConfig.breakeven => new.stop >= bid.price)
      BY <2>5, <2>8, <2>9
    <2>11. Grown(bid, plan, new, t, lots)
      BY <2>3, <2>6, <2>8, <2>10 DEF Grown
    <2> QED
      BY <2>3, <2>4, <2>7, <2>8, <2>10, <2>11, Zenon DEF Climbs, new, banked, t, touched
  <1> QED
    BY <1>3, <1>4

LadderRecords == [at : {"open", "closed"}, entry : Nat, plan : LegPlans, gross : Int, fees : Int,
                  reason : {"none", "STOP", "TAKE_PROFIT_ALL", "END_OF_DATA"}]

LeftOf(plan) == BidLots - SumOf(SoldOn(plan), Legs)

\* A filled bid on the ladder: what its tiers have earned is booked, and what
\* they have earned is kept once the stop has moved to breakeven.
Climbing(bid, s, e) ==
    /\ s \in LadderRecords /\ s.entry = e
    /\ s.at = "open" =>
         /\ LeftOf(s.plan) > 0 /\ s.gross = 100 * SumOf(GainOn(s.plan), Legs)
         /\ s.plan.filled[ExitConfig.breakeven] => s.plan.stop >= bid.price
    /\ s.at = "closed" => s.reason # "none"
    /\ s.at = "closed" /\ s.reason = "STOP" /\ s.plan.filled[ExitConfig.breakeven] =>
         s.gross >= 100 * SumOf(GainOn(s.plan), Legs) - 100 * Slip * BidLots

LEMMA SettlesIs ==
    ASSUME NEW bid \in Bids, NEW s \in LadderRecords, NEW price \in Int, NEW lots \in Int,
           NEW r, r = Settles(bid, s, price, lots)
    PROVE  /\ r \in LadderRecords /\ r.at = s.at /\ r.entry = s.entry /\ r.plan = s.plan
           /\ r.reason = s.reason /\ r.gross = s.gross + 100 * (price - bid.price) * lots
  <1> DEFINE won == s.gross + 100 * (price - bid.price) * lots
             paid == s.fees + FeeOf(price, lots)
             q == [s EXCEPT !.gross = won]
  <1>1. bid.price \in Int /\ FeePct \in Int /\ s.gross \in Int /\ s.fees \in Int
    BY BacktestConstants DEF LadderRecords
  <1>2. (100 * (price - bid.price)) * lots \in Int /\ price * lots \in Int
    BY <1>1
  <1>3. (price * lots) * FeePct \in Int
    BY <1>1, <1>2
  <1>4. won \in Int /\ paid \in Int
    BY <1>1, <1>2, <1>3 DEF FeeOf
  <1>5. r = [q EXCEPT !.fees = paid]
    BY DEF Settles, LadderRecords
  <1> HIDE DEF paid
  <1>6. won = s.gross + 100 * (price - bid.price) * lots
    OBVIOUS
  <1> HIDE DEF won
  <1>7. /\ q \in LadderRecords /\ q.at = s.at /\ q.entry = s.entry /\ q.plan = s.plan
        /\ q.reason = s.reason /\ q.gross = won
    BY <1>4 DEF LadderRecords
  <1> HIDE DEF q
  <1>8. /\ r \in LadderRecords /\ r.at = q.at /\ r.entry = q.entry /\ r.plan = q.plan
        /\ r.reason = q.reason /\ r.gross = q.gross
    BY <1>4, <1>5, <1>7 DEF LadderRecords
  <1> QED
    BY <1>6, <1>7, <1>8

\* The step of the ladder from each simulation that can come.
Opened(bid, i) == [at |-> "open", entry |-> i, plan |-> EmptyPlan(bid), gross |-> 0,
                   fees |-> FeeOf(bid.price, BidLots), reason |-> "none"]

Unsold(bid, plan) == Rungs(bid)!RemainingQuantity(plan, BidLots)
PlanNow(bid, plan, bar) == Rungs(bid)!Trailed(Banked(bid, plan, bar), bar.high)

SoldNow(bid, s, bar) ==
    IF Banked(bid, s.plan, bar) = s.plan THEN s
    ELSE Settles(bid, s, bid.price + ExitConfig.gain[Min(Touched(bid, s.plan, bar))],
                 Unsold(bid, s.plan) - Unsold(bid, PlanNow(bid, s.plan, bar)))

StoppedNow(bid, s) ==
    [Settles(bid, s, StopFill(bid, s.plan), Unsold(bid, s.plan)) EXCEPT !.at = "closed", !.reason = "STOP"]

RungCases(bid, ttl, bar, s, i, next) ==
    /\ s = Waiting /\ i <= ttl /\ ~FillsOn(bid, bar) => next = Waiting
    /\ s = Waiting /\ i <= ttl /\ FillsOn(bid, bar) => next = Opened(bid, i)
    /\ s = Waiting /\ i > ttl => next = Lapsed
    /\ s = Lapsed => next = Lapsed
    /\ s \in LadderRecords /\ s.at = "closed" => next = s
    /\ s \in LadderRecords /\ s.at = "open" =>
         \/ next = StoppedNow(bid, s)
         \/ next = [SoldNow(bid, s, bar) EXCEPT !.at = "closed", !.plan = PlanNow(bid, s.plan, bar),
                                                !.reason = "TAKE_PROFIT_ALL"]
         \/ /\ Unsold(bid, PlanNow(bid, s.plan, bar)) > 0
            /\ next = [SoldNow(bid, s, bar) EXCEPT !.plan = PlanNow(bid, s.plan, bar)]
         \/ next = s

LEMMA RungSteps ==
    ASSUME NEW bid \in Bids, NEW ttl \in Nat, NEW window, NEW s, NEW i \in Nat
    PROVE  RungCases(bid, ttl, window[i], s, i, LadderStep(bid, ttl, window, s, i))
  <1> DEFINE bar == window[i]
             next == LadderStep(bid, ttl, window, s, i)
             filling == FillsOn(bid, bar)
             low == bar.low <= s.plan.stop
             high == bar.low > s.plan.stop
             none == Unsold(bid, PlanNow(bid, s.plan, bar)) = 0
             some == Unsold(bid, PlanNow(bid, s.plan, bar)) > 0
             emptied == [SoldNow(bid, s, bar) EXCEPT !.at = "closed", !.plan = PlanNow(bid, s.plan, bar),
                                                     !.reason = "TAKE_PROFIT_ALL"]
             kept == [SoldNow(bid, s, bar) EXCEPT !.plan = PlanNow(bid, s.plan, bar)]
  <1>1. Rungs(bid)!FreshPlan = EmptyPlan(bid)
    BY LadderIs
  <1>2. next = CASE s.at = "waiting" /\ i > ttl -> [at |-> "lapsed"]
                 [] s.at = "waiting" /\ i <= ttl /\ filling ->
                       [at |-> "open", entry |-> i, plan |-> Rungs(bid)!FreshPlan, gross |-> 0,
                        fees |-> FeeOf(bid.price, BidLots), reason |-> "none"]
                 [] s.at = "open" /\ low -> StoppedNow(bid, s)
                 [] s.at = "open" /\ high /\ none -> emptied
                 [] s.at = "open" /\ high /\ some -> kept
                 [] OTHER -> s
    BY Zenon DEF LadderStep, StoppedNow, SoldNow, PlanNow, Unsold
  <1>3. next = CASE s.at = "waiting" /\ i > ttl -> Lapsed
                 [] s.at = "waiting" /\ i <= ttl /\ filling -> Opened(bid, i)
                 [] s.at = "open" /\ low -> StoppedNow(bid, s)
                 [] s.at = "open" /\ high /\ none -> emptied
                 [] s.at = "open" /\ high /\ some -> kept
                 [] OTHER -> s
    BY <1>1, <1>2, Zenon DEF Lapsed, Opened
  <1> HIDE DEF next, filling, low, high, none, emptied, kept
  <1>4. i <= ttl => ~(i > ttl)
    OBVIOUS
  <1>5. s = Waiting => s.at = "waiting"
    BY DEF Waiting
  <1>6. s = Lapsed => s.at = "lapsed"
    BY DEF Lapsed
  <1> HIDE DEF some
  <1>7. /\ s = Waiting /\ i <= ttl /\ ~filling => next = Waiting
        /\ s = Waiting /\ i <= ttl /\ filling => next = Opened(bid, i)
        /\ s = Waiting /\ i > ttl => next = Lapsed
        /\ s = Lapsed => next = Lapsed
    BY <1>3, <1>4, <1>5, <1>6
  <1>8. s.at = "closed" => next = s
    BY <1>3
  <1>9. s.at = "open" => next = StoppedNow(bid, s) \/ next = emptied \/ (some /\ next = kept) \/ next = s
    BY <1>3
  <1> QED
    BY <1>7, <1>8, <1>9, Zenon DEF RungCases, next, filling, some, emptied, kept

\* A candle above the stop: what is booked is what the tiers have earned.
LEMMA SoldNowIs ==
    ASSUME NEW bid \in Bids, NEW s \in LadderRecords, NEW bar \in Bars,
           NEW new, new = PlanNow(bid, s.plan, bar), NEW r, r = SoldNow(bid, s, bar)
    PROVE  /\ new \in LegPlans /\ r \in LadderRecords /\ r.at = s.at /\ r.entry = s.entry
           /\ s.gross = 100 * SumOf(GainOn(s.plan), Legs) => r.gross = 100 * SumOf(GainOn(new), Legs)
           /\ (s.plan.filled[ExitConfig.breakeven] => s.plan.stop >= bid.price)
                => (new.filled[ExitConfig.breakeven] => new.stop >= bid.price)
  <1> DEFINE plan == s.plan
             banked == Banked(bid, plan, bar)
             be == ExitConfig.breakeven
  <1>1. plan \in LegPlans /\ s.gross \in Int /\ bid.price \in Nat /\ plan.stop \in Nat /\ be \in Legs
    BY BacktestConstants, ExitConstants DEF LadderRecords, LegPlans
  <1>2. Climbs(bid, plan, bar)
    BY <1>1, CandleClimbs
  <1>3. /\ new \in LegPlans /\ new.stop >= plan.stop
        /\ \/ banked = plan /\ new.filled = plan.filled /\ new.sold = plan.sold
           \/ \E t \in Legs, lots \in Nat :
                t = Min(Touched(bid, plan, bar)) /\ banked # plan /\ Grown(bid, plan, new, t, lots)
    BY <1>2, Zenon DEF Climbs, PlanNow
  <1>4. new.stop \in Nat
    BY <1>3 DEF LegPlans
  <1>5. CASE banked = plan /\ new.filled = plan.filled /\ new.sold = plan.sold
    <2>1. r = s
      BY <1>5 DEF SoldNow
    <2>2. GainOn(new) = GainOn(plan)
      BY <1>5 DEF GainOn
    <2> HIDE DEF banked, be
    <2>3. new.filled[be] => plan.filled[be]
      BY <1>5
    <2>4. (plan.filled[be] => plan.stop >= bid.price) => (new.filled[be] => new.stop >= bid.price)
      BY <1>1, <1>3, <1>4, <2>3
    <2> QED
      BY <1>3, <2>1, <2>2, <2>4 DEF be
  <1>6. ASSUME NEW t \in Legs, NEW lots \in Nat,
               t = Min(Touched(bid, plan, bar)), banked # plan, Grown(bid, plan, new, t, lots)
        PROVE  /\ r \in LadderRecords /\ r.at = s.at /\ r.entry = s.entry
               /\ s.gross = 100 * SumOf(GainOn(plan), Legs) => r.gross = 100 * SumOf(GainOn(new), Legs)
               /\ (plan.filled[be] => plan.stop >= bid.price)
                    => (new.filled[be] => new.stop >= bid.price)
    <2>1. /\ ~plan.filled[t] /\ new.filled = [plan.filled EXCEPT ![t] = TRUE]
          /\ new.sold = [plan.sold EXCEPT ![t] = lots] /\ (t = be => new.stop >= bid.price)
      BY <1>6, Zenon DEF Grown
    <2>2. /\ SumOf(SoldOn(new), Legs) = SumOf(SoldOn(plan), Legs) + lots
          /\ SumOf(GainOn(new), Legs) = SumOf(GainOn(plan), Legs) + ExitConfig.gain[t] * lots
      <3>1. ~plan.filled[t] /\ plan \in LegPlans /\ new \in LegPlans
        BY <1>1, <1>3, <2>1
      <3> HIDE DEF plan
      <3> QED
        BY <2>1, <3>1, FilledSums
    <2>3. /\ SumOf(SoldOn(plan), Legs) \in Nat /\ SumOf(GainOn(plan), Legs) \in Nat
          /\ ExitConfig.gain[t] \in Nat /\ BidLots \in Nat
      BY <1>1, PlanSums, ExitConstants, BacktestConstants
    <2>4. Unsold(bid, plan) - Unsold(bid, new) = lots
      <3>1. /\ Unsold(bid, plan) = BidLots - SumOf(SoldOn(plan), Legs)
            /\ Unsold(bid, new) = BidLots - SumOf(SoldOn(new), Legs)
        BY RemainingIs DEF Unsold
      <3> QED
        BY <2>2, <2>3, <3>1
    <2> DEFINE price == bid.price + ExitConfig.gain[t]
    <2>5. r = Settles(bid, s, price, lots)
      BY <1>6, <2>4, Zenon DEF SoldNow
    <2>6. price \in Int /\ price - bid.price = ExitConfig.gain[t]
      BY <1>1, <2>3
    <2> HIDE DEF price
    <2>7. /\ r \in LadderRecords /\ r.at = s.at /\ r.entry = s.entry
          /\ r.gross = s.gross + 100 * (price - bid.price) * lots
      <3>1. lots \in Int
        OBVIOUS
      <3> QED
        BY <2>5, <2>6, <3>1, SettlesIs
    <2>8. s.gross = 100 * SumOf(GainOn(plan), Legs) => r.gross = 100 * SumOf(GainOn(new), Legs)
      <3> DEFINE gain == ExitConfig.gain[t]
                 sum == SumOf(GainOn(plan), Legs)
      <3>1. gain \in Nat /\ sum \in Nat /\ SumOf(GainOn(new), Legs) = sum + gain * lots
        BY <2>2, <2>3
      <3>2. r.gross = s.gross + 100 * gain * lots
        BY <2>6, <2>7
      <3> HIDE DEF gain, sum
      <3>3. gain * lots \in Nat /\ 100 * gain * lots = 100 * (gain * lots)
        BY <3>1
      <3>4. s.gross = 100 * sum => r.gross = 100 * SumOf(GainOn(new), Legs)
        BY <3>1, <3>2, <3>3
      <3> QED
        BY <3>4 DEF sum
    <2>9. new.filled[be] /\ t # be => plan.filled[be]
      BY <1>1, <2>1 DEF LegPlans
    <2> HIDE DEF be
    <2>10. (plan.filled[be] => plan.stop >= bid.price) => (new.filled[be] => new.stop >= bid.price)
      BY <1>1, <1>3, <1>4, <2>1, <2>9
    <2> QED
      BY <2>7, <2>8, <2>10
  <1> QED
    BY <1>3, <1>5, <1>6

LEMMA StopTakes ==
    ASSUME NEW d \in Nat, NEW slip \in Nat, NEW lots \in Nat, NEW all \in Nat, lots <= all,
           NEW won \in Int
    PROVE  won + 100 * (d - slip) * lots >= won - 100 * slip * all
  <1>1. d * lots \in Nat /\ slip * lots \in Nat /\ slip * all \in Nat
    OBVIOUS
  <1>2. slip * lots <= slip * all
    <2>1. all - lots \in Nat /\ slip * (all - lots) \in Nat
      OBVIOUS
    <2>2. slip * (all - lots) = slip * all - slip * lots
      OBVIOUS
    <2> QED
      BY <1>1, <2>1, <2>2
  <1>3. 100 * (d - slip) * lots = 100 * (d * lots) - 100 * (slip * lots)
    OBVIOUS
  <1>4. 100 * slip * all = 100 * (slip * all)
    OBVIOUS
  <1> QED
    BY <1>1, <1>2, <1>3, <1>4

LEMMA OpenedClimbs ==
    ASSUME NEW bid \in Bids, NEW i \in Nat
    PROVE  Climbing(bid, Opened(bid, i), i)
  <1> DEFINE plan == EmptyPlan(bid)
             s == Opened(bid, i)
  <1>1. plan \in LegPlans /\ \A t \in Legs : ~plan.filled[t]
    BY LadderIs DEF EmptyPlan
  <1>2. SumOf(SoldOn(plan), Legs) = 0 /\ SumOf(GainOn(plan), Legs) = 0
    <2> DEFINE zero == [t \in Legs |-> 0]
    <2>1. SoldOn(plan) = zero /\ GainOn(plan) = zero
      BY <1>1 DEF SoldOn, GainOn
    <2>2. SumOf(zero, Legs) = 0
      <3> DEFINE F == {T \in SUBSET Legs : SumOf(zero, T) = 0}
      <3>1. {} \in F
        BY SumEmpty
      <3>2. ASSUME NEW T \in SUBSET Legs, NEW x \in Legs, T \in F, x \notin T PROVE T \cup {x} \in F
        <4>1. IsFiniteSet(T) /\ (\A t \in T : zero[t] \in Int) /\ zero[x] = 0
          BY ExitConstants, FS_Subset
        <4> HIDE DEF zero
        <4>2. SumOf(zero, T \cup {x}) = SumOf(zero, T) + zero[x]
          BY <3>2, <4>1, SumAdd
        <4> QED
          BY <3>2, <4>1, <4>2
      <3> HIDE DEF F
      <3>3. Legs \in F
        BY <3>1, <3>2, ExitConstants, SetClosed
      <3> QED
        BY <3>3 DEF F
    <2> HIDE DEF zero
    <2> QED
      BY <2>1, <2>2
  <1>3. BidLots \in Nat /\ BidLots > 0 /\ FeeOf(bid.price, BidLots) \in Int
    <2>1. BidLots \in Nat \ {0}
      BY BacktestAssumption DEF BacktestAssumption
    <2>2. bid.price \in Nat /\ FeePct \in Nat
      BY BacktestConstants
    <2>3. bid.price * BidLots \in Nat
      BY <2>1, <2>2
    <2> QED
      BY <2>1, <2>2, <2>3 DEF FeeOf
  <1>4. s \in LadderRecords /\ s.entry = i /\ s.at = "open" /\ s.plan = plan /\ s.gross = 0
    BY <1>1, <1>3 DEF Opened, LadderRecords
  <1>5. LeftOf(plan) > 0 /\ 0 = 100 * SumOf(GainOn(plan), Legs)
    BY <1>2, <1>3 DEF LeftOf
  <1>6. ~plan.filled[ExitConfig.breakeven]
    BY <1>1, ExitConstants
  <1> HIDE DEF s, plan
  <1>7. Climbing(bid, s, i)
    BY <1>4, <1>5, <1>6 DEF Climbing
  <1> QED
    BY <1>7 DEF s

LEMMA RungKept ==
    ASSUME NEW bid \in Bids, NEW bar \in Bars, NEW ttl, NEW i, NEW s, NEW e, NEW next,
           Climbing(bid, s, e), RungCases(bid, ttl, bar, s, i, next)
    PROVE  Climbing(bid, next, e)
  <1> DEFINE plan == s.plan
             be == ExitConfig.breakeven
             L == LeftOf(plan)
             new == PlanNow(bid, plan, bar)
             sold == SoldNow(bid, s, bar)
  <1>1. s \in LadderRecords /\ s.entry = e /\ s.at \in {"open", "closed"} /\ plan \in LegPlans /\ e \in Nat
    BY DEF Climbing, LadderRecords
  <1>2. \A p : Unsold(bid, p) = LeftOf(p)
    BY RemainingIs DEF Unsold, LeftOf
  <1>3. s.at = "closed" => next = s
    BY <1>1, Zenon DEF RungCases
  <1>4. s.at = "open" =>
          \/ next = StoppedNow(bid, s)
          \/ next = [sold EXCEPT !.at = "closed", !.plan = new, !.reason = "TAKE_PROFIT_ALL"]
          \/ LeftOf(new) > 0 /\ next = [sold EXCEPT !.plan = new]
          \/ next = s
    BY <1>1, <1>2, Zenon DEF RungCases
  <1>5. s.at = "open" =>
          /\ L > 0 /\ s.gross = 100 * SumOf(GainOn(plan), Legs)
          /\ plan.filled[be] => plan.stop >= bid.price
    BY DEF Climbing
  <1>6. /\ new \in LegPlans /\ sold \in LadderRecords /\ sold.at = s.at /\ sold.entry = e
        /\ s.gross = 100 * SumOf(GainOn(plan), Legs) => sold.gross = 100 * SumOf(GainOn(new), Legs)
        /\ (plan.filled[be] => plan.stop >= bid.price) => (new.filled[be] => new.stop >= bid.price)
    BY <1>1, SoldNowIs
  <1> HIDE DEF new, sold
  <1>7. CASE s.at = "open" /\ next = StoppedNow(bid, s)
    <2> DEFINE price == StopFill(bid, plan)
               q == Settles(bid, s, price, L)
               h == [q EXCEPT !.at = "closed"]
    <2>1. /\ plan.stop \in Nat /\ Slip \in Nat /\ bid.price \in Nat /\ BidLots \in Nat /\ s.gross \in Int
          /\ SumOf(SoldOn(plan), Legs) \in Nat
      BY <1>1, BacktestConstants, PlanSums DEF LegPlans, LadderRecords
    <2>2. L \in Nat /\ L <= BidLots
      BY <1>5, <1>7, <2>1 DEF LeftOf
    <2>3. price \in Int /\ price = plan.stop - Slip
      BY <2>1 DEF StopFill
    <2>4. next = [q EXCEPT !.at = "closed", !.reason = "STOP"]
      BY <1>2, <1>7, Zenon DEF StoppedNow
    <2> HIDE DEF price, L
    <2>5. /\ q \in LadderRecords /\ q.entry = e /\ q.plan = plan
          /\ q.gross = s.gross + 100 * (price - bid.price) * L
      <3>1. L \in Int
        BY <2>2
      <3> QED
        BY <1>1, <2>3, <3>1, SettlesIs
    <2> HIDE DEF q
    <2>6. next = [h EXCEPT !.reason = "STOP"]
      BY <2>4, <2>5 DEF LadderRecords
    <2>7. /\ h \in LadderRecords /\ h.entry = e /\ h.plan = plan /\ h.gross = q.gross
          /\ h.at = "closed"
      BY <2>5 DEF LadderRecords
    <2> HIDE DEF h
    <2>8. /\ next \in LadderRecords /\ next.entry = e /\ next.plan = plan /\ next.gross = q.gross
          /\ next.at = "closed" /\ next.reason = "STOP"
      BY <2>6, <2>7 DEF LadderRecords
    <2>9. plan.filled[be] => next.gross >= 100 * SumOf(GainOn(plan), Legs) - 100 * Slip * BidLots
      <3> SUFFICES ASSUME plan.filled[be]
                   PROVE  next.gross >= 100 * SumOf(GainOn(plan), Legs) - 100 * Slip * BidLots
        OBVIOUS
      <3> DEFINE d == plan.stop - bid.price
      <3>1. d \in Nat
        BY <1>5, <1>7, <2>1
      <3>2. price - bid.price = d - Slip
        BY <2>1, <2>3
      <3> HIDE DEF d
      <3>3. s.gross + 100 * (d - Slip) * L >= s.gross - 100 * Slip * BidLots
        BY <2>1, <2>2, <3>1, StopTakes
      <3>4. next.gross = s.gross + 100 * (d - Slip) * L
        BY <2>5, <2>8, <3>2
      <3> QED
        BY <1>5, <1>7, <3>3, <3>4
    <2> QED
      BY <2>8, <2>9 DEF Climbing
  <1>8. CASE s.at = "open" /\ next = [sold EXCEPT !.at = "closed", !.plan = new, !.reason = "TAKE_PROFIT_ALL"]
    <2> DEFINE g == [sold EXCEPT !.at = "closed"]
               h == [g EXCEPT !.plan = new]
    <2>1. next = [h EXCEPT !.reason = "TAKE_PROFIT_ALL"]
      BY <1>6, <1>8 DEF LadderRecords
    <2>2. g \in LadderRecords /\ g.entry = e /\ g.at = "closed"
      BY <1>6 DEF LadderRecords
    <2> HIDE DEF g
    <2>3. h \in LadderRecords /\ h.entry = e /\ h.at = "closed"
      BY <1>6, <2>2 DEF LadderRecords
    <2> HIDE DEF h
    <2>4. /\ next \in LadderRecords /\ next.entry = e /\ next.at = "closed"
          /\ next.reason = "TAKE_PROFIT_ALL"
      BY <2>1, <2>3 DEF LadderRecords
    <2> QED
      BY <2>4 DEF Climbing
  <1>9. CASE s.at = "open" /\ LeftOf(new) > 0 /\ next = [sold EXCEPT !.plan = new]
    <2>1. /\ next \in LadderRecords /\ next.entry = e /\ next.at = "open" /\ next.plan = new
          /\ next.gross = sold.gross
      BY <1>6, <1>9 DEF LadderRecords
    <2> QED
      BY <1>5, <1>6, <1>9, <2>1 DEF Climbing
  <1> QED
    BY <1>1, <1>3, <1>4, <1>7, <1>8, <1>9

\* The two replays, side by side.
Tandem(bid, f, g) ==
    \/ f = Waiting /\ g = Waiting
    \/ f = Lapsed /\ g = Lapsed
    \/ \E e \in Nat : /\ f = OpenSince(e) \/ \E r : f = ClosedWith(r) /\ r.entry = e
                      /\ Climbing(bid, g, e)

LEMMA TandemKept ==
    ASSUME NEW bid \in Bids, NEW ttl \in Nat, NEW bar \in Bars, NEW i \in Nat, NEW f, NEW g, NEW next,
           Tandem(bid, f, g), RungCases(bid, ttl, bar, g, i, next)
    PROVE  Tandem(bid, StepOn(bid, ttl, bar, f, i), next)
  <1> DEFINE step == StepOn(bid, ttl, bar, f, i)
  <1>1. StepCases(bid, ttl, bar, i)
    BY Steps
  <1>2. CASE f = Waiting /\ g = Waiting
    <2>1. CASE i > ttl
      <3>1. step = Lapsed /\ next = Lapsed
        BY <1>2, <2>1, LapsedSteps DEF RungCases
      <3> QED
        BY <3>1 DEF Tandem
    <2>2. CASE i <= ttl /\ ~FillsOn(bid, bar)
      <3>1. step = Waiting /\ next = Waiting
        BY <1>1, <1>2, <2>2, Zenon DEF StepCases, RungCases
      <3> QED
        BY <3>1 DEF Tandem
    <2>3. CASE i <= ttl /\ FillsOn(bid, bar)
      <3>1. step = OpenSince(i) /\ next = Opened(bid, i)
        BY <1>1, <1>2, <2>3, Zenon DEF StepCases, RungCases
      <3>2. Climbing(bid, next, i)
        BY <3>1, OpenedClimbs
      <3> QED
        BY <3>1, <3>2, Zenon DEF Tandem
    <2> QED
      BY <2>1, <2>2, <2>3
  <1>3. CASE f = Lapsed /\ g = Lapsed
    <2>1. step = Lapsed /\ next = Lapsed
      BY <1>3, LapsedSteps, Zenon DEF RungCases
    <2> QED
      BY <2>1 DEF Tandem
  <1>4. ASSUME NEW e \in Nat, f = OpenSince(e) \/ \E r : f = ClosedWith(r) /\ r.entry = e,
               Climbing(bid, g, e)
        PROVE  Tandem(bid, step, next)
    <2>1. Climbing(bid, next, e)
      BY <1>4, RungKept
    <2>2. step = OpenSince(e) \/ \E r : step = ClosedWith(r) /\ r.entry = e
      <3>1. \A exit, price, reason : Closed(e, exit, bid, price, reason).entry = e
        BY DEF Closed
      <3>2. CASE f = OpenSince(e)
        <4>1. /\ ~LeavesOn(bid, bar) => step = OpenSince(e)
              /\ LeavesOn(bid, bar) =>
                   step = ClosedWith(Closed(e, i, bid, ExitOn(bid, bar).price, ExitOn(bid, bar).reason))
          BY <1>1, <3>2, Zenon DEF StepCases
        <4> QED
          BY <3>1, <4>1, Zenon
      <3>3. CASE \E r : f = ClosedWith(r) /\ r.entry = e
        BY <1>1, <3>3, Zenon DEF StepCases
      <3> QED
        BY <1>4, <3>2, <3>3
    <2> QED
      BY <2>1, <2>2, Zenon DEF Tandem
  <1> QED
    BY <1>2, <1>3, <1>4, Zenon DEF Tandem

LEMMA TandemReplays ==
    ASSUME NEW bid \in Bids, NEW ttl \in Nat, NEW window \in Seq(Bars)
    PROVE  Tandem(bid, Replayed("bracket", bid, ttl, window), Replayed("tiers", bid, ttl, window))
  <1> DEFINE len == Len(window)
  <1>1. len \in Nat /\ DOMAIN window = 1..len /\ \A k \in 1..len : window[k] \in Bars
    OBVIOUS
  <1> HIDE DEF len
  <1>2. PICK f : Simulates(f, "bracket", bid, ttl, window, len) /\ Replayed("bracket", bid, ttl, window) = f[len]
    BY <1>1, SimsExist
  <1>3. PICK g : Simulates(g, "tiers", bid, ttl, window, len) /\ Replayed("tiers", bid, ttl, window) = g[len]
    BY <1>1, SimsExist
  <1> DEFINE G == {k \in Nat : k <= len => Tandem(bid, f[k], g[k])}
  <1>4. 0 \in G
    BY <1>2, <1>3 DEF Simulates, Tandem
  <1>5. ASSUME NEW k \in Nat, k \in G PROVE k + 1 \in G
    <2>1. SUFFICES ASSUME k + 1 <= len PROVE Tandem(bid, f[k + 1], g[k + 1])
      OBVIOUS
    <2>2. k + 1 \in Nat /\ k + 1 \in 1..len /\ (k + 1) - 1 = k /\ Tandem(bid, f[k], g[k])
      BY <1>1, <1>5, <2>1
    <2>3. /\ f[k + 1] = StepBy("bracket", bid, ttl, window, f[k], k + 1)
          /\ g[k + 1] = StepBy("tiers", bid, ttl, window, g[k], k + 1)
      BY <1>2, <1>3, <2>2 DEF Simulates
    <2>4. /\ f[k + 1] = StepOn(bid, ttl, window[k + 1], f[k], k + 1)
          /\ g[k + 1] = LadderStep(bid, ttl, window, g[k], k + 1)
      BY <2>3, StepIsOn, StepsAre
    <2>5. RungCases(bid, ttl, window[k + 1], g[k], k + 1, g[k + 1])
      BY <2>2, <2>4, RungSteps
    <2> QED
      BY <1>1, <2>2, <2>4, <2>5, TandemKept
  <1> HIDE DEF G
  <1>6. len \in G
    BY <1>1, <1>4, <1>5, NatClosed
  <1> QED
    BY <1>1, <1>2, <1>3, <1>6 DEF G

\* What the tiered replay returns for a bid that the bracket has filled.
LEMMA LadderEnds ==
    ASSUME NEW bid \in Bids, NEW ttl \in Nat, NEW window \in Seq(Bars), window # <<>>, NEW e \in Nat,
           \/ Replayed("bracket", bid, ttl, window) = OpenSince(e)
           \/ \E r : Replayed("bracket", bid, ttl, window) = ClosedWith(r) /\ r.entry = e,
           NEW replayed, replayed = TieredReplay(bid, ttl, window)
    PROVE  /\ replayed # None /\ replayed.entry = e
           /\ (replayed.reason = "STOP" /\ replayed.plan.filled[ExitConfig.breakeven]) =>
                  replayed.gross >= BankedGross(replayed.plan) - 100 * Slip * BidLots
  <1> DEFINE end == Replayed("tiers", bid, ttl, window)
             price == Last(window).close
             left == Unsold(bid, end.plan)
             banked == Settles(bid, end, price, left)
             Ends == [at : {"closed"}, entry : Nat, plan : LegPlans, gross : Int, fees : Int,
                      reason : {"STOP", "TAKE_PROFIT_ALL", "END_OF_DATA"}]
  <1>1. /\ \A x : OpenSince(x).at = "open" /\ OpenSince(x).entry = x /\ ClosedWith(x).at = "closed"
        /\ \A x : ClosedWith(x).result = x
        /\ Waiting.at = "waiting" /\ Lapsed.at = "lapsed"
    BY DEF OpenSince, ClosedWith, Waiting, Lapsed
  <1>2. Climbing(bid, end, e)
    <2> DEFINE f == Replayed("bracket", bid, ttl, window)
    <2>1. Tandem(bid, f, end)
      BY TandemReplays
    <2>2. f = OpenSince(e) \/ \E r : f = ClosedWith(r) /\ r.entry = e
      OBVIOUS
    <2> HIDE DEF f, end
    <2>3. f # Waiting /\ f # Lapsed
      BY <1>1, <2>2
    <2>4. PICK x \in Nat : (f = OpenSince(x) \/ \E r : f = ClosedWith(r) /\ r.entry = x) /\ Climbing(bid, end, x)
      BY <2>1, <2>3, Zenon DEF Tandem
    <2>5. x = e
      BY <1>1, <2>2, <2>4
    <2> QED
      BY <2>4, <2>5
  <1>3. replayed = CASE end.at = "closed" -> end
                     [] end.at = "open" -> [banked EXCEPT !.at = "closed", !.reason = "END_OF_DATA"]
                     [] OTHER -> None
    <2>1. end = FoldLeftDomain(LAMBDA s, i : LadderStep(bid, ttl, window, s, i), Waiting, window)
      BY DEF Replayed
    <2> QED
      BY <2>1, Zenon DEF TieredReplay, Unsold
  <1> HIDE DEF end
  <1>4. end \in LadderRecords /\ end.entry = e /\ end.at \in {"open", "closed"}
    BY <1>2 DEF Climbing, LadderRecords
  <1>5. None \notin Ends
    BY NoneIsNoReplay, LadderIs DEF NoneIsNoReplay
  <1>6. CASE end.at = "closed"
    <2>1. replayed = end
      BY <1>3, <1>6
    <2>2. /\ end.reason # "none"
          /\ (end.reason = "STOP" /\ end.plan.filled[ExitConfig.breakeven]) =>
               end.gross >= 100 * SumOf(GainOn(end.plan), Legs) - 100 * Slip * BidLots
      BY <1>2, <1>6, Zenon DEF Climbing
    <2>3. end \in Ends
      BY <1>4, <1>6, <2>2 DEF LadderRecords
    <2> HIDE DEF Ends
    <2>4. replayed # None /\ replayed.entry = e
      BY <1>4, <1>5, <2>1, <2>3
    <2> QED
      BY <2>1, <2>2, <2>4, BankedGrossIs
  <1>7. CASE end.at = "open"
    <2>1. replayed = [banked EXCEPT !.at = "closed", !.reason = "END_OF_DATA"]
      BY <1>3, <1>7
    <2>2. price \in Int
      <3>1. Len(window) \in 1..Len(window)
        OBVIOUS
      <3> QED
        BY <3>1, BacktestConstants DEF Last
    <2>3. left \in Int
      <3>1. left = BidLots - SumOf(SoldOn(end.plan), Legs)
        BY RemainingIs DEF Unsold
      <3>2. end.plan \in LegPlans
        BY <1>4 DEF LadderRecords
      <3>3. SumOf(SoldOn(end.plan), Legs) \in Nat /\ BidLots \in Nat
        BY <3>2, PlanSums, BacktestConstants
      <3> QED
        BY <3>1, <3>3
    <2> HIDE DEF price, left
    <2>4. banked \in LadderRecords /\ banked.entry = e
      BY <1>4, <2>2, <2>3, SettlesIs
    <2> HIDE DEF banked
    <2>5. replayed \in Ends /\ replayed.entry = e /\ replayed.reason = "END_OF_DATA"
      <3> DEFINE q == [banked EXCEPT !.at = "closed"]
      <3>1. replayed = [q EXCEPT !.reason = "END_OF_DATA"]
        BY <2>1, <2>4 DEF LadderRecords
      <3>2. q \in LadderRecords /\ q.at = "closed" /\ q.entry = e
        BY <2>4 DEF LadderRecords
      <3> HIDE DEF q
      <3> QED
        BY <3>1, <3>2 DEF LadderRecords
    <2> QED
      BY <1>5, <2>5
  <1> QED
    BY <1>4, <1>6, <1>7

\* A bid that lapsed with the bracket has lapsed with the tiers.
LEMMA LadderLapses ==
    ASSUME NEW bid \in Bids, NEW ttl \in Nat, NEW window \in Seq(Bars), Replayed("bracket", bid, ttl, window) = Lapsed
    PROVE  TieredReplay(bid, ttl, window) = None
  <1> DEFINE end == Replayed("tiers", bid, ttl, window)
  <1>1. Tandem(bid, Lapsed, end)
    BY TandemReplays
  <1> HIDE DEF end
  <1>2. end = Lapsed
    <2>1. Lapsed # Waiting /\ \A x : Lapsed # OpenSince(x) /\ Lapsed # ClosedWith(x)
      BY DEF Lapsed, Waiting, OpenSince, ClosedWith
    <2> QED
      BY <1>1, <2>1, Zenon DEF Tandem
  <1>3. Lapsed.at # "closed" /\ Lapsed.at # "open"
    BY DEF Lapsed
  <1>4. end = FoldLeftDomain(LAMBDA s, i : LadderStep(bid, ttl, window, s, i), Waiting, window)
    BY DEF Replayed, end
  <1> QED
    BY <1>2, <1>3, <1>4 DEF TieredReplay

\* What LadderBanksStand asks of the two replays of one bid.
BanksStand(plain, replayed) ==
    /\ replayed = None <=> plain = None
    /\ replayed # None => replayed.entry = plain.entry
    /\ (replayed # None /\ replayed.reason = "STOP" /\ replayed.plan.filled[ExitConfig.breakeven]) =>
           replayed.gross >= BankedGross(replayed.plan) - 100 * Slip * BidLots

(***************************************************************************)
(* For every ladder, every series of candles and every bid: the replay     *)
(* with the tiers fills the bid on the candle the replay with the bracket  *)
(* does, or misses it as that does, and once the tier that moves the stop  *)
(* to breakeven is banked, what the tiers have earned stands, whatever     *)
(* candle takes the stop out.                                              *)
(***************************************************************************)
THEOREM LadderHolds == BacktestSpec => []LadderBanksStand
  <1>1. ReplayInv => LadderBanksStand
    <2> SUFFICES ASSUME ReplayInv, NEW n \in DOMAIN trades
                 PROVE  BanksStand(Replay(trades[n].bid, Since(trades[n].decided)),
                                   LadderReplay(trades[n].bid, Since(trades[n].decided)))
      BY Zenon DEF LadderBanksStand, BanksStand
    <2>0. PICK t, plain, replayed : /\ t = trades[n] /\ plain = Replay(t.bid, Since(t.decided))
                                    /\ replayed = LadderReplay(t.bid, Since(t.decided))
      OBVIOUS
    <2> SUFFICES BanksStand(plain, replayed)
      BY <2>0
    <2> SUFFICES /\ replayed = None <=> plain = None
                 /\ replayed # None => replayed.entry = plain.entry
                 /\ (/\ replayed # None /\ replayed.reason = "STOP"
                     /\ replayed.plan.filled[ExitConfig.breakeven]) =>
                       replayed.gross >= BankedGross(replayed.plan) - 100 * Slip * BidLots
      BY Zenon DEF BanksStand
    <2>1. n \in 1..Len(trades) /\ bars \in Seq(Bars) /\ Len(bars) \in Nat
      BY DEF ReplayInv
    <2>2. SettledByTurn(bars, t) \/ SettledAtEnd(bars, t)
      BY <2>0, <2>1 DEF ReplayInv
    <2> DEFINE window == Since(t.decided)
               f == Sim(bars, t.bid, t.decided)
               g == Replayed("bracket", t.bid, ReplayTtl, window)
    <2>3. g = Shipped(bars, t.bid, t.decided) /\ window = SinceIn(bars, t.decided)
      BY DEF Shipped, Since, SinceIn
    <2>4. \A x, exit, price, reason : Closed(x, exit, t.bid, price, reason).entry = x
      BY DEF Closed
    <2>5. t.bid \in Bids /\ t.decided \in 1..Len(bars) /\ ReplayTtl \in Nat
      BY <2>2, BacktestConstants DEF SettledByTurn, SettledAtEnd
    <2>6. window \in Seq(Bars)
      <3>1. PICK bar \in Bars : TRUE
        BY <2>1, <2>5
      <3> QED
        BY <2>1, <2>3, <2>5, <3>1, SinceGrows
    <2>7. window = <<>> => g = Waiting
      BY ReplayEmpty
    <2>8. /\ g \in {Waiting, Lapsed} => plain = None
          /\ \A r : g = ClosedWith(r) => plain = r
          /\ \A e : g = OpenSince(e) /\ t.decided < Len(bars)
               => plain = Closed(e, Len(bars) - t.decided, t.bid, Last(bars).close, "END_OF_DATA")
      BY <2>0, <2>1, <2>3, <2>5, ReplayEnds
    <2> HIDE DEF window, f, g
    <2>9. PICK e \in Nat : /\ FilledAt(f, e)
                           /\ g = f => plain # None /\ plain.entry = e
      <3>1. CASE SettledByTurn(bars, t)
        <4>1. PICK entry \in Nat, exit \in Nat, price \in Int, reason \in Reasons :
                Sim(bars, t.bid, t.decided) = ClosedWith(Closed(entry, exit, t.bid, price, reason))
          BY <3>1, Zenon DEF SettledByTurn
        <4> DEFINE r == Closed(entry, exit, t.bid, price, reason)
        <4>2. f = ClosedWith(r) /\ r.entry = entry
          BY <2>4, <4>1 DEF f
        <4>3. r # None
          BY <2>5, ClosedIs
        <4> HIDE DEF r
        <4> QED
          BY <2>8, <4>2, <4>3, Zenon DEF FilledAt
      <3>2. CASE SettledAtEnd(bars, t)
        <4>1. PICK entry \in Nat : /\ entry > t.decided
                                   /\ Sim(bars, t.bid, t.decided) = OpenSince(entry - t.decided)
          BY <3>2, Zenon DEF SettledAtEnd
        <4>2. entry - t.decided \in Nat /\ t.decided < Len(bars)
          BY <2>1, <2>5, <3>2, <4>1 DEF SettledAtEnd
        <4> DEFINE e == entry - t.decided
                   r == Closed(e, Len(bars) - t.decided, t.bid, Last(bars).close, "END_OF_DATA")
        <4>3. r # None /\ r.entry = e
          <5>1. Last(bars).close \in Int /\ e \in Int /\ Len(bars) - t.decided \in Int
            BY <2>1, <2>5, <4>2, BacktestConstants DEF Last
          <5>2. "END_OF_DATA" \in Reasons
            BY DEF Reasons
          <5>3. r.entry = e
            BY <2>4
          <5> HIDE DEF e
          <5>4. r # None
            BY <2>5, <5>1, <5>2, ClosedIs
          <5> QED
            BY <5>3, <5>4
        <4>4. e \in Nat /\ f = OpenSince(e)
          BY <4>1, <4>2 DEF f
        <4>5. g = f => plain = r
          BY <2>8, <4>2, <4>4
        <4> HIDE DEF r, e
        <4> QED
          BY <4>3, <4>4, <4>5, Zenon DEF FilledAt
      <3> QED
        BY <2>2, <3>1, <3>2
    <2>10. /\ e <= ReplayTtl => g = f
           /\ e > ReplayTtl => g = Lapsed
      BY <2>1, <2>3, <2>5, <2>9, FilledSeen DEF f
    <2>11. CASE e > ReplayTtl
      <3>1. g = Lapsed
        BY <2>10, <2>11
      <3>2. plain = None /\ replayed = None
        BY <2>0, <2>5, <2>6, <2>8, <3>1, LadderLapses DEF LadderReplay, window, g
      <3> QED
        BY <3>2
    <2>12. CASE e <= ReplayTtl
      <3>1. g = f /\ FilledAt(g, e) /\ plain # None /\ plain.entry = e
        BY <2>9, <2>10, <2>12
      <3>2. window # <<>>
        BY <2>7, <3>1, FilledIsNot
      <3>3. replayed = TieredReplay(t.bid, ReplayTtl, window)
        BY <2>0 DEF LadderReplay, window
      <3>4. /\ replayed # None /\ replayed.entry = e
            /\ (replayed.reason = "STOP" /\ replayed.plan.filled[ExitConfig.breakeven]) =>
                   replayed.gross >= BankedGross(replayed.plan) - 100 * Slip * BidLots
        <4>1. \/ Replayed("bracket", t.bid, ReplayTtl, window) = OpenSince(e)
              \/ \E r : Replayed("bracket", t.bid, ReplayTtl, window) = ClosedWith(r) /\ r.entry = e
          BY <3>1 DEF FilledAt, g
        <4> QED
          BY <2>5, <2>6, <3>2, <3>3, <4>1, LadderEnds
      <3> QED
        BY <3>1, <3>4
    <2>13. e > ReplayTtl \/ e <= ReplayTtl
      BY <2>5
    <2> QED
      BY <2>11, <2>12, <2>13
  <1> QED
    BY <1>1, ReplayInvHolds, PTL

=============================================================================
