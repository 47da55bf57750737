------------------------------- MODULE SumLemmas -------------------------------
(***************************************************************************)
(* Sums over finite sets, for the proofs: MapThenSumSet of the community   *)
(* modules adds the elements of a set in the order CHOOSE takes them.      *)
(* What is shown here is that a sum exists, is a number, does not depend   *)
(* on that order, grows with its terms and with its set.                   *)
(*                                                                         *)
(* The induction is on cardinality and is stated with a set of numbers in  *)
(* place of a predicate: a set that contains 0 and the successor of each   *)
(* of its members contains every natural number.                           *)
(***************************************************************************)
EXTENDS Integers, FiniteSets, FiniteSetsExt, FiniteSetTheorems, WellFoundedInduction, TLAPS

(* The sum of f over S.                                                    *)
SumOf(f, S) == MapThenSumSet(LAMBDA i : f[i], S)

(* g adds f over each subset of S, one chosen element at a time.           *)
Adding(g, f, S) ==
    [s \in SUBSET S |-> IF s = {} THEN 0 ELSE LET x == CHOOSE y \in s : TRUE IN f[x] + g[s \ {x}]]

SumsOver(g, f, S) == g = Adding(g, f, S)

-----------------------------------------------------------------------------

LEMMA NatClosed ==
  ASSUME NEW G, 0 \in G, \A n \in Nat : n \in G => n + 1 \in G
  PROVE  Nat \subseteq G
<1> SUFFICES ASSUME Nat \ G # {} PROVE FALSE
  OBVIOUS
<1>1. PICK n \in Nat \ G : \A m \in Nat \ G : ~ (<<m, n>> \in OpToRel(<, Nat))
  BY WFMin, NatLessThanWellFounded
<1>2. n # 0 /\ n - 1 \in Nat /\ n - 1 < n
  OBVIOUS
<1>3. n - 1 \in G
  BY <1>1, <1>2 DEF OpToRel
<1>4. (n - 1) + 1 = n
  OBVIOUS
<1> QED
  BY <1>2, <1>3, <1>4

(* Removing the chosen element of a set makes it smaller by one.           *)
LEMMA SmallerSet ==
  ASSUME NEW S, IsFiniteSet(S), NEW s \in SUBSET S, s # {}, NEW x \in s
  PROVE  /\ IsFiniteSet(s) /\ Cardinality(s) \in Nat \ {0}
         /\ s \ {x} \in SUBSET S /\ Cardinality(s \ {x}) = Cardinality(s) - 1
<1>1. IsFiniteSet(s)
  BY FS_Subset
<1>2. Cardinality(s) \in Nat /\ Cardinality(s) # 0
  BY <1>1, FS_CardinalityType, FS_EmptySet
<1>3. Cardinality(s \ {x}) = Cardinality(s) - 1
  BY <1>1, FS_RemoveElement
<1> QED
  BY <1>1, <1>2, <1>3

LEMMA SumExists ==
  ASSUME NEW S, IsFiniteSet(S), NEW f
  PROVE  \E g : SumsOver(g, f, S)
<1> DEFINE chosen(s) == CHOOSE y \in s : TRUE
           upTo(n) == {s \in SUBSET S : Cardinality(s) <= n}
           partial(g, n) == g = [s \in upTo(n) |-> IF s = {} THEN 0 ELSE f[chosen(s)] + g[s \ {chosen(s)}]]
           G == {n \in Nat : \E g : partial(g, n)}
<1>1. 0 \in G
  <2> DEFINE g == [s \in upTo(0) |-> 0]
  <2>1. \A s \in upTo(0) : s = {}
    BY FS_Subset, FS_CardinalityType, FS_EmptySet
  <2>2. partial(g, 0)
    BY <2>1
  <2> QED
    BY <2>2
<1>2. ASSUME NEW n \in Nat, n \in G PROVE n + 1 \in G
  <2>1. PICK g : partial(g, n)
    BY <1>2
  <2> DEFINE h == [s \in upTo(n + 1) |-> IF s = {} THEN 0 ELSE f[chosen(s)] + g[s \ {chosen(s)}]]
  <2>2. ASSUME NEW s \in upTo(n + 1), s # {}
        PROVE  s \ {chosen(s)} \in upTo(n) /\ s \ {chosen(s)} \in upTo(n + 1)
    <3>1. chosen(s) \in s
      BY <2>2
    <3> HIDE DEF chosen
    <3>2. /\ Cardinality(s) \in Nat /\ s \ {chosen(s)} \in SUBSET S
          /\ Cardinality(s \ {chosen(s)}) = Cardinality(s) - 1
      BY <2>2, <3>1, SmallerSet
    <3> QED
      BY <2>2, <3>2
  <2>3. ASSUME NEW s \in upTo(n), s \in upTo(n + 1) PROVE h[s] = g[s]
    <3> HIDE DEF chosen
    <3>1. h[s] = IF s = {} THEN 0 ELSE f[chosen(s)] + g[s \ {chosen(s)}]
      BY <2>3
    <3>2. g[s] = IF s = {} THEN 0 ELSE f[chosen(s)] + g[s \ {chosen(s)}]
      BY <2>1
    <3> QED
      BY <3>1, <3>2
  <2>4. ASSUME NEW s \in upTo(n + 1), s # {}
        PROVE  h[s \ {chosen(s)}] = g[s \ {chosen(s)}]
    BY <2>2, <2>3, <2>4
  <2>5. partial(h, n + 1)
    <3> HIDE DEF chosen, upTo
    <3> QED
      BY <2>4
  <2> HIDE DEF h, partial
  <2>6. \E i : partial(i, n + 1)
    BY <2>5
  <2> QED
    BY <2>6
<1> HIDE DEF G
<1>3. Cardinality(S) \in G
  BY <1>1, <1>2, NatClosed, FS_CardinalityType
<1>4. upTo(Cardinality(S)) = SUBSET S
  BY FS_Subset
<1> QED
  BY <1>3, <1>4 DEF G, SumsOver, Adding

LEMMA SumUnique ==
  ASSUME NEW S, IsFiniteSet(S), NEW f, NEW g, NEW h,
         NEW A, S \in SUBSET A, NEW B, S \in SUBSET B,
         SumsOver(g, f, A), SumsOver(h, f, B)
  PROVE  g[S] = h[S]
<1> DEFINE chosen(s) == CHOOSE y \in s : TRUE
           G == {n \in Nat : \A s \in SUBSET S : Cardinality(s) = n => g[s] = h[s]}
<1>1. ASSUME NEW s \in SUBSET S
      PROVE  /\ g[s] = IF s = {} THEN 0 ELSE f[chosen(s)] + g[s \ {chosen(s)}]
             /\ h[s] = IF s = {} THEN 0 ELSE f[chosen(s)] + h[s \ {chosen(s)}]
  BY DEF SumsOver, Adding
<1> HIDE DEF chosen
<1>2. 0 \in G
  <2>1. \A s \in SUBSET S : Cardinality(s) = 0 => s = {}
    BY FS_Subset, FS_EmptySet
  <2> QED
    BY <1>1, <2>1
<1>3. ASSUME NEW n \in Nat, n \in G PROVE n + 1 \in G
  <2>1. ASSUME NEW s \in SUBSET S, Cardinality(s) = n + 1 PROVE g[s] = h[s]
    <3>1. s # {}
      BY <2>1, FS_EmptySet
    <3>2. chosen(s) \in s
      BY <3>1 DEF chosen
    <3>3. Cardinality(s \ {chosen(s)}) = n /\ s \ {chosen(s)} \in SUBSET S
      BY <2>1, <3>1, <3>2, SmallerSet
    <3>4. g[s \ {chosen(s)}] = h[s \ {chosen(s)}]
      BY <1>3, <3>3
    <3> QED
      BY <1>1, <3>1, <3>4
  <2> QED
    BY <2>1
<1> HIDE DEF G
<1>4. Cardinality(S) \in G
  BY <1>2, <1>3, NatClosed, FS_CardinalityType
<1> QED
  BY <1>4 DEF G

(* MapThenSumSet chooses a function that adds up, if there is one.         *)
LEMMA SumUnfolds ==
  ASSUME NEW f, NEW S
  PROVE  \E h : SumOf(f, S) = h[S] /\ ((\E g : g = Adding(g, f, S)) => h = Adding(h, f, S))
  BY DEF SumOf, MapThenSumSet, MapThenFoldSet, Adding

LEMMA SumIs ==
  ASSUME NEW S, IsFiniteSet(S), NEW f, NEW A, S \in SUBSET A, NEW g, SumsOver(g, f, A)
  PROVE  SumOf(f, S) = g[S]
<1>1. PICK h : SumOf(f, S) = h[S] /\ ((\E i : i = Adding(i, f, S)) => h = Adding(h, f, S))
  BY SumUnfolds
<1>2. SumsOver(h, f, S)
  <2>1. \E i : i = Adding(i, f, S)
    BY SumExists DEF SumsOver
  <2> QED
    BY <1>1, <2>1 DEF SumsOver
<1> QED
  BY <1>1, <1>2, SumUnique

LEMMA SumEmpty ==
  ASSUME NEW f PROVE SumOf(f, {}) = 0
  BY DEF SumOf, MapThenSumSet, MapThenFoldSet

LEMMA SumChosen ==
  ASSUME NEW S, IsFiniteSet(S), S # {}, NEW f
  PROVE  \E x \in S : SumOf(f, S) = f[x] + SumOf(f, S \ {x})
<1>1. PICK g : SumsOver(g, f, S)
  BY SumExists
<1> DEFINE x == CHOOSE y \in S : TRUE
<1>2. g[S] = f[x] + g[S \ {x}]
  BY <1>1 DEF SumsOver, Adding
<1>3. x \in S
  OBVIOUS
<1> HIDE DEF x
<1>4. SumOf(f, S) = g[S]
  BY <1>1, SumIs
<1>5. IsFiniteSet(S \ {x}) /\ S \ {x} \in SUBSET S
  BY FS_RemoveElement
<1>6. SumOf(f, S \ {x}) = g[S \ {x}]
  BY <1>1, <1>5, SumIs
<1> QED
  BY <1>2, <1>3, <1>4, <1>6

-----------------------------------------------------------------------------
(* A family of sets that contains {} and grows by any element of S, as far *)
(* as S, contains S.                                                       *)
LEMMA SetClosed ==
  ASSUME NEW S, IsFiniteSet(S), NEW F, {} \in F,
         \A T \in SUBSET S, x \in S : T \in F /\ x \notin T => T \cup {x} \in F
  PROVE  S \in F
<1> DEFINE G == {n \in Nat : \A s \in SUBSET S : Cardinality(s) = n => s \in F}
<1>1. 0 \in G
  BY FS_Subset, FS_EmptySet
<1>2. ASSUME NEW n \in Nat, n \in G PROVE n + 1 \in G
  <2>1. ASSUME NEW s \in SUBSET S, Cardinality(s) = n + 1 PROVE s \in F
    <3>0. s # {}
      <4>1. Cardinality(s) # 0
        BY <2>1
      <4> QED
        BY <4>1, FS_EmptySet
    <3>1. PICK x \in s : TRUE
      BY <3>0
    <3>2. s \ {x} \in SUBSET S /\ Cardinality(s \ {x}) = n
      BY <2>1, <3>1, SmallerSet
    <3>3. s \ {x} \in F
      BY <1>2, <3>2
    <3>4. (s \ {x}) \cup {x} = s /\ x \in S /\ x \notin s \ {x}
      BY <3>1
    <3> QED
      BY <3>2, <3>3, <3>4
  <2> QED
    BY <2>1
<1> HIDE DEF G
<1>3. Cardinality(S) \in G
  BY <1>1, <1>2, NatClosed, FS_CardinalityType
<1> QED
  BY <1>3 DEF G

LEMMA SumInt ==
  ASSUME NEW S, IsFiniteSet(S), NEW f, \A i \in S : f[i] \in Int
  PROVE  SumOf(f, S) \in Int
<1> DEFINE G == {n \in Nat : \A s \in SUBSET S : Cardinality(s) = n => SumOf(f, s) \in Int}
<1>1. 0 \in G
  BY FS_Subset, FS_EmptySet, SumEmpty
<1>2. ASSUME NEW n \in Nat, n \in G PROVE n + 1 \in G
  <2>1. ASSUME NEW s \in SUBSET S, Cardinality(s) = n + 1 PROVE SumOf(f, s) \in Int
    <3>1. s # {} /\ IsFiniteSet(s)
      BY <2>1, FS_EmptySet, FS_Subset
    <3>2. PICK x \in s : SumOf(f, s) = f[x] + SumOf(f, s \ {x})
      BY <3>1, SumChosen
    <3>3. s \ {x} \in SUBSET S /\ Cardinality(s \ {x}) = Cardinality(s) - 1
      BY <3>1, <3>2, SmallerSet
    <3>4. Cardinality(s \ {x}) = n
      BY <2>1, <3>3
    <3> QED
      BY <1>2, <3>2, <3>3, <3>4
  <2> QED
    BY <2>1
<1> HIDE DEF G
<1>3. Cardinality(S) \in G
  BY <1>1, <1>2, NatClosed, FS_CardinalityType
<1> QED
  BY <1>3 DEF G

(* An element more adds its term, whichever element CHOOSE takes first.     *)
LEMMA SumAdd ==
  ASSUME NEW S, IsFiniteSet(S), NEW f, \A i \in S : f[i] \in Int,
         NEW x, x \notin S, f[x] \in Int
  PROVE  SumOf(f, S \cup {x}) = SumOf(f, S) + f[x]
<1> DEFINE A == S \cup {x}
           adds(s) == \A y \in A \ s : SumOf(f, s \cup {y}) = SumOf(f, s) + f[y]
           G == {n \in Nat : \A s \in SUBSET A : Cardinality(s) = n => adds(s)}
<1>1. IsFiniteSet(A) /\ \A i \in A : f[i] \in Int
  BY FS_AddElement
<1> HIDE DEF A
<1>2. ASSUME NEW s \in SUBSET A PROVE IsFiniteSet(s) /\ SumOf(f, s) \in Int
  BY <1>1, FS_Subset, SumInt
<1>3. 0 \in G
  <2>1. ASSUME NEW y \in A PROVE SumOf(f, {} \cup {y}) = SumOf(f, {}) + f[y]
    <3>1. IsFiniteSet({y}) /\ {y} # {} /\ {} \cup {y} = {y} /\ {y} \ {y} = {}
      BY FS_Singleton
    <3>2. SumOf(f, {y}) = f[y] + SumOf(f, {})
      BY <3>1, SumChosen
    <3> QED
      BY <1>1, <3>1, <3>2, SumEmpty
  <2>2. \A s \in SUBSET A : Cardinality(s) = 0 => s = {}
    BY <1>1, FS_Subset, FS_EmptySet
  <2> QED
    BY <2>1, <2>2
<1>4. ASSUME NEW n \in Nat, n \in G PROVE n + 1 \in G
  <2>1. ASSUME NEW s \in SUBSET A, Cardinality(s) = n + 1, NEW y \in A \ s
        PROVE  SumOf(f, s \cup {y}) = SumOf(f, s) + f[y]
    <3>1. s \cup {y} \in SUBSET A /\ s \cup {y} # {}
      OBVIOUS
    <3>2. PICK c \in s \cup {y} : SumOf(f, s \cup {y}) = f[c] + SumOf(f, (s \cup {y}) \ {c})
      BY <1>2, <3>1, SumChosen
    <3>3. CASE c = y
      <4>1. (s \cup {y}) \ {c} = s
        BY <3>3
      <4>2. SumOf(f, s \cup {y}) = f[y] + SumOf(f, s)
        BY <3>2, <3>3, <4>1
      <4>3. f[y] \in Int /\ SumOf(f, s) \in Int
        BY <1>1, <1>2
      <4> QED
        BY <4>2, <4>3
    <3>4. CASE c # y
      <4>1. c \in s /\ c \in A /\ (s \cup {y}) \ {c} = (s \ {c}) \cup {y} /\ (s \ {c}) \cup {c} = s
        BY <3>4
      <4>2. s \ {c} \in SUBSET A /\ Cardinality(s \ {c}) = n
        BY <1>1, <2>1, <4>1, SmallerSet
      <4>3. adds(s \ {c})
        BY <1>4, <4>2
      <4>4. SumOf(f, (s \ {c}) \cup {y}) = SumOf(f, s \ {c}) + f[y]
        BY <4>1, <4>3
      <4>5. SumOf(f, s) = SumOf(f, s \ {c}) + f[c]
        <5>1. SumOf(f, (s \ {c}) \cup {c}) = SumOf(f, s \ {c}) + f[c]
          BY <4>1, <4>3
        <5> QED
          BY <4>1, <5>1
      <4>6. SumOf(f, s \ {c}) \in Int /\ f[c] \in Int /\ f[y] \in Int
        BY <1>1, <1>2, <4>1, <4>2
      <4>7. SumOf(f, s \cup {y}) = f[c] + (SumOf(f, s \ {c}) + f[y])
        BY <3>2, <4>1, <4>4
      <4> QED
        BY <4>5, <4>6, <4>7
    <3> QED
      BY <3>3, <3>4
  <2> QED
    BY <2>1
<1> HIDE DEF G
<1>5. Cardinality(S) \in G
  BY <1>3, <1>4, NatClosed, FS_CardinalityType
<1>6. adds(S)
  BY <1>5 DEF G, A
<1> QED
  BY <1>6 DEF A

(* Terms that are no larger add up to no more.                             *)
LEMMA SumLe ==
  ASSUME NEW S, IsFiniteSet(S), NEW f, NEW g,
         \A i \in S : f[i] \in Int /\ g[i] \in Int /\ f[i] <= g[i]
  PROVE  SumOf(f, S) <= SumOf(g, S)
<1> DEFINE F == {T \in SUBSET S : SumOf(f, T) <= SumOf(g, T)}
<1>1. {} \in F
  BY SumEmpty
<1>2. ASSUME NEW T \in SUBSET S, NEW x \in S, T \in F, x \notin T PROVE T \cup {x} \in F
  <2>1. IsFiniteSet(T) /\ SumOf(f, T) \in Int /\ SumOf(g, T) \in Int
    BY FS_Subset, SumInt
  <2>2. SumOf(f, T \cup {x}) = SumOf(f, T) + f[x] /\ SumOf(g, T \cup {x}) = SumOf(g, T) + g[x]
    BY <1>2, <2>1, SumAdd
  <2> QED
    BY <1>2, <2>1, <2>2
<1>3. S \in F
  <2> HIDE DEF F
  <2> QED
    BY <1>1, <1>2, SetClosed
<1> QED
  BY <1>3

LEMMA SumSame ==
  ASSUME NEW S, IsFiniteSet(S), NEW f, NEW g, \A i \in S : f[i] \in Int /\ f[i] = g[i]
  PROVE  SumOf(f, S) = SumOf(g, S)
<1>1. SumOf(f, S) \in Int /\ SumOf(g, S) \in Int
  BY SumInt
<1>2. SumOf(f, S) <= SumOf(g, S) /\ SumOf(g, S) <= SumOf(f, S)
  BY SumLe
<1> QED
  BY <1>1, <1>2

LEMMA SumNat ==
  ASSUME NEW S, IsFiniteSet(S), NEW f, \A i \in S : f[i] \in Nat
  PROVE  SumOf(f, S) \in Nat
<1> DEFINE F == {T \in SUBSET S : SumOf(f, T) \in Nat}
<1>1. {} \in F
  BY SumEmpty
<1>2. ASSUME NEW T \in SUBSET S, NEW x \in S, T \in F, x \notin T PROVE T \cup {x} \in F
  <2>1. IsFiniteSet(T)
    BY FS_Subset
  <2>2. SumOf(f, T \cup {x}) = SumOf(f, T) + f[x]
    BY <1>2, <2>1, SumAdd
  <2> QED
    BY <1>2, <2>2
<1>3. S \in F
  <2> HIDE DEF F
  <2> QED
    BY <1>1, <1>2, SetClosed
<1> QED
  BY <1>3

LEMMA SumZero ==
  ASSUME NEW S, IsFiniteSet(S), NEW f, \A i \in S : f[i] = 0
  PROVE  SumOf(f, S) = 0
<1> DEFINE F == {T \in SUBSET S : SumOf(f, T) = 0}
<1>1. {} \in F
  BY SumEmpty
<1>2. ASSUME NEW T \in SUBSET S, NEW x \in S, T \in F, x \notin T PROVE T \cup {x} \in F
  <2>1. IsFiniteSet(T) /\ f[x] \in Int /\ \A i \in T : f[i] \in Int
    BY FS_Subset
  <2>2. SumOf(f, T \cup {x}) = SumOf(f, T) + f[x]
    BY <1>2, <2>1, SumAdd
  <2> QED
    BY <1>2, <2>2
<1>3. S \in F
  <2> HIDE DEF F
  <2> QED
    BY <1>1, <1>2, SetClosed
<1> QED
  BY <1>3

LEMMA SumUnion ==
  ASSUME NEW S, IsFiniteSet(S), NEW R, IsFiniteSet(R), S \cap R = {}, NEW f,
         \A i \in S \cup R : f[i] \in Int
  PROVE  SumOf(f, S \cup R) = SumOf(f, S) + SumOf(f, R)
<1> DEFINE F == {T \in SUBSET R : SumOf(f, S \cup T) = SumOf(f, S) + SumOf(f, T)}
<1>1. {} \in F
  <2>1. S \cup {} = S /\ SumOf(f, S) \in Int
    BY SumInt
  <2> QED
    BY <2>1, SumEmpty
<1>2. ASSUME NEW T \in SUBSET R, NEW x \in R, T \in F, x \notin T PROVE T \cup {x} \in F
  <2>1. IsFiniteSet(T) /\ IsFiniteSet(S \cup T) /\ x \notin S \cup T
    BY <1>2, FS_Subset, FS_Union
  <2>2. SumOf(f, T \cup {x}) = SumOf(f, T) + f[x]
    BY <1>2, <2>1, SumAdd
  <2>3. SumOf(f, (S \cup T) \cup {x}) = SumOf(f, S \cup T) + f[x]
    BY <2>1, SumAdd
  <2>4. (S \cup T) \cup {x} = S \cup (T \cup {x})
    OBVIOUS
  <2>5. SumOf(f, S) \in Int /\ SumOf(f, T) \in Int /\ f[x] \in Int
    BY <2>1, SumInt
  <2>6. SumOf(f, S \cup (T \cup {x})) = SumOf(f, S \cup T) + f[x]
    BY <2>3, <2>4
  <2> QED
    BY <1>2, <2>2, <2>5, <2>6
<1>3. R \in F
  <2> HIDE DEF F
  <2> QED
    BY <1>1, <1>2, SetClosed
<1> QED
  BY <1>3

LEMMA SumSubset ==
  ASSUME NEW S, IsFiniteSet(S), NEW T \in SUBSET S, NEW f, \A i \in S : f[i] \in Nat
  PROVE  SumOf(f, T) <= SumOf(f, S)
<1>1. IsFiniteSet(T) /\ IsFiniteSet(S \ T) /\ T \cap (S \ T) = {} /\ T \cup (S \ T) = S
  BY FS_Subset
<1>2. SumOf(f, S) = SumOf(f, T) + SumOf(f, S \ T)
  BY <1>1, SumUnion
<1>3. SumOf(f, T) \in Nat /\ SumOf(f, S \ T) \in Nat
  BY <1>1, SumNat
<1> QED
  BY <1>2, <1>3

(* Renaming the elements of the set, one for one, changes no sum.          *)
LEMMA SumRenamed ==
  ASSUME NEW S, IsFiniteSet(S), NEW h, NEW f, NEW g,
         \A i \in S : g[i] \in Int /\ g[i] = f[h[i]],
         \A i, j \in S : h[i] = h[j] => i = j
  PROVE  SumOf(g, S) = SumOf(f, {h[i] : i \in S})
<1> DEFINE image(T) == {h[i] : i \in T}
           F == {T \in SUBSET S : IsFiniteSet(image(T)) /\ SumOf(g, T) = SumOf(f, image(T))}
<1>1. {} \in F
  <2>1. image({}) = {}
    OBVIOUS
  <2> QED
    BY <2>1, SumEmpty, FS_EmptySet
<1>2. ASSUME NEW T \in SUBSET S, NEW x \in S, T \in F, x \notin T PROVE T \cup {x} \in F
  <2>1. IsFiniteSet(T) /\ IsFiniteSet(image(T)) /\ SumOf(g, T) = SumOf(f, image(T))
    BY <1>2, FS_Subset
  <2>2. h[x] \notin image(T) /\ image(T \cup {x}) = image(T) \cup {h[x]}
    BY <1>2
  <2>3. \A y \in image(T) : f[y] \in Int
    OBVIOUS
  <2>4. f[h[x]] = g[x] /\ g[x] \in Int
    OBVIOUS
  <2> HIDE DEF image
  <2>5. SumOf(g, T \cup {x}) = SumOf(g, T) + g[x]
    BY <1>2, <2>1, SumAdd
  <2>6. SumOf(f, image(T) \cup {h[x]}) = SumOf(f, image(T)) + f[h[x]]
    BY <2>1, <2>2, <2>3, <2>4, SumAdd
  <2>7. IsFiniteSet(image(T) \cup {h[x]})
    BY <2>1, FS_AddElement
  <2> QED
    BY <2>1, <2>2, <2>4, <2>5, <2>6, <2>7
<1>3. S \in F
  <2> HIDE DEF F
  <2> QED
    BY <1>1, <1>2, SetClosed
<1> QED
  BY <1>3

(* Two sums over one set are the sum of their terms.                       *)
LEMMA SumPlus ==
  ASSUME NEW S, IsFiniteSet(S), NEW f, NEW g, NEW h,
         \A i \in S : f[i] \in Int /\ g[i] \in Int /\ h[i] = f[i] + g[i]
  PROVE  SumOf(h, S) = SumOf(f, S) + SumOf(g, S)
<1> DEFINE F == {T \in SUBSET S : SumOf(h, T) = SumOf(f, T) + SumOf(g, T)}
<1>1. {} \in F
  BY SumEmpty
<1>2. ASSUME NEW T \in SUBSET S, NEW x \in S, T \in F, x \notin T PROVE T \cup {x} \in F
  <2>1. IsFiniteSet(T)
    BY FS_Subset
  <2>2. \A i \in T : f[i] \in Int /\ g[i] \in Int /\ h[i] \in Int
    OBVIOUS
  <2>3. f[x] \in Int /\ g[x] \in Int /\ h[x] = f[x] + g[x]
    OBVIOUS
  <2>4. SumOf(f, T) \in Int /\ SumOf(g, T) \in Int
    BY <2>1, <2>2, SumInt
  <2>5. /\ SumOf(f, T \cup {x}) = SumOf(f, T) + f[x]
        /\ SumOf(g, T \cup {x}) = SumOf(g, T) + g[x]
        /\ SumOf(h, T \cup {x}) = SumOf(h, T) + h[x]
    BY <1>2, <2>1, <2>2, <2>3, SumAdd
  <2> QED
    BY <1>2, <2>3, <2>4, <2>5
<1>3. S \in F
  <2> HIDE DEF F
  <2> QED
    BY <1>1, <1>2, SetClosed
<1> QED
  BY <1>3

(* One term taken out, and one term changed.                               *)
LEMMA SumWithout ==
  ASSUME NEW S, IsFiniteSet(S), NEW f, \A i \in S : f[i] \in Int, NEW x \in S
  PROVE  SumOf(f, S) = SumOf(f, S \ {x}) + f[x] /\ SumOf(f, S \ {x}) \in Int
<1>1. IsFiniteSet(S \ {x}) /\ x \notin S \ {x} /\ (S \ {x}) \cup {x} = S
  BY FS_Subset
<1>2. \A i \in S \ {x} : f[i] \in Int
  OBVIOUS
<1>3. SumOf(f, (S \ {x}) \cup {x}) = SumOf(f, S \ {x}) + f[x]
  BY <1>1, <1>2, SumAdd
<1>4. SumOf(f, S \ {x}) \in Int
  BY <1>1, <1>2, SumInt
<1> QED
  BY <1>1, <1>3, <1>4

LEMMA SumChanged ==
  ASSUME NEW S, IsFiniteSet(S), NEW f, NEW g, NEW x \in S,
         \A i \in S : f[i] \in Int /\ g[i] \in Int /\ (i # x => g[i] = f[i])
  PROVE  SumOf(g, S) = SumOf(f, S) - f[x] + g[x]
<1>1. SumOf(f, S) = SumOf(f, S \ {x}) + f[x] /\ SumOf(f, S \ {x}) \in Int
  BY SumWithout
<1>2. SumOf(g, S) = SumOf(g, S \ {x}) + g[x]
  BY SumWithout
<1>3. IsFiniteSet(S \ {x})
  BY FS_Subset
<1>4. SumOf(f, S \ {x}) = SumOf(g, S \ {x})
  BY <1>3, SumSame
<1> QED
  BY <1>1, <1>2, <1>4

(* Shares of one quantity, each rounded down, are within it together.      *)
LEMMA SumScaled ==
  ASSUME NEW S, IsFiniteSet(S), NEW f, NEW g, NEW h \in Nat, NEW w \in Nat,
         \A i \in S : f[i] \in Nat /\ g[i] \in Nat /\ w * g[i] <= h * f[i]
  PROVE  w * SumOf(g, S) <= h * SumOf(f, S)
<1> DEFINE F == {T \in SUBSET S : w * SumOf(g, T) <= h * SumOf(f, T)}
<1>1. {} \in F
  BY SumEmpty
<1>2. ASSUME NEW T \in SUBSET S, NEW x \in S, T \in F, x \notin T PROVE T \cup {x} \in F
  <2>1. IsFiniteSet(T)
    BY FS_Subset
  <2>2. \A i \in T : f[i] \in Nat /\ g[i] \in Nat
    OBVIOUS
  <2>3. f[x] \in Nat /\ g[x] \in Nat /\ w * g[x] <= h * f[x]
    OBVIOUS
  <2>4. SumOf(f, T) \in Nat /\ SumOf(g, T) \in Nat
    BY <2>1, <2>2, SumNat
  <2>5. SumOf(f, T \cup {x}) = SumOf(f, T) + f[x] /\ SumOf(g, T \cup {x}) = SumOf(g, T) + g[x]
    BY <1>2, <2>1, <2>2, <2>3, SumAdd
  <2>6. ASSUME NEW a \in Nat, NEW b \in Nat, NEW c \in Nat, NEW d \in Nat,
               w * a <= h * c, w * b <= h * d
        PROVE  w * (a + b) <= h * (c + d)
    <3>1. /\ w * (a + b) = w * a + w * b /\ h * (c + d) = h * c + h * d
          /\ w * a \in Nat /\ w * b \in Nat /\ h * c \in Nat /\ h * d \in Nat
      BY <2>6
    <3> QED
      BY <2>6, <3>1
  <2>7. w * (SumOf(g, T) + g[x]) <= h * (SumOf(f, T) + f[x])
    <3>1. w * SumOf(g, T) <= h * SumOf(f, T)
      BY <1>2
    <3> QED
      BY <2>3, <2>4, <2>6, <3>1
  <2> QED
    BY <2>5, <2>7
<1>3. S \in F
  <2> HIDE DEF F
  <2> QED
    BY <1>1, <1>2, SetClosed
<1> QED
  BY <1>3

LEMMA SumShares ==
  ASSUME NEW S, IsFiniteSet(S), NEW f, NEW g, NEW h \in Nat,
         \A i \in S : f[i] \in Nat /\ g[i] \in Nat /\ 100 * g[i] <= h * f[i]
  PROVE  100 * SumOf(g, S) <= h * SumOf(f, S)
<1>1. PICK w \in Nat : w = 100
  OBVIOUS
<1>2. \A i \in S : f[i] \in Nat /\ g[i] \in Nat /\ w * g[i] <= h * f[i]
  BY <1>1
<1>3. w * SumOf(g, S) <= h * SumOf(f, S)
  BY <1>2, SumScaled
<1> QED
  BY <1>1, <1>3

\* No term above c: no sum above c for each term.
LEMMA SumBound ==
  ASSUME NEW S, IsFiniteSet(S), NEW f, NEW c \in Nat, \A i \in S : f[i] \in Nat /\ f[i] <= c
  PROVE  SumOf(f, S) <= c * Cardinality(S)
<1> DEFINE F == {T \in SUBSET S : SumOf(f, T) <= c * Cardinality(T)}
<1>1. {} \in F
  <2>1. SumOf(f, {}) = 0 /\ Cardinality({}) = 0
    BY SumEmpty, FS_EmptySet
  <2> QED
    BY <2>1
<1>2. ASSUME NEW T \in SUBSET S, NEW x \in S, T \in F, x \notin T PROVE T \cup {x} \in F
  <2>1. IsFiniteSet(T)
    BY FS_Subset
  <2>2. \A i \in T : f[i] \in Nat
    OBVIOUS
  <2>3. f[x] \in Nat /\ f[x] <= c /\ x \notin T
    BY <1>2
  <2>4. SumOf(f, T) \in Nat /\ Cardinality(T) \in Nat
    BY <2>1, <2>2, SumNat, FS_CardinalityType
  <2>5. SumOf(f, T \cup {x}) = SumOf(f, T) + f[x]
    BY <2>1, <2>2, <2>3, SumAdd
  <2>6. Cardinality(T \cup {x}) = Cardinality(T) + 1
    BY <1>2, <2>1, FS_AddElement
  <2>7. SumOf(f, T) <= c * Cardinality(T)
    BY <1>2
  <2>8. SumOf(f, T) + f[x] <= c * (Cardinality(T) + 1)
    <3>1. ASSUME NEW a \in Nat, NEW b \in Nat, NEW n \in Nat, a <= c * n, b <= c
          PROVE  a + b <= c * (n + 1)
      <4>1. c * (n + 1) = c * n + c /\ c * n \in Nat
        OBVIOUS
      <4> QED
        BY <3>1, <4>1
    <3> QED
      BY <2>3, <2>4, <2>7, <3>1
  <2> QED
    BY <2>5, <2>6, <2>8
<1>3. S \in F
  <2> HIDE DEF F
  <2> QED
    BY <1>1, <1>2, SetClosed
<1> QED
  BY <1>3

=============================================================================
