------------------------- MODULE FairPrefill_proofs -------------------------
(***************************************************************************)
(* Theorems about FairPrefill, for any number of requests, any lengths,    *)
(* priorities, budgets and pipelines: types, the budgets balance, long     *)
(* prompts share the chunk, decodes ride along, and a pipeline passes over *)
(* no decode for a whole round.  The argument is in FairInvariant.         *)
(***************************************************************************)
EXTENDS FairInvariant, TLAPS, FiniteSetTheorems, SequenceTheorems,
        WellFoundedInduction, NaturalsInduction

-----------------------------------------------------------------------------
(* Sets of requests are finite. *)
LEMMA Requests ==
    ASSUME NEW S, S \subseteq Req
    PROVE  IsFiniteSet(S) /\ Cardinality(S) \in Nat
  <1>1. IsFiniteSet(Req)
    BY FairPrefillAssumption, FS_Interval DEF Req
  <1> QED
    BY <1>1, FS_Subset, FS_CardinalityType

LEMMA Counted ==
    ASSUME NEW S, NEW T, T \subseteq Req, S \subseteq T
    PROVE  Cardinality(S) <= Cardinality(T) /\ (Cardinality(S) = Cardinality(T) => S = T)
  <1>1. IsFiniteSet(T)
    BY Requests
  <1> QED
    BY <1>1, FS_Subset

LEMMA CountedApart ==
    ASSUME NEW S, NEW T, S \subseteq Req, T \subseteq Req, S \cap T = {}
    PROVE  Cardinality(S \cup T) = Cardinality(S) + Cardinality(T)
  <1>1. IsFiniteSet(S) /\ IsFiniteSet(T) /\ Cardinality(S) \in Nat /\ Cardinality(T) \in Nat
    BY Requests
  <1>2. Cardinality(S \cup T) = Cardinality(S) + Cardinality(T) - Cardinality(S \cap T)
    BY <1>1, FS_Union
  <1>3. Cardinality(S \cap T) = 0
    BY FS_EmptySet
  <1> QED
    BY <1>1, <1>2, <1>3

-----------------------------------------------------------------------------
(* The units that a sum counts. *)
Units(f, S) == UNION {{r} \X (1 .. f[r]) : r \in S}

LEMMA UnitsAre ==
    ASSUME NEW f, NEW S, NEW u
    PROVE  u \in Units(f, S) <=> \E r \in S : \E k \in 1 .. f[r] : u = <<r, k>>
  BY DEF Units

LEMMA UnitsFinite ==
    ASSUME NEW f \in [Req -> Nat], NEW S, S \subseteq Req
    PROVE  IsFiniteSet(Units(f, S))
  <1> DEFINE g == [r \in S |-> {r} \X (1 .. f[r])]
             T == {{r} \X (1 .. f[r]) : r \in S}
  <1>1. g \in Surjection(S, T)
    BY DEF Surjection
  <1>2. IsFiniteSet(S)
    BY Requests
  <1>3. IsFiniteSet(T)
    BY <1>1, <1>2, FS_Surjection
  <1>4. ASSUME NEW r \in S PROVE IsFiniteSet({r} \X (1 .. f[r]))
    <2>1. f[r] \in Int /\ 1 \in Int
      OBVIOUS
    <2>2. IsFiniteSet({r}) /\ IsFiniteSet(1 .. f[r])
      BY <2>1, FS_Singleton, FS_Interval
    <2> QED
      BY <2>2, FS_Product
  <1>5. \A U \in T : IsFiniteSet(U)
    BY <1>4
  <1> QED
    BY <1>3, <1>5, FS_UNION DEF Units

LEMMA SumType ==
    ASSUME NEW f \in [Req -> Nat], NEW S, S \subseteq Req
    PROVE  Sum(f, S) \in Nat
  BY UnitsFinite, FS_CardinalityType DEF Sum, Units

LEMMA SumApart ==
    ASSUME NEW f \in [Req -> Nat], NEW S, NEW T, S \subseteq Req, T \subseteq Req, S \cap T = {}
    PROVE  Sum(f, S \cup T) = Sum(f, S) + Sum(f, T)
  <1>1. IsFiniteSet(Units(f, S)) /\ IsFiniteSet(Units(f, T))
    BY UnitsFinite
  <1>2. Units(f, S \cup T) = Units(f, S) \cup Units(f, T)
    BY DEF Units
  <1>3. Units(f, S) \cap Units(f, T) = {}
    <2> SUFFICES ASSUME NEW u, u \in Units(f, S), u \in Units(f, T) PROVE FALSE
      OBVIOUS
    <2>1. PICK r \in S : \E k \in 1 .. f[r] : u = <<r, k>>
      BY UnitsAre
    <2>2. PICK q \in T : \E k \in 1 .. f[q] : u = <<q, k>>
      BY UnitsAre
    <2>3. r = q
      BY <2>1, <2>2
    <2> QED
      BY <2>3
  <1>4. Cardinality(Units(f, S) \cap Units(f, T)) = 0
    BY <1>3, FS_EmptySet
  <1>5. Cardinality(Units(f, S)) \in Nat /\ Cardinality(Units(f, T)) \in Nat
    BY <1>1, FS_CardinalityType
  <1>6. Cardinality(Units(f, S) \cup Units(f, T))
          = Cardinality(Units(f, S)) + Cardinality(Units(f, T))
              - Cardinality(Units(f, S) \cap Units(f, T))
    BY <1>1, FS_Union
  <1>8. Cardinality(Units(f, S) \cup Units(f, T))
          = Cardinality(Units(f, S)) + Cardinality(Units(f, T))
    <2> DEFINE a == Cardinality(Units(f, S))
               b == Cardinality(Units(f, T))
               c == Cardinality(Units(f, S) \cap Units(f, T))
    <2>1. a \in Nat /\ b \in Nat /\ c = 0
      BY <1>4, <1>5
    <2>2. Cardinality(Units(f, S) \cup Units(f, T)) = a + b - c
      BY <1>6
    <2> HIDE DEF a, b, c
    <2>3. Cardinality(Units(f, S) \cup Units(f, T)) = a + b
      BY <2>1, <2>2
    <2> QED
      BY <2>3 DEF a, b
  <1>7. Cardinality(Units(f, S \cup T)) = Cardinality(Units(f, S)) + Cardinality(Units(f, T))
    BY <1>2, <1>8, Zenon
  <1> QED
    BY <1>7 DEF Sum, Units

LEMMA SumOne ==
    ASSUME NEW f \in [Req -> Nat], NEW r \in Req
    PROVE  Sum(f, {r}) = f[r]
  <1>1. UNION {{q} \X (1 .. f[q]) : q \in {r}} = {r} \X (1 .. f[r])
    OBVIOUS
  <1>2. f[r] \in Nat
    OBVIOUS
  <1>3. IsFiniteSet(1 .. f[r]) /\ Cardinality(1 .. f[r]) = f[r]
    <2>1. 1 \in Int /\ f[r] \in Int
      BY <1>2
    <2>2. Cardinality(1 .. f[r]) = IF 1 > f[r] THEN 0 ELSE f[r] - 1 + 1
      BY <2>1, FS_Interval
    <2>3. IsFiniteSet(1 .. f[r])
      BY <2>1, FS_Interval
    <2> QED
      BY <1>2, <2>2, <2>3
  <1>4. IsFiniteSet({r}) /\ Cardinality({r}) = 1
    BY FS_Singleton
  <1>5. Cardinality({r} \X (1 .. f[r])) = Cardinality({r}) * Cardinality(1 .. f[r])
    BY <1>3, <1>4, FS_Product
  <1>6. Cardinality({r} \X (1 .. f[r])) = f[r]
    BY <1>2, <1>3, <1>4, <1>5
  <1> QED
    BY <1>1, <1>6 DEF Sum

LEMMA SumSame ==
    ASSUME NEW f, NEW g, NEW S, \A r \in S : f[r] = g[r]
    PROVE  Sum(f, S) = Sum(g, S)
  <1>1. {{r} \X (1 .. f[r]) : r \in S} = {{r} \X (1 .. g[r]) : r \in S}
    OBVIOUS
  <1> QED
    BY <1>1 DEF Sum

LEMMA SumOnes ==
    ASSUME NEW f, NEW S, S \subseteq Req, \A r \in S : f[r] = 1
    PROVE  Sum(f, S) = Cardinality(S)
  <1>1. UNION {{r} \X (1 .. f[r]) : r \in S} = S \X {1}
    <2> SUFFICES ASSUME NEW u
                 PROVE  u \in Units(f, S) <=> u \in S \X {1}
      BY DEF Units
    <2>1. u \in Units(f, S) <=> \E r \in S : \E k \in 1 .. f[r] : u = <<r, k>>
      BY UnitsAre
    <2>2. u \in Units(f, S) <=> \E r \in S : u = <<r, 1>>
      BY <2>1
    <2> QED
      BY <2>2
  <1>2. IsFiniteSet(S) /\ Cardinality(S) \in Nat
    BY Requests
  <1>3. IsFiniteSet({1}) /\ Cardinality({1}) = 1
    BY FS_Singleton
  <1>4. Cardinality(S \X {1}) = Cardinality(S) * Cardinality({1})
    BY <1>2, <1>3, FS_Product
  <1>5. Cardinality(S \X {1}) = Cardinality(S)
    <2> DEFINE c == Cardinality(S)
    <2>1. c \in Nat /\ Cardinality(S \X {1}) = c * 1
      BY <1>2, <1>3, <1>4
    <2> HIDE DEF c
    <2>2. Cardinality(S \X {1}) = c
      BY <2>1
    <2> QED
      BY <2>2 DEF c
  <1> QED
    BY <1>1, <1>5, Zenon DEF Sum

LEMMA SumZero ==
    ASSUME NEW f, NEW S, \A r \in S : f[r] = 0
    PROVE  Sum(f, S) = 0
  <1>1. UNION {{r} \X (1 .. f[r]) : r \in S} = {}
    OBVIOUS
  <1> QED
    BY <1>1, FS_EmptySet DEF Sum

(* What a sum becomes when one request's number changes. *)
LEMMA SumChange ==
    ASSUME NEW f \in [Req -> Nat], NEW g \in [Req -> Nat], NEW S, S \subseteq Req, NEW r \in S,
           \A q \in S \ {r} : f[q] = g[q]
    PROVE  Sum(g, S) = Sum(f, S) - f[r] + g[r]
  <1> DEFINE U == S \ {r}
  <1>1. U \cup {r} = S /\ U \cap {r} = {} /\ U \subseteq Req /\ {r} \subseteq Req /\ r \in Req
    OBVIOUS
  <1>2. Sum(f, U \cup {r}) = Sum(f, U) + Sum(f, {r})
    BY <1>1, SumApart
  <1>3. Sum(g, U \cup {r}) = Sum(g, U) + Sum(g, {r})
    BY <1>1, SumApart
  <1>4. Sum(f, U) = Sum(g, U)
    BY SumSame
  <1>5. Sum(f, {r}) = f[r] /\ Sum(g, {r}) = g[r]
    BY <1>1, SumOne
  <1>6. Sum(f, U) \in Nat /\ f[r] \in Nat /\ g[r] \in Nat
    BY <1>1, SumType
  <1>7. U \cup {r} = S
    BY <1>1
  <1> HIDE DEF U
  <1>8. Sum(f, S) = Sum(f, U) + f[r] /\ Sum(g, S) = Sum(f, U) + g[r]
    BY <1>2, <1>3, <1>4, <1>5, <1>7
  <1> QED
    BY <1>6, <1>8

LEMMA SumGrows ==
    ASSUME NEW f \in [Req -> Nat], NEW g \in [Req -> Nat], NEW r \in Req, f[r] = 0,
           \A q \in Req \ {r} : g[q] = f[q]
    PROVE  Sum(g, Req) = Sum(f, Req) + g[r]
  <1>1. \A q \in Req \ {r} : f[q] = g[q]
    OBVIOUS
  <1>2. Sum(g, Req) = Sum(f, Req) - f[r] + g[r]
    BY <1>1, SumChange
  <1>3. Sum(f, Req) \in Nat /\ g[r] \in Nat
    BY SumType
  <1> QED
    BY <1>2, <1>3

LEMMA SumPart ==
    ASSUME NEW f \in [Req -> Nat], NEW S, NEW T, T \subseteq Req, S \subseteq T
    PROVE  /\ Sum(f, T) = Sum(f, S) + Sum(f, T \ S)
           /\ Sum(f, S) <= Sum(f, T)
  <1>1. S \cup (T \ S) = T /\ S \cap (T \ S) = {} /\ S \subseteq Req /\ T \ S \subseteq Req
    OBVIOUS
  <1>2. Sum(f, S \cup (T \ S)) = Sum(f, S) + Sum(f, T \ S)
    BY <1>1, SumApart
  <1>3. Sum(f, S) \in Nat /\ Sum(f, T \ S) \in Nat
    BY <1>1, SumType
  <1>4. Sum(f, T) = Sum(f, S) + Sum(f, T \ S)
    BY <1>1, <1>2
  <1> QED
    BY <1>3, <1>4

-----------------------------------------------------------------------------
(* A set of numbers that is not empty has a least one. *)
Less == OpToRel(<, Nat)

LEMMA LessWF == IsWellFoundedOn(Less, Nat)
  BY NatLessThanWellFounded, Zenon DEF Less

LEMMA LessIs ==
    ASSUME NEW x \in Nat, NEW y \in Nat, <<x, y>> \notin Less
    PROVE  ~(x < y)
  BY Zenon DEF Less, OpToRel

LEMMA LeastOf ==
    ASSUME NEW T, T \subseteq Nat, T # {}
    PROVE  \E m \in T : \A n \in T : m <= n
  <1>1. PICK m \in T : \A n \in T : <<n, m>> \notin Less
    BY LessWF, WFMin
  <1>2. \A n \in T : ~(n < m)
    BY <1>1, LessIs
  <1>3. m \in Nat /\ \A n \in T : n \in Nat
    OBVIOUS
  <1>4. \A n \in T : m <= n
    BY <1>2, <1>3
  <1> QED
    BY <1>4

(* The policy orders the requests, so that the one to take first and the    *)
(* one to preempt first are among the candidates.                           *)
LEMMA Ordered ==
    ASSUME prio \in [Req -> Prios], NEW q \in Req, NEW r \in Req, NEW t \in Req
    PROVE  /\ ~Before(q, q)
           /\ q # r => (Before(q, r) <=> ~Before(r, q))
           /\ Before(q, r) /\ Before(r, t) => Before(q, t)
  <1>1. prio[q] \in Nat /\ prio[r] \in Nat /\ prio[t] \in Nat
    BY FairPrefillAssumption
  <1>2. q \in Int /\ r \in Int /\ t \in Int
    BY FairPrefillAssumption DEF Req
  <1> QED
    BY <1>1, <1>2 DEF Before

LEMMA FirstFacts ==
    ASSUME prio \in [Req -> Prios], NEW S, S \subseteq Req, S # {}
    PROVE  First(S) \in S
  <1> DEFINE lower(r) == {q \in S : Before(q, r)}
             T == {Cardinality(lower(r)) : r \in S}
  <1>1. \A r \in S : lower(r) \subseteq Req /\ Cardinality(lower(r)) \in Nat
    BY Requests
  <1>2. T \subseteq Nat /\ T # {}
    BY <1>1
  <1>3. PICK m \in T : \A n \in T : m <= n
    BY <1>2, LeastOf
  <1>4. PICK r \in S : m = Cardinality(lower(r))
    BY <1>3
  <1>5. ASSUME NEW q \in S \ {r} PROVE Before(r, q)
    <2> SUFFICES ASSUME Before(q, r) PROVE FALSE
      BY Ordered
    <2>1. lower(q) \subseteq lower(r) /\ q \in lower(r) /\ q \notin lower(q)
      BY Ordered
    <2>2. Cardinality(lower(q)) <= Cardinality(lower(r)) /\ Cardinality(lower(q)) # Cardinality(lower(r))
      BY <1>1, <2>1, Counted
    <2>3. Cardinality(lower(q)) \in T
      OBVIOUS
    <2>4. Cardinality(lower(r)) <= Cardinality(lower(q))
      BY <1>3, <1>4, <2>3
    <2> QED
      BY <1>1, <2>2, <2>4
  <1> QED
    BY <1>5 DEF First

LEMMA WorstFacts ==
    ASSUME prio \in [Req -> Prios], NEW S, S \subseteq Req, S # {}
    PROVE  Worst(S) \in S
  <1> DEFINE upper(r) == {q \in S : Before(r, q)}
             T == {Cardinality(upper(r)) : r \in S}
  <1>1. \A r \in S : upper(r) \subseteq Req /\ Cardinality(upper(r)) \in Nat
    BY Requests
  <1>2. T \subseteq Nat /\ T # {}
    BY <1>1
  <1>3. PICK m \in T : \A n \in T : m <= n
    BY <1>2, LeastOf
  <1>4. PICK r \in S : m = Cardinality(upper(r))
    BY <1>3
  <1>5. ASSUME NEW q \in S \ {r} PROVE Before(q, r)
    <2> SUFFICES ASSUME Before(r, q) PROVE FALSE
      BY Ordered
    <2>1. upper(q) \subseteq upper(r) /\ q \in upper(r) /\ q \notin upper(q)
      BY Ordered
    <2>2. Cardinality(upper(q)) <= Cardinality(upper(r)) /\ Cardinality(upper(q)) # Cardinality(upper(r))
      BY <1>1, <2>1, Counted
    <2>3. Cardinality(upper(q)) \in T
      OBVIOUS
    <2>4. Cardinality(upper(r)) <= Cardinality(upper(q))
      BY <1>3, <1>4, <2>3
    <2> QED
      BY <1>1, <2>2, <2>4
  <1> QED
    BY <1>5 DEF Worst

-----------------------------------------------------------------------------
(* A list without some of its requests: the indices that are left, counted  *)
(* up, are the indices of the new list.                                     *)
Kept(s, gone) == {i \in DOMAIN s : s[i] \notin gone}
Rank(s, gone, i) == Cardinality({j \in Kept(s, gone) : j <= i})
From(s, gone, k) == CHOOSE i \in Kept(s, gone) : Rank(s, gone, i) = k

LEMMA WithoutIs ==
    ASSUME NEW s, NEW gone
    PROVE  Without(s, gone) = [k \in 1 .. Cardinality(Kept(s, gone)) |-> s[From(s, gone, k)]]
  BY DEF Without, Kept, Rank, From

LEMMA RankFacts ==
    ASSUME NEW s \in Seq(Req), NEW gone
    PROVE  /\ Kept(s, gone) \subseteq 1 .. Len(s) /\ Len(s) \in Nat
           /\ Cardinality(Kept(s, gone)) \in Nat /\ Cardinality(Kept(s, gone)) <= Len(s)
           /\ \A i \in Kept(s, gone) : Rank(s, gone, i) \in 1 .. Cardinality(Kept(s, gone))
           /\ \A i, j \in Kept(s, gone) : i < j => Rank(s, gone, i) < Rank(s, gone, j)
           /\ \A k \in 1 .. Cardinality(Kept(s, gone)) :
                \E i \in Kept(s, gone) : Rank(s, gone, i) = k
  <1> DEFINE L == Kept(s, gone)
             low(i) == {j \in L : j <= i}
             rank == [i \in L |-> Cardinality(low(i))]
             n == Cardinality(L)
  <1>1. Len(s) \in Nat /\ DOMAIN s = 1 .. Len(s)
    BY LenProperties
  <1>2. L \subseteq 1 .. Len(s)
    BY <1>1 DEF Kept
  <1>3. IsFiniteSet(1 .. Len(s)) /\ Cardinality(1 .. Len(s)) = Len(s)
    <2>1. 1 \in Int /\ Len(s) \in Int
      BY <1>1
    <2>2. IsFiniteSet(1 .. Len(s)) /\ Cardinality(1 .. Len(s)) = IF 1 > Len(s) THEN 0 ELSE Len(s) - 1 + 1
      BY <2>1, FS_Interval
    <2> QED
      BY <1>1, <2>2
  <1>4. IsFiniteSet(L) /\ n \in Nat /\ n <= Len(s)
    <2>1. IsFiniteSet(L) /\ Cardinality(L) <= Cardinality(1 .. Len(s))
      BY <1>2, <1>3, FS_Subset
    <2> QED
      BY <1>3, <2>1, FS_CardinalityType
  <1>14. \A i \in L : Rank(s, gone, i) = Cardinality(low(i))
    BY DEF Rank
  <1>15. \A i \in L : i \in Nat
    BY <1>2
  <1> HIDE DEF L
  <1>5. \A i \in L : IsFiniteSet(low(i)) /\ Cardinality(low(i)) \in Nat
    BY <1>4, FS_Subset, FS_CardinalityType
  <1>6. ASSUME NEW i \in L PROVE Cardinality(low(i)) \in 1 .. n
    <2>1. i \in low(i) /\ i \in Nat
      BY <1>2
    <2>2. Cardinality(low(i)) # 0
      BY <1>5, <2>1, FS_EmptySet
    <2>3. Cardinality(low(i)) <= n
      BY <1>4, FS_Subset
    <2> QED
      <3> DEFINE c == Cardinality(low(i))
      <3>1. c \in Nat /\ c # 0 /\ c <= n /\ n \in Nat
        BY <1>4, <1>5, <2>2, <2>3
      <3> HIDE DEF c, n
      <3>2. c \in 1 .. n
        BY <3>1
      <3> QED
        BY <3>2 DEF c, n
  <1>7. ASSUME NEW i \in L, NEW j \in L, i < j
        PROVE  Cardinality(low(i)) < Cardinality(low(j))
    <2>1. i \in Nat /\ j \in Nat
      BY <1>15
    <2>3. low(i) \subseteq low(j) /\ j \in low(j) /\ j \notin low(i)
      <3>1. ASSUME NEW k \in low(i) PROVE k \in low(j)
        <4>1. k \in L /\ k <= i /\ k \in Nat
          BY <1>15
        <4>2. k <= j
          BY <1>7, <2>1, <4>1
        <4> QED
          BY <4>1, <4>2
      <3>2. ~(j <= i) /\ j <= j
        BY <1>7, <2>1
      <3> QED
        BY <3>1, <3>2
    <2>4. Cardinality(low(i)) <= Cardinality(low(j)) /\ Cardinality(low(i)) # Cardinality(low(j))
      BY <1>5, <2>3, FS_Subset
    <2> DEFINE c == Cardinality(low(i))
               d == Cardinality(low(j))
    <2>5. c \in Nat /\ d \in Nat /\ c <= d /\ c # d
      BY <1>5, <2>4
    <2> HIDE DEF c, d
    <2>6. c < d
      BY <2>5
    <2> QED
      BY <2>6 DEF c, d
  <1>8. rank \in [L -> 1 .. n]
    BY <1>6
  <1>9. rank \in Injection(L, 1 .. n)
    <2>1. ASSUME NEW i \in L, NEW j \in L, rank[i] = rank[j] PROVE i = j
      <3>1. i \in Nat /\ j \in Nat
        BY <1>15
      <3>2. ~(i < j) /\ ~(j < i)
        <4> DEFINE c == Cardinality(low(i))
                   d == Cardinality(low(j))
        <4>1. c \in Nat /\ d \in Nat /\ c = d /\ (i < j => c < d) /\ (j < i => d < c)
          BY <1>5, <1>7, <2>1
        <4> HIDE DEF c, d
        <4> QED
          BY <4>1
      <3> QED
        BY <3>1, <3>2
    <2> QED
      BY <1>8, <2>1 DEF Injection, IsInjective
  <1>10. IsFiniteSet(1 .. n) /\ Cardinality(1 .. n) = n
    <2> HIDE DEF n
    <2>1. 1 \in Int /\ n \in Int
      BY <1>4
    <2>2. IsFiniteSet(1 .. n) /\ Cardinality(1 .. n) = IF 1 > n THEN 0 ELSE n - 1 + 1
      BY <2>1, FS_Interval
    <2> QED
      BY <1>4, <2>2
  <1>11. rank \in Surjection(L, 1 .. n)
    BY <1>9, <1>10, FS_Injection
  <1>12. \A k \in 1 .. n : \E i \in L : rank[i] = k
    BY <1>11 DEF Surjection
  <1> QED
    BY <1>1, <1>2, <1>4, <1>6, <1>7, <1>12, <1>14 DEF L

LEMMA FromFacts ==
    ASSUME NEW s \in Seq(Req), NEW gone
    PROVE  /\ DOMAIN Without(s, gone) = 1 .. Cardinality(Kept(s, gone))
           /\ \A k \in 1 .. Cardinality(Kept(s, gone)) :
                /\ From(s, gone, k) \in Kept(s, gone) /\ Rank(s, gone, From(s, gone, k)) = k
                /\ Without(s, gone)[k] = s[From(s, gone, k)]
           /\ \A i \in Kept(s, gone) : From(s, gone, Rank(s, gone, i)) = i
  <1>1. \A k \in 1 .. Cardinality(Kept(s, gone)) :
           From(s, gone, k) \in Kept(s, gone) /\ Rank(s, gone, From(s, gone, k)) = k
    BY RankFacts DEF From
  <1>2. ASSUME NEW i \in Kept(s, gone), NEW j \in Kept(s, gone),
               Rank(s, gone, i) = Rank(s, gone, j)
        PROVE  i = j
    <2>1. i \in Nat /\ j \in Nat
      BY RankFacts
    <2>2. Rank(s, gone, i) \in Nat
      BY RankFacts
    <2>3. ~(i < j) /\ ~(j < i)
      BY <1>2, <2>2, RankFacts
    <2> QED
      BY <2>1, <2>3
  <1>3. ASSUME NEW i \in Kept(s, gone) PROVE From(s, gone, Rank(s, gone, i)) = i
    <2> DEFINE k == Rank(s, gone, i)
    <2>1. k \in 1 .. Cardinality(Kept(s, gone))
      BY RankFacts
    <2>2. From(s, gone, k) \in Kept(s, gone) /\ Rank(s, gone, From(s, gone, k)) = Rank(s, gone, i)
      BY <1>1, <2>1
    <2> QED
      BY <1>2, <2>2
  <1> QED
    BY <1>1, <1>3, WithoutIs

LEMMA WithoutFacts ==
    ASSUME NEW s \in Seq(Req), IsInjective(s), NEW gone
    PROVE  /\ Without(s, gone) \in Seq(Req) /\ IsInjective(Without(s, gone))
           /\ Len(Without(s, gone)) <= Len(s)
           /\ ToSet(Without(s, gone)) = ToSet(s) \ gone
           /\ \A i, j \in DOMAIN s : s[i] \notin gone /\ s[j] \notin gone =>
                \E k, l \in DOMAIN Without(s, gone) :
                   /\ Without(s, gone)[k] = s[i] /\ Without(s, gone)[l] = s[j]
                   /\ (i < j <=> k < l)
  <1> DEFINE L == Kept(s, gone)
             W == Without(s, gone)
             n == Cardinality(L)
             F(k) == From(s, gone, k)
             R(i) == Rank(s, gone, i)
  <1>1. /\ L \subseteq 1 .. Len(s) /\ Len(s) \in Nat /\ n \in Nat /\ n <= Len(s)
        /\ \A i \in L : R(i) \in 1 .. n
        /\ \A i, j \in L : i < j => R(i) < R(j)
    BY RankFacts
  <1>2. /\ DOMAIN W = 1 .. n
        /\ \A k \in 1 .. n : F(k) \in L /\ R(F(k)) = k /\ W[k] = s[F(k)]
        /\ \A i \in L : F(R(i)) = i
    BY FromFacts
  <1>3. DOMAIN s = 1 .. Len(s) /\ \A i \in 1 .. Len(s) : s[i] \in Req
    BY LenProperties, ElementOfSeq
  <1>4. L = {i \in 1 .. Len(s) : s[i] \notin gone}
    BY <1>3 DEF Kept
  <1>5. W \in Seq(Req) /\ Len(W) = n
    <2>1. W = [k \in 1 .. n |-> s[F(k)]]
      BY WithoutIs
    <2>2. \A k \in 1 .. n : s[F(k)] \in Req
      BY <1>2, <1>3, <1>4
    <2>3. W \in [1 .. n -> Req]
      BY <2>1, <2>2
    <2>4. W \in Seq(Req)
      BY <1>1, <2>3, SeqDef
    <2> QED
      BY <1>1, <1>2, <2>4, LenProperties
  <1> HIDE DEF L, W, n, F, R
  <1>6. IsInjective(W)
    <2> SUFFICES ASSUME NEW k \in 1 .. n, NEW l \in 1 .. n, W[k] = W[l] PROVE k = l
      BY <1>2 DEF IsInjective
    <2>1. F(k) \in DOMAIN s /\ F(l) \in DOMAIN s /\ s[F(k)] = s[F(l)]
      BY <1>2, <1>3, <1>4
    <2>2. F(k) = F(l)
      BY <2>1 DEF IsInjective
    <2> QED
      BY <1>2, <2>2
  <1>7. ToSet(W) = ToSet(s) \ gone
    <2>1. ASSUME NEW r \in ToSet(W) PROVE r \in ToSet(s) \ gone
      <3>1. PICK k \in 1 .. n : r = W[k]
        BY <1>2 DEF ToSet
      <3>2. F(k) \in DOMAIN s /\ r = s[F(k)] /\ s[F(k)] \notin gone
        BY <1>2, <1>3, <1>4, <3>1
      <3> QED
        BY <3>2 DEF ToSet
    <2>2. ASSUME NEW r \in ToSet(s) \ gone PROVE r \in ToSet(W)
      <3>1. PICK i \in DOMAIN s : r = s[i]
        BY DEF ToSet
      <3>2. i \in L
        BY <1>3, <1>4, <3>1
      <3>3. R(i) \in DOMAIN W /\ W[R(i)] = r
        BY <1>1, <1>2, <3>1, <3>2
      <3> QED
        BY <3>3 DEF ToSet
    <2> QED
      BY <2>1, <2>2
  <1>8. ASSUME NEW i \in DOMAIN s, NEW j \in DOMAIN s, s[i] \notin gone, s[j] \notin gone
        PROVE  \E k, l \in DOMAIN W : W[k] = s[i] /\ W[l] = s[j] /\ (i < j <=> k < l)
    <2>1. i \in L /\ j \in L /\ i \in Nat /\ j \in Nat
      BY <1>3, <1>4, <1>8
    <2>2. /\ R(i) \in 1 .. n /\ R(j) \in 1 .. n /\ W[R(i)] = s[i] /\ W[R(j)] = s[j]
      BY <1>1, <1>2, <2>1
    <2>3. i < j => R(i) < R(j)
      BY <1>1, <2>1
    <2>4. j < i => R(j) < R(i)
      BY <1>1, <2>1
    <2>5. i = j => R(i) = R(j)
      OBVIOUS
    <2>6. R(i) \in Nat /\ R(j) \in Nat
      BY <1>1, <2>2
    <2>7. i < j <=> R(i) < R(j)
      BY <2>1, <2>3, <2>4, <2>5, <2>6
    <2> QED
      BY <1>2, <2>2, <2>7
  <1> QED
    BY <1>1, <1>5, <1>6, <1>7, <1>8 DEF W

(* Without one request: those behind it move up. *)
LEMMA WithoutOne ==
    ASSUME NEW s \in Seq(Req), IsInjective(s), NEW m \in 1 .. Len(s)
    PROVE  /\ Len(Without(s, {s[m]})) = Len(s) - 1
           /\ \A k \in 1 .. Len(s) - 1 :
                Without(s, {s[m]})[k] = IF k < m THEN s[k] ELSE s[k + 1]
  <1> DEFINE gone == {s[m]}
             n == Len(s)
  <1>1. n \in Nat /\ DOMAIN s = 1 .. n /\ m \in Nat /\ 1 <= m /\ m <= n
    BY LenProperties
  <1>2. \A i \in 1 .. n : i \in Nat /\ (s[i] = s[m] => i = m)
    BY <1>1 DEF IsInjective
  <1> HIDE DEF n
  <1>3. Kept(s, gone) = (1 .. n) \ {m}
    BY <1>1, <1>2 DEF Kept
  <1>4. \A a \in Nat : IsFiniteSet(1 .. a) /\ Cardinality(1 .. a) = a
    <2> SUFFICES ASSUME NEW a \in Nat PROVE IsFiniteSet(1 .. a) /\ Cardinality(1 .. a) = a
      OBVIOUS
    <2>1. 1 \in Int /\ a \in Int
      OBVIOUS
    <2>2. IsFiniteSet(1 .. a) /\ Cardinality(1 .. a) = IF 1 > a THEN 0 ELSE a - 1 + 1
      BY <2>1, FS_Interval
    <2> QED
      BY <2>2
  <1>5. \A a \in Nat : m \in 1 .. a => Cardinality((1 .. a) \ {m}) = a - 1
    <2> SUFFICES ASSUME NEW a \in Nat, m \in 1 .. a PROVE Cardinality((1 .. a) \ {m}) = a - 1
      OBVIOUS
    <2>1. IsFiniteSet(1 .. a) /\ Cardinality(1 .. a) = a
      BY <1>4
    <2>2. Cardinality((1 .. a) \ {m}) = IF m \in 1 .. a THEN Cardinality(1 .. a) - 1
                                        ELSE Cardinality(1 .. a)
      BY <2>1, FS_RemoveElement
    <2> QED
      BY <2>1, <2>2
  <1>6. Cardinality(Kept(s, gone)) = n - 1
    <2>1. m \in 1 .. n
      BY <1>1
    <2>2. Cardinality((1 .. n) \ {m}) = n - 1
      BY <1>1, <1>5, <2>1
    <2> QED
      BY <1>3, <2>2
  <1>7. ASSUME NEW i \in Kept(s, gone)
        PROVE  Rank(s, gone, i) = IF i < m THEN i ELSE i - 1
    <2>1. i \in 1 .. n /\ i # m /\ i \in Nat
      BY <1>2, <1>3
    <2>2. CASE i < m
      <3>1. {j \in (1 .. n) \ {m} : j <= i} = 1 .. i
        BY <1>1, <2>1, <2>2
      <3> QED
        BY <1>3, <1>4, <2>1, <2>2, <3>1 DEF Rank
    <2>3. CASE ~(i < m)
      <3>1. {j \in (1 .. n) \ {m} : j <= i} = (1 .. i) \ {m}
        BY <1>1, <2>1, <2>3
      <3>2. m \in 1 .. i
        BY <1>1, <2>1, <2>3
      <3>3. Rank(s, gone, i) = Cardinality((1 .. i) \ {m})
        BY <1>3, <3>1 DEF Rank
      <3> QED
        BY <1>5, <2>1, <2>3, <3>2, <3>3
    <2> QED
      BY <2>2, <2>3
  <1>8. Without(s, gone) \in Seq(Req) /\ DOMAIN Without(s, gone) = 1 .. n - 1
    BY <1>6, FromFacts, WithoutFacts
  <1>9. Len(Without(s, gone)) = n - 1
    <2>1. Len(Without(s, gone)) \in Nat
          /\ DOMAIN Without(s, gone) = 1 .. Len(Without(s, gone))
      BY <1>8, LenProperties
    <2> QED
      BY <1>1, <1>8, <2>1
  <1>10. ASSUME NEW k \in 1 .. n - 1
         PROVE  Without(s, gone)[k] = IF k < m THEN s[k] ELSE s[k + 1]
    <2> DEFINE i == IF k < m THEN k ELSE k + 1
    <2>1. i \in (1 .. n) \ {m} /\ (IF i < m THEN i ELSE i - 1) = k
      BY <1>1
    <2>2. i \in Kept(s, gone) /\ Rank(s, gone, i) = k
      BY <1>3, <1>7, <2>1
    <2>3. From(s, gone, k) = i
      BY <2>2, FromFacts
    <2>4. Without(s, gone)[k] = s[From(s, gone, k)]
      BY <1>6, FromFacts
    <2> QED
      BY <2>3, <2>4
  <1> QED
    BY <1>9, <1>10 DEF n

-----------------------------------------------------------------------------
(* The running list and its places. *)
LEMMA Places ==
    ASSUME TypeOK
    PROVE  /\ running \in Seq(Req) /\ Len(running) \in Nat
           /\ DOMAIN running = 1 .. Len(running)
           /\ Running \subseteq Req
           /\ \A j \in 1 .. Len(running) : running[j] \in Running /\ running[j] \in Req
           /\ \A r \in Running : \E j \in 1 .. Len(running) : running[j] = r
           /\ \A i, j \in 1 .. Len(running) : running[i] = running[j] => i = j
           /\ Cardinality(Running) = Len(running)
  <1>1. running \in Seq(Req) /\ IsInjective(running)
    BY DEF TypeOK
  <1>2. Len(running) \in Nat /\ DOMAIN running = 1 .. Len(running)
    BY <1>1, LenProperties
  <1>3. \A j \in 1 .. Len(running) : running[j] \in Req
    BY <1>1, ElementOfSeq
  <1>4. Running = {running[j] : j \in 1 .. Len(running)}
    BY <1>2 DEF Running, ToSet
  <1>5. \A i, j \in 1 .. Len(running) : running[i] = running[j] => i = j
    BY <1>1, <1>2 DEF IsInjective
  <1>6. running \in Bijection(1 .. Len(running), Running)
    <2>1. running \in [1 .. Len(running) -> Running]
      BY <1>1, <1>2, <1>4
    <2>2. running \in Injection(1 .. Len(running), Running)
      BY <1>1, <2>1 DEF Injection
    <2>3. running \in Surjection(1 .. Len(running), Running)
      BY <1>4, <2>1 DEF Surjection
    <2> QED
      BY <2>2, <2>3 DEF Bijection
  <1>7. Cardinality(Running) = Len(running)
    <2>1. ExistsBijection(1 .. Len(running), Running)
      BY <1>6 DEF ExistsBijection
    <2> QED
      BY <1>2, <2>1, FS_CountingElements
  <1> QED
    BY <1>1, <1>2, <1>3, <1>4, <1>5, <1>7

(* Each variable's type. *)
LEMMA Types ==
    ASSUME TypeOK
    PROVE  /\ N \in Nat /\ MaxTokens \in Nat /\ MaxSeqs \in Nat /\ Chunk \in Nat
           /\ Partials \in Nat /\ Lookahead \in Nat /\ Capacity \in Nat /\ MaxOutput \in Nat
           /\ pp \in Nat /\ pp >= 1 /\ bypass \in BOOLEAN
           /\ index \in Nat /\ index >= 1 /\ budget \in Nat /\ budget <= MaxTokens
           /\ tokens \in [Req -> Nat] /\ computed \in [Req -> Nat] /\ sched \in [Req -> Nat]
           /\ prompt \in [Req -> Nat] /\ passed \in [Req -> Nat]
           /\ isPrefill \in [Req -> BOOLEAN] /\ prio \in [Req -> Prios]
           /\ waiting \subseteq Req /\ waiting \cap Running = {} /\ preempted \subseteq Req
           /\ step.budget \in Nat /\ step.cap \in Nat /\ step.tokens \in Nat
           /\ step.reqs \in Nat /\ step.decodes \in Nat /\ step.decodeCap \in Nat
           /\ step.total \in Nat /\ step.carried \subseteq Req
           /\ held.req \in Req \cup {0} /\ held.n \in Nat
           /\ held.isPrefill \in BOOLEAN /\ held.reqIsPrefill \in BOOLEAN
  <1>1. /\ N \in Nat /\ MaxTokens \in Nat /\ MaxSeqs \in Nat /\ Chunk \in Nat /\ Partials \in Nat
        /\ Lookahead \in Nat /\ Capacity \in Nat /\ MaxOutput \in Nat
        /\ PPSizes \subseteq Nat \ {0}
    BY FairPrefillAssumption
  <1>2. /\ pp \in PPSizes /\ bypass \in BOOLEAN /\ index \in Nat \ {0} /\ budget \in 0 .. MaxTokens
        /\ {tokens, prompt, computed, sched, passed} \subseteq [Req -> Nat]
        /\ isPrefill \in [Req -> BOOLEAN] /\ prio \in [Req -> Prios]
        /\ waiting \subseteq Req \ Running /\ preempted \subseteq Req
    BY DEF TypeOK
  <1>3. step \in [budget : Nat, cap : Nat, tokens : Nat, reqs : Nat, decodes : Nat,
                  decodeCap : Nat, total : Nat, carried : SUBSET Req]
    BY DEF TypeOK
  <1>4. held \in [req : Req \cup {0}, n : Nat, isPrefill : BOOLEAN, reqIsPrefill : BOOLEAN]
    BY DEF TypeOK
  <1>5. /\ step.budget \in Nat /\ step.cap \in Nat /\ step.tokens \in Nat
        /\ step.reqs \in Nat /\ step.decodes \in Nat /\ step.decodeCap \in Nat
        /\ step.total \in Nat /\ step.carried \subseteq Req
    BY <1>3
  <1>6. /\ held.req \in Req \cup {0} /\ held.n \in Nat
        /\ held.isPrefill \in BOOLEAN /\ held.reqIsPrefill \in BOOLEAN
    BY <1>4
  <1>7. index \in Nat /\ index >= 1 /\ budget \in Nat /\ budget <= MaxTokens /\ pp \in Nat /\ pp >= 1
    BY <1>1, <1>2
  <1>8. /\ tokens \in [Req -> Nat] /\ computed \in [Req -> Nat] /\ sched \in [Req -> Nat]
        /\ prompt \in [Req -> Nat] /\ passed \in [Req -> Nat]
    BY <1>2
  <1> QED
    BY <1>1, <1>2, <1>5, <1>6, <1>7, <1>8

(* Each request's numbers. *)
LEMMA Numbers ==
    ASSUME TypeOK, NEW r \in Req
    PROVE  /\ tokens[r] \in Nat /\ computed[r] \in Nat /\ sched[r] \in Nat /\ prompt[r] \in Nat
           /\ passed[r] \in Nat /\ isPrefill[r] \in BOOLEAN /\ late[r] \in Nat /\ late[r] <= pp - 1
           /\ computed[r] + sched[r] <= tokens[r] /\ r \in Nat /\ r # 0
           /\ Remaining(r) \in Nat
  <1>1. /\ tokens[r] \in Nat /\ computed[r] \in Nat /\ sched[r] \in Nat /\ prompt[r] \in Nat
        /\ passed[r] \in Nat /\ isPrefill[r] \in BOOLEAN
    BY Types
  <1>2. computed[r] + sched[r] <= tokens[r] /\ late[r] \in 0 .. pp - 1
    BY DEF TypeOK
  <1>3. late[r] \in Nat /\ late[r] <= pp - 1
    BY <1>2, Types
  <1>4. r \in Nat /\ r # 0
    BY Types DEF Req
  <1> QED
    BY <1>1, <1>2, <1>3, <1>4 DEF Remaining

-----------------------------------------------------------------------------
(* A share of n decodes for each of pp steps is enough for them. *)
LEMMA Quotient ==
    ASSUME NEW a \in Nat, NEW b \in Nat \ {0}
    PROVE  a \div b \in Nat /\ b * (a \div b) <= a /\ a < b * (a \div b) + b
  OBVIOUS

LEMMA ShareFacts ==
    ASSUME pp \in Nat, pp >= 1, NEW n \in Nat
    PROVE  Share(n) \in Nat /\ pp * Share(n) >= n
  <1> DEFINE q == (n + pp - 1) \div pp
  <1>1. q \in Nat /\ n + pp - 1 < pp * q + pp
    <2>1. n + pp - 1 \in Nat /\ pp \in Nat \ {0}
      OBVIOUS
    <2> QED
      BY <2>1, Quotient
  <1> HIDE DEF q
  <1>2. n <= pp * q
    <2> DEFINE m == pp * q
    <2>1. m \in Nat
      BY <1>1
    <2>2. n + pp - 1 < m + pp
      BY <1>1
    <2> HIDE DEF m
    <2>3. n <= m
      BY <2>1, <2>2
    <2> QED
      BY <2>3 DEF m
  <1>3. q = 0 => n = 0
    BY <1>1, <1>2
  <1>4. CASE q = 0
    <2>1. Most(1, q) = 1 /\ n = 0
      BY <1>3, <1>4 DEF Most
    <2> QED
      BY <2>1 DEF Share, q
  <1>5. CASE q # 0
    <2>1. Most(1, q) = q
      BY <1>1, <1>5 DEF Most
    <2> QED
      BY <1>1, <1>2, <2>1 DEF Share, q
  <1> QED
    BY <1>4, <1>5

-----------------------------------------------------------------------------
(* What TurnOK says of one request, and when it goes on. *)
Turn(r) ==
    /\ passed[r] < pp
    /\ (pp - passed[r]) * Cardinality(Outran(r)) >= passed[r] * Cardinality(Left(r))

LEMMA TurnIs == TurnOK <=> \A r \in Running : passed[r] > 0 => Turn(r)
  BY DEF TurnOK, Turn

LEMMA Times ==
    ASSUME NEW a \in Nat, NEW b \in Nat, NEW c \in Nat, b <= c
    PROVE  a * b <= a * c /\ a * b \in Nat /\ a * c \in Nat
  OBVIOUS

LEMMA AheadFacts ==
    ASSUME TypeOK, NEW r \in Running
    PROVE  Ahead(r) \subseteq Running /\ Outran(r) \subseteq Req /\ Left(r) \subseteq Req
  <1>1. Ahead(r) \subseteq Running /\ Running \subseteq Req
    BY Places DEF Ahead
  <1> QED
    BY <1>1 DEF Outran, Left

LEMMA TurnGoesOn ==
    ASSUME NEW p \in Nat, NEW k \in Nat, k < p, NEW o \in Nat, NEW l \in Nat,
           NEW oo \in Nat, NEW ll \in Nat, (p - k) * o >= k * l, o <= oo, ll <= l
    PROVE  (p - k) * oo >= k * ll
  <1>1. p - k \in Nat
    OBVIOUS
  <1>2. (p - k) * o <= (p - k) * oo /\ (p - k) * o \in Nat /\ (p - k) * oo \in Nat
    BY <1>1, Times
  <1>3. k * ll <= k * l /\ k * ll \in Nat /\ k * l \in Nat
    BY Times
  <1> QED
    BY <1>2, <1>3

LEMMA TurnSame ==
    ASSUME TypeOK, NEW r \in Running, Turn(r),
           pp' = pp, passed'[r] = passed[r], Ahead(r)' = Ahead(r), Handled(r)' <=> Handled(r),
           \A q \in Ahead(r) \cup {r} :
              /\ late'[q] = late[q] /\ isPrefill'[q] = isPrefill[q]
              /\ Handled(r) => /\ sched'[q] = sched[q] /\ computed'[q] = computed[q]
                               /\ tokens'[q] = tokens[q]
    PROVE  Turn(r)'
  <1>1. \A q \in Ahead(r) \cup {r} : Wait(r, q)' = Wait(r, q)
    BY DEF Wait
  <1>2. Since(r)' = Since(r)
    BY DEF Since
  <1>3. Outran(r)' = Outran(r)
    BY <1>1, <1>2 DEF Outran
  <1>4. Left(r)' = Left(r)
    BY <1>1, <1>2 DEF Left
  <1> QED
    BY <1>3, <1>4 DEF Turn

-----------------------------------------------------------------------------
(* What a step of the loops leaves as it was. *)
LEMMA SumsSame ==
    ASSUME UNCHANGED <<bypass, tokens, computed, isPrefill, running, sched, step>>
    PROVE  /\ Running' = Running /\ Scheduled' = Scheduled /\ InUse' = InUse
           /\ \A r : Draws(r)' = Draws(r) /\ Prefills(r)' = Prefills(r)
           /\ \A S : Spent(S)' = Spent(S)
           /\ \A S : Decodes(S)' = Decodes(S)
           /\ {r \in Scheduled : Draws(r)}' = {r \in Scheduled : Draws(r)}
           /\ {r \in Scheduled : Prefills(r)}' = {r \in Scheduled : Prefills(r)}
           /\ Decodes(Scheduled)' = Decodes(Scheduled)
           /\ Decodes(step.carried)' = Decodes(step.carried)
  BY DEF Running, Scheduled, InUse, Draws, Prefills, Spent, Decodes, Short, BypassOn, Remaining

LEMMA BalanceSame ==
    ASSUME BudgetBalances, phase # "idle",
           UNCHANGED <<bypass, tokens, computed, isPrefill, running, sched, step>>
    PROVE  BudgetBalances'
  <1>1. /\ {r \in Scheduled : Draws(r)}' = {r \in Scheduled : Draws(r)}
        /\ {r \in Scheduled : Prefills(r)}' = {r \in Scheduled : Prefills(r)}
    BY SumsSame
  <1>2. \A S : Spent(S)' = Spent(S)
    BY SumsSame
  <1> QED
    BY <1>1, <1>2 DEF BudgetBalances, Spent

LEMMA BudgetSame ==
    ASSUME BudgetOK, phase # "idle",
           UNCHANGED <<bypass, pp, tokens, computed, isPrefill, running, sched, step, budget>>
    PROVE  BudgetOK'
  <1>1. Decodes(step.carried)' = Decodes(step.carried) /\ Decodes(Scheduled)' = Decodes(Scheduled)
    BY SumsSame
  <1>2. Spent(Req)' = Spent(Req)
    BY DEF Spent
  <1> QED
    BY <1>1, <1>2 DEF BudgetOK, InStep

-----------------------------------------------------------------------------
LEMMA InitHolds == Init => FairInv
  <1> SUFFICES ASSUME Init PROVE FairInv
    OBVIOUS
  <1>1. /\ N \in Nat /\ MaxTokens \in Nat \ {0} /\ MaxSeqs \in Nat /\ Capacity \in Nat
        /\ PPSizes \subseteq Nat \ {0} /\ MaxOutput \in Nat \ {0}
    BY FairPrefillAssumption
  <1>2. Zero \in [Req -> Nat] /\ \A r \in Req : Zero[r] = 0
    BY DEF Zero
  <1>3. Running = {} /\ Len(running) = 0 /\ running \in Seq(Req) /\ IsInjective(running)
    BY DEF Init, Running, ToSet, IsInjective
  <1>4. InUse = 0
    <2>1. Sum([r \in Req |-> computed[r] + sched[r]], {}) = 0
      BY SumZero
    <2> QED
      BY <1>3, <2>1 DEF InUse
  <1>5. TypeOK
    <2>1. NoStep \in [budget : Nat, cap : Nat, tokens : Nat, reqs : Nat, decodes : Nat,
                 decodeCap : Nat, total : Nat, carried : SUBSET Req]
      BY DEF NoStep
    <2>2. NoRequest \in [req : Req \cup {0}, n : Nat, isPrefill : BOOLEAN, reqIsPrefill : BOOLEAN]
      BY DEF NoRequest
    <2>3. late \in [Req -> 0 .. pp - 1]
      BY <1>1 DEF Init, Zero
    <2>4. {tokens, prompt, computed, sched, passed} \subseteq [Req -> Nat]
      BY <1>2 DEF Init
    <2>5. \A r \in Req : tokens[r] <= prompt[r] + MaxOutput /\ computed[r] + sched[r] <= tokens[r]
      BY <1>1, <1>2 DEF Init
    <2> QED
      BY <1>1, <1>3, <1>4, <2>1, <2>2, <2>3, <2>4, <2>5 DEF Init, TypeOK
  <1>6. phase = "idle" /\ ~InStep
    BY DEF Init, InStep
  <1>7. RequestOK
    BY <1>1, <1>2, <1>3 DEF RequestOK, Init
  <1>8. StepOK
    BY <1>1, <1>2, <1>3, <1>6 DEF StepOK, Init
  <1>9. LoopOK
    BY <1>6 DEF LoopOK, Init, NoRequest
  <1>10. BudgetOK /\ BudgetBalances /\ RideOK
    BY <1>6 DEF BudgetOK, BudgetBalances, RideOK
  <1>11. TurnOK
    BY <1>3 DEF TurnOK
  <1> QED
    BY <1>5, <1>7, <1>8, <1>9, <1>10, <1>11 DEF FairInv

-----------------------------------------------------------------------------
LEMMA ArriveStep ==
    ASSUME FairInv, NEW r \in Req, Arrive(r)
    PROVE  FairInv'
  <1> TypeOK /\ RequestOK /\ StepOK /\ LoopOK /\ TurnOK
    BY DEF FairInv
  <1>1. /\ phase = "idle" /\ phase' = "idle" /\ tokens[r] = 0 /\ waiting' = waiting \cup {r}
        /\ UNCHANGED <<bypass, pp, prio, computed, isPrefill, running, phase, index,
                       budget, sched, preempted, step, held, late, passed>>
    BY DEF Arrive
  <1>2. PICK p \in Prompts : tokens' = [tokens EXCEPT ![r] = p] /\ prompt' = [prompt EXCEPT ![r] = p]
    BY DEF Arrive
  <1>3. p \in Nat \ {0} /\ MaxOutput \in Nat \ {0}
    BY FairPrefillAssumption
  <1>4. Running' = Running /\ InUse' = InUse
    BY <1>1 DEF Running, InUse
  <1>5. r \notin Running /\ computed[r] + sched[r] <= 0 /\ computed[r] = 0 /\ sched[r] = 0
    <2>1. r \notin Running
      BY <1>1 DEF RequestOK
    <2> QED
      BY <1>1, <2>1, Numbers
  <1>6. tokens' \in [Req -> Nat] /\ prompt' \in [Req -> Nat]
        /\ \A q \in Req : /\ tokens'[q] = IF q = r THEN p ELSE tokens[q]
                          /\ prompt'[q] = IF q = r THEN p ELSE prompt[q]
    BY <1>2, <1>3, Types
  <1>7. TypeOK'
    <2>1. \A q \in Req : /\ tokens'[q] <= prompt'[q] + MaxOutput
                         /\ computed'[q] + sched'[q] <= tokens'[q]
      <3> SUFFICES ASSUME NEW q \in Req
                   PROVE  /\ tokens'[q] <= prompt'[q] + MaxOutput
                          /\ computed[q] + sched[q] <= tokens'[q]
        BY <1>1
      <3>1. tokens[q] <= prompt[q] + MaxOutput /\ computed[q] + sched[q] <= tokens[q]
        BY DEF TypeOK
      <3> QED
        BY <1>3, <1>5, <1>6, <3>1
    <2>2. {tokens', prompt', computed', sched', passed'} \subseteq [Req -> Nat]
      BY <1>1, <1>6, Types
    <2>3. waiting' \subseteq Req \ Running'
      BY <1>1, <1>4, <1>5, Types
    <2> QED
      BY <1>1, <1>4, <2>1, <2>2, <2>3 DEF TypeOK
  <1>8. ~InStep /\ ~InStep'
    BY <1>1 DEF InStep
  <1>9. RequestOK'
    <2> SUFFICES ASSUME NEW q \in Req
                 PROVE  /\ tokens'[q] <= prompt'[q] + MaxOutput - 1
                        /\ q \in Running' \cup waiting' => tokens'[q] > 0
                        /\ late'[q] > 0 => /\ q \in Running' /\ ~isPrefill'[q]
                                           /\ computed'[q] = tokens'[q]
                        /\ q \in Running' =>
                             /\ isPrefill'[q] => computed'[q] < tokens'[q]
                             /\ ~isPrefill'[q] =>
                                  computed'[q] + (IF late'[q] > 0 THEN 0 ELSE 1) = tokens'[q]
                        /\ passed'[q] > 0 => pp' > 1 /\ q \in Running' /\ ~isPrefill'[q]
                                             /\ late'[q] = 0
      BY <1>8 DEF RequestOK
    <2>1. CASE q = r
      BY <1>1, <1>3, <1>4, <1>5, <1>6, <2>1, Numbers DEF RequestOK
    <2>2. CASE q # r
      BY <1>1, <1>4, <1>6, <1>8, <2>2 DEF RequestOK
    <2> QED
      BY <2>1, <2>2
  <1>10. StepOK'
    BY <1>1, <1>4, <1>8 DEF StepOK
  <1>11. LoopOK'
    BY <1>1 DEF LoopOK
  <1>12. BudgetOK' /\ BudgetBalances' /\ RideOK'
    BY <1>1, <1>8 DEF BudgetOK, BudgetBalances, RideOK
  <1>13. TurnOK'
    <2> SUFFICES ASSUME NEW q \in Running, passed[q] > 0 PROVE Turn(q)'
      BY <1>1, <1>4, TurnIs DEF TurnOK, Turn
    <2>1. Turn(q) /\ Ahead(q)' = Ahead(q) /\ (Handled(q)' <=> Handled(q))
      BY <1>1, <1>8 DEF TurnOK, Turn, Ahead, Handled
    <2>2. \A t \in Ahead(q) \cup {q} : t \in Req /\ t # r
      BY <1>5, AheadFacts, Places
    <2> QED
      BY <1>1, <1>6, <2>1, <2>2, TurnSame
  <1> QED
    BY <1>7, <1>9, <1>10, <1>11, <1>12, <1>13 DEF FairInv

-----------------------------------------------------------------------------
(* The budgets of a step that begins. *)
LEMMA BudgetTypes ==
    ASSUME TypeOK
    PROVE  /\ DecodeCap \in Nat /\ pp * DecodeCap >= Cardinality(Decodes(Running))
           /\ PrefillBudget \in Nat /\ ChunkCap \in Nat
           /\ Chunk > 0 /\ Decodes(Running) # {} => PrefillBudget <= Most(Chunk, Lookahead + 1)
  <1>1. /\ MaxTokens \in Nat /\ MaxSeqs \in Nat /\ Chunk \in Nat /\ Partials \in Nat
        /\ Lookahead \in Nat /\ pp \in Nat /\ pp >= 1
    BY Types
  <1>2. Running \subseteq Req /\ waiting \subseteq Req
    BY Types, Places
  <1>3. DecodeCap \in Nat /\ pp * DecodeCap >= Cardinality(Decodes(Running))
    <2>1. Cardinality(Decodes(Running)) \in Nat
      BY <1>2, Requests DEF Decodes
    <2>2. DecodeCap = Share(Cardinality(Decodes(Running)))
      BY DEF DecodeCap, Decodes
    <2> QED
      BY <1>1, <2>1, <2>2, ShareFacts
  <1>4. Total \in Nat /\ (Chunk > 0 /\ Decodes(Running) # {} => Total <= Chunk)
    BY <1>1 DEF Total, Least, Decodes
  <1>5. PrefillBudget \in Nat
    BY <1>1, <1>4 DEF PrefillBudget, Most
  <1>6. Sharers \in Nat
    <2> DEFINE a == {r \in Running : isPrefill[r] /\ ~Short(Remaining(r))}
               b == {r \in Admissible : ~Short(Remaining(r))}
    <2>1. a \subseteq Req /\ b \subseteq Req
      BY <1>2 DEF Admissible
    <2>2. Cardinality(a) \in Nat /\ Cardinality(b) \in Nat
      BY <2>1, Requests
    <2>3. Sharers = Cardinality(a) + Cardinality(b)
      BY DEF Sharers
    <2> HIDE DEF a, b
    <2> QED
      BY <2>2, <2>3
  <1>7. PerRequest \in Nat
    <2>1. CASE Partials = 0
      BY <1>4, <2>1 DEF PerRequest
    <2>2. CASE Partials # 0
      <3> DEFINE m == Most(1, Least(Partials, Sharers))
      <3>1. m \in Nat \ {0}
        BY <1>1, <1>6 DEF Most, Least
      <3> HIDE DEF m
      <3>2. Total \div m \in Nat
        BY <1>4, <3>1, Quotient
      <3> QED
        BY <2>2, <3>2 DEF PerRequest, m
    <2> QED
      BY <2>1, <2>2
  <1>8. ChunkCap \in Nat
    BY <1>1, <1>7 DEF ChunkCap, Most
  <1>9. ASSUME Chunk > 0, Decodes(Running) # {}
        PROVE  PrefillBudget <= Most(Chunk, Lookahead + 1)
    BY <1>1, <1>4, <1>9 DEF PrefillBudget, Most, Fair
  <1> QED
    BY <1>3, <1>5, <1>8, <1>9

LEMMA BeginStep ==
    ASSUME FairInv, Begin
    PROVE  FairInv'
  <1> TypeOK /\ RequestOK /\ StepOK /\ LoopOK /\ TurnOK
    BY DEF FairInv
  <1>1. /\ phase = "idle" /\ phase' = "running" /\ index' = 1 /\ budget' = MaxTokens
        /\ sched' = Zero /\ preempted' = {} /\ held' = NoRequest
        /\ UNCHANGED <<bypass, pp, prio, tokens, prompt, late, computed, isPrefill, running,
                       waiting, passed>>
    BY DEF Begin, reqVars
  <1>2. /\ step' = [budget |-> PrefillBudget, cap |-> ChunkCap, tokens |-> 0,
                    reqs |-> 0, decodes |-> 0, decodeCap |-> DecodeCap,
                    total |-> PrefillBudget, carried |-> Running]
        /\ step'.carried = Running /\ step'.budget = PrefillBudget /\ step'.tokens = 0
        /\ step'.reqs = 0 /\ step'.decodes = 0 /\ step'.decodeCap = DecodeCap
        /\ step'.total = PrefillBudget
    BY DEF Begin
  <1>3. ~InStep /\ InStep' /\ sched = Zero /\ sched' = sched /\ Running' = Running
    BY <1>1 DEF InStep, StepOK, Running
  <1>4. Zero \in [Req -> Nat] /\ \A r \in Req : Zero[r] = 0
    BY DEF Zero
  <1>5. held'.req = 0
    BY <1>1 DEF NoRequest
  <1>6. Running \subseteq Req
    BY Places
  <1>7. MaxTokens \in Nat
    BY Types
  <1>8. TypeOK'
    <2>1. InUse' = InUse
      BY <1>1, <1>3 DEF InUse
    <2>2. step' \in [budget : Nat, cap : Nat, tokens : Nat, reqs : Nat, decodes : Nat,
                     decodeCap : Nat, total : Nat, carried : SUBSET Req]
      BY <1>2, <1>6, BudgetTypes
    <2>3. held' \in [req : Req \cup {0}, n : Nat, isPrefill : BOOLEAN, reqIsPrefill : BOOLEAN]
      BY <1>1 DEF NoRequest
    <2>4. {tokens', prompt', computed', sched', passed'} \subseteq [Req -> Nat]
      BY <1>1, <1>3 DEF TypeOK
    <2>5. \A r \in Req : /\ tokens'[r] <= prompt'[r] + MaxOutput
                         /\ computed'[r] + sched'[r] <= tokens'[r]
      BY <1>1, <1>3 DEF TypeOK
    <2>6. budget' \in 0 .. MaxTokens /\ index' \in Nat \ {0} /\ preempted' \subseteq Req
      BY <1>1, <1>7
    <2>7. waiting' \subseteq Req \ Running' /\ (pp' = 1 => InUse' <= Capacity)
      BY <1>1, <1>3, <2>1 DEF TypeOK
    <2> QED
      BY <1>1, <2>2, <2>3, <2>4, <2>5, <2>6, <2>7 DEF TypeOK
  <1>9. RequestOK'
    <2> SUFFICES ASSUME NEW q \in Req
                 PROVE  /\ tokens[q] <= prompt[q] + MaxOutput - 1
                        /\ q \in Running \cup waiting => tokens[q] > 0
                        /\ late[q] > 0 => /\ q \in Running /\ ~isPrefill[q]
                                          /\ computed[q] = tokens[q]
                        /\ q \in Running =>
                             /\ isPrefill[q] => computed[q] < tokens[q]
                             /\ ~isPrefill[q] =>
                                  computed[q] + (IF late[q] > 0 THEN 0 ELSE 1) = tokens[q]
                        /\ passed[q] > 0 => pp > 1 /\ q \in Running /\ ~isPrefill[q]
                                            /\ late[q] = 0
      BY <1>1, <1>2, <1>3, <1>4 DEF RequestOK
    <2> QED
      BY <1>3 DEF RequestOK
  <1>10. StepOK'
    <2>1. Len(running') <= MaxSeqs /\ preempted' = {}
      BY <1>1 DEF StepOK
    <2>2. \A r \in Req : sched'[r] > 0 => r \in Running'
      BY <1>3, <1>4
    <2>3. step'.carried = Running' /\ waiting' \cap step'.carried = {}
      BY <1>1, <1>2, <1>3, Types
    <2> QED
      BY <1>3, <2>1, <2>2, <2>3 DEF StepOK
  <1>11. LoopOK'
    <2>1. \A j \in index' .. Len(running') : sched'[running'[j]] = 0
      BY <1>1, <1>3, <1>4, Places
    <2> QED
      BY <1>2, <1>3, <1>5, <2>1 DEF LoopOK
  <1>12. {r \in Req : sched'[r] > 0} = {} /\ Scheduled' = {}
    BY <1>3, <1>4 DEF Scheduled
  <1>13. Sum(sched', Req) = 0 /\ Sum(sched', {}) = 0 /\ Cardinality({}) = 0
    BY <1>3, <1>4, SumZero, FS_EmptySet
  <1>14. BudgetOK'
    <2>1. budget' + Spent(Req)' = MaxTokens
      BY <1>1, <1>7, <1>13 DEF Spent
    <2>2. Decodes(step.carried)' = Decodes(Running)
      BY <1>1, <1>2 DEF Decodes
    <2>3. Chunk > 0 /\ Decodes(Running) # {} => step'.total <= Most(Chunk, Lookahead + 1)
      BY <1>2, BudgetTypes
    <2>4. pp' * step'.decodeCap >= Cardinality(Decodes(Running))
      BY <1>1, <1>2, BudgetTypes
    <2>5. Decodes(Scheduled)' = {}
      BY <1>12 DEF Decodes
    <2> QED
      BY <1>2, <1>13, <2>1, <2>2, <2>3, <2>4, <2>5 DEF BudgetOK
  <1>15. BudgetBalances'
    <2>1. {r \in Scheduled : Draws(r)}' = {} /\ {r \in Scheduled : Prefills(r)}' = {}
      BY <1>12
    <2>2. step'.budget \in Nat
      BY <1>2, BudgetTypes
    <2> QED
      BY <1>2, <1>13, <2>1, <2>2 DEF BudgetBalances, Spent
  <1>16. RideOK'
    BY <1>1, Places DEF RideOK
  <1>17. TurnOK'
    <2> SUFFICES ASSUME NEW q \in Running, passed[q] > 0 PROVE Turn(q)'
      BY <1>1, <1>3, TurnIs DEF TurnOK, Turn
    <2>1. Turn(q) /\ Ahead(q)' = Ahead(q)
      BY <1>1 DEF TurnOK, Turn, Ahead
    <2>2. ~Handled(q)
      BY <1>3 DEF Handled
    <2>3. ~Handled(q)'
      BY <1>1, Places DEF Handled
    <2> QED
      BY <1>1, <1>3, <2>1, <2>2, <2>3, TurnSame
  <1> QED
    BY <1>8, <1>9, <1>10, <1>11, <1>14, <1>15, <1>16, <1>17 DEF FairInv

LEMMA LoopsEnd ==
    ASSUME FairInv, phase = "waiting", phase' = "finish",
           UNCHANGED <<bypass, pp, prio, tokens, prompt, late, computed, isPrefill, running,
                       waiting, index, budget, sched, preempted, step, held, passed>>
    PROVE  FairInv'
  <1> TypeOK /\ RequestOK /\ StepOK /\ LoopOK /\ BudgetOK /\ BudgetBalances /\ RideOK /\ TurnOK
    BY DEF FairInv
  <1>1. /\ phase = "waiting" /\ phase' = "finish"
        /\ UNCHANGED <<bypass, pp, prio, tokens, prompt, late, computed, isPrefill, running,
                       waiting, index, budget, sched, preempted, step, held, passed>>
    OBVIOUS
  <1>2. InStep /\ InStep'
    BY <1>1 DEF InStep
  <1>3. Running' = Running /\ InUse' = InUse
    BY <1>1 DEF Running, InUse
  <1>4. TypeOK'
    BY <1>1, <1>3 DEF TypeOK
  <1>5. RequestOK'
    BY <1>1, <1>2, <1>3 DEF RequestOK
  <1>6. StepOK'
    BY <1>1, <1>2, <1>3 DEF StepOK
  <1>7. LoopOK'
    BY <1>1 DEF LoopOK
  <1>8. BudgetOK' /\ BudgetBalances'
    BY <1>1, BudgetSame, BalanceSame
  <1>9. RideOK'
    BY <1>1 DEF RideOK, Decodes
  <1>10. TurnOK'
    <2> SUFFICES ASSUME NEW q \in Running, passed[q] > 0 PROVE Turn(q)'
      BY <1>1, <1>3, TurnIs DEF TurnOK, Turn
    <2>1. Turn(q) /\ Ahead(q)' = Ahead(q) /\ (Handled(q)' <=> Handled(q))
      BY <1>1, <1>2 DEF TurnOK, Turn, Ahead, Handled
    <2> QED
      BY <1>1, <2>1, TurnSame
  <1> QED
    BY <1>4, <1>5, <1>6, <1>7, <1>8, <1>9, <1>10 DEF FairInv

-----------------------------------------------------------------------------
(* The step that passes over r takes one pp-th of the decodes before it.    *)
LEMMA Round ==
    ASSUME NEW p \in Nat, NEW k \in Nat, k < p, NEW o \in Nat, NEW l \in Nat, NEW c \in Nat,
           (p - k) * o >= k * l, c + 1 <= l, o + l <= p * c
    PROVE  /\ k + 1 < p
           /\ (p - (k + 1)) * (o + c) >= (k + 1) * (l - c)
  <1>1. p * c \in Nat /\ k * l \in Nat /\ k * c \in Nat /\ p * o \in Int /\ k * o \in Int
    OBVIOUS
  <1>2. (p - k) * o = p * o - k * o
    OBVIOUS
  <1>3. (p - (k + 1)) * (o + c) = (p * o - k * o) - o + p * c - k * c - c
    OBVIOUS
  <1>4. (k + 1) * (l - c) = k * l + l - k * c - c
    OBVIOUS
  <1>5. (p - (k + 1)) * (o + c) >= (k + 1) * (l - c)
    <2> DEFINE a == p * o - k * o
               b == p * c
               d == k * c
               e == k * l
    <2>1. a \in Int /\ b \in Int /\ d \in Int /\ e \in Int /\ a >= e /\ o + l <= b
      BY <1>1, <1>2
    <2>2. /\ (p - (k + 1)) * (o + c) = a - o + b - d - c
          /\ (k + 1) * (l - c) = e + l - d - c
      BY <1>3, <1>4
    <2> HIDE DEF a, b, d, e
    <2>3. a - o + b - d - c >= e + l - d - c
      BY <2>1
    <2> QED
      BY <2>2, <2>3
  <1>6. k + 1 # p
    <2> SUFFICES ASSUME k + 1 = p PROVE FALSE
      OBVIOUS
    <2>1. (p - (k + 1)) * (o + c) = 0
      OBVIOUS
    <2>2. (k + 1) * (l - c) >= l - c
      <3>1. l - c \in Nat
        OBVIOUS
      <3>2. k * (l - c) \in Nat /\ (k + 1) * (l - c) = k * (l - c) + (l - c)
        BY <3>1
      <3> QED
        BY <3>1, <3>2
    <2> QED
      BY <1>5, <2>1, <2>2
  <1> QED
    BY <1>5, <1>6

(* The request that the running loop is at. *)
LEMMA AtIndex ==
    ASSUME TypeOK, LoopOK, StepOK, phase = "running", index <= Len(running),
           NEW r, r = running[index]
    PROVE  /\ r \in Running /\ r \in Req /\ r \in step.carried /\ sched[r] = 0 /\ InStep
           /\ ~Handled(r) /\ r \notin Ahead(r) /\ Scheduled \subseteq Ahead(r)
           /\ \A q \in Running \ {r} : q \in Ahead(r) \/ r \in Ahead(q)
           /\ \A q \in Running : r \in Ahead(q) => ~Handled(q) /\ q # r
           /\ \A q \in Running : q \in Ahead(r) => Handled(q)
  <1>1. index \in 1 .. Len(running) /\ index \in Nat /\ Len(running) \in Nat
    BY Types, Places
  <1>2. r \in Running /\ r \in Req /\ \A j \in 1 .. Len(running) : running[j] = r => j = index
    BY <1>1, Places
  <1>3. InStep /\ r \in step.carried /\ \A j \in index .. Len(running) : sched[running[j]] = 0
    BY <1>2 DEF InStep, LoopOK
  <1>4. sched[r] = 0
    BY <1>1, <1>3
  <1>5. Ahead(r) = {running[j] : j \in 1 .. index - 1}
    <2>1. {i \in DOMAIN running : \E j \in DOMAIN running : i < j /\ running[j] = r} = 1 .. index - 1
      BY <1>1, <1>2, Places
    <2> QED
      BY <2>1 DEF Ahead
  <1>6. ~Handled(r) /\ r \notin Ahead(r)
    <2>1. ~Handled(r)
      BY <1>1, <1>2, Places DEF Handled
    <2>2. r \notin Ahead(r)
      BY <1>1, <1>2, <1>5
    <2> QED
      BY <2>1, <2>2
  <1>7. ASSUME NEW q \in Scheduled PROVE q \in Ahead(r)
    <2>1. q \in Running /\ sched[q] > 0 /\ q \in Req
      BY DEF Scheduled, StepOK
    <2>2. PICK j \in 1 .. Len(running) : running[j] = q
      BY <2>1, Places
    <2>3. j \notin index .. Len(running)
      BY <1>3, <2>1, <2>2, Numbers
    <2>4. j \in 1 .. index - 1
      BY <1>1, <2>3
    <2> QED
      BY <1>5, <2>2, <2>4
  <1>8. ASSUME NEW q \in Running \ {r} PROVE q \in Ahead(r) \/ r \in Ahead(q)
    <2>1. PICK j \in 1 .. Len(running) : running[j] = q
      BY Places
    <2>2. j # index
      BY <1>2, <2>1
    <2>3. CASE j < index
      BY <1>1, <1>5, <2>1, <2>3
    <2>4. CASE index < j
      BY <1>1, <2>1, <2>4, Places DEF Ahead
    <2> QED
      BY <1>1, <2>2, <2>3, <2>4
  <1>9. ASSUME NEW q \in Running, r \in Ahead(q) PROVE ~Handled(q) /\ q # r
    <2>1. PICK i \in 1 .. Len(running), j \in 1 .. Len(running) :
              i < j /\ running[j] = q /\ running[i] = r
      BY <1>9, Places DEF Ahead
    <2>2. i = index
      BY <1>2, <2>1
    <2>3. \A m \in 1 .. Len(running) : running[m] = q => m = j
      BY <2>1, Places
    <2>4. ~Handled(q)
      BY <1>1, <2>1, <2>2, <2>3, Places DEF Handled
    <2>5. q # r
      BY <1>2, <2>1, <2>2
    <2> QED
      BY <2>4, <2>5
  <1>10. ASSUME NEW q \in Running, q \in Ahead(r) PROVE Handled(q)
    <2>1. PICK j \in 1 .. index - 1 : q = running[j]
      BY <1>5, <1>10
    <2>2. j \in 1 .. Len(running) /\ j < index
      BY <1>1
    <2> QED
      BY <1>3, <2>1, <2>2, Places DEF Handled
  <1> QED
    BY <1>2, <1>3, <1>4, <1>6, <1>7, <1>8, <1>9, <1>10

LEMMA PassedOver ==
    ASSUME TypeOK, RequestOK, StepOK, LoopOK, BudgetOK, TurnOK, PassOver,
           NEW r, r = running[index], Remaining(r) > 0
    PROVE  Turn(r)' /\ late[r] = 0 /\ pp > 1
  <1> DEFINE A == Ahead(r)
             C == Decodes(Scheduled)
             k == passed[r]
             O == {q \in A : late[q] >= pp - k}
             L == {q \in A \cup {r} : ~isPrefill[q] /\ late[q] < pp - k}
  <1>1. /\ phase = "running" /\ index <= Len(running) /\ pp > 1 /\ ~isPrefill[r]
        /\ step.decodes >= step.decodeCap
        /\ UNCHANGED <<bypass, pp, tokens, computed, isPrefill, running, sched, step, late, phase>>
        /\ index' = index + 1 /\ passed' = [passed EXCEPT ![r] = @ + 1]
    BY DEF PassOver, Skip, reqVars
  <1>2. /\ r \in Running /\ r \in Req /\ r \in step.carried /\ sched[r] = 0 /\ InStep
        /\ ~Handled(r) /\ r \notin A /\ Scheduled \subseteq A
    BY <1>1, AtIndex
  <1>3. /\ pp \in Nat /\ k \in Nat /\ k < pp
    <2>1. passed[r] > 0 => passed[r] < pp
      BY <1>2 DEF TurnOK
    <2>2. passed[r] \in Nat
      BY <1>2, Numbers
    <2>3. pp \in Nat
      BY Types
    <2> QED
      BY <1>1, <2>1, <2>2, <2>3
  <1>4. late[r] = 0
    <2>1. late[r] > 0 => computed[r] = tokens[r]
      BY <1>2 DEF RequestOK
    <2> QED
      BY <1>2, <2>1, Numbers DEF Remaining
  <1>5. A \subseteq Running /\ Running \subseteq step.carried /\ step.carried \subseteq Req
    BY <1>1, <1>2, AheadFacts, Types DEF LoopOK
  <1>6. \A q \in C : /\ q \in A /\ ~isPrefill[q] /\ sched[q] > 0 /\ late[q] = 0
                     /\ computed[q] + sched[q] = tokens[q]
    <2> SUFFICES ASSUME NEW q \in C
                 PROVE  /\ q \in A /\ ~isPrefill[q] /\ sched[q] > 0 /\ late[q] = 0
                        /\ computed[q] + sched[q] = tokens[q]
      OBVIOUS
    <2>1. q \in A /\ ~isPrefill[q] /\ sched[q] > 0 /\ q \in Req /\ q \in Running /\ q \in step.carried
      BY <1>2, <1>5 DEF Decodes, Scheduled
    <2>2. /\ late[q] > 0 => computed[q] = tokens[q]
          /\ computed[q] + (IF late[q] > 0 THEN 0 ELSE 1) = tokens[q]
      BY <2>1 DEF RequestOK
    <2> QED
      BY <2>1, <2>2, Numbers
  <1>7. Outran(r) = O /\ Left(r) = L
    <2>1. \A q : Wait(r, q) = late[q]
      BY <1>2 DEF Wait
    <2>2. Since(r) = pp - k
      BY <1>2, <1>3 DEF Since
    <2> QED
      BY <2>1, <2>2 DEF Outran, Left
  <1>8. passed'[r] = k + 1 /\ pp' = pp
    <2>1. passed \in [Req -> Nat]
      BY Types
    <2> QED
      BY <1>1, <1>2, <2>1
  <1>9. Ahead(r)' = A
    BY <1>1 DEF Ahead
  <1>10. Handled(r)'
    <2>1. index \in DOMAIN running' /\ index < index' /\ running'[index] = r
      BY <1>1, Places, Types
    <2> QED
      BY <1>1, <2>1 DEF Handled, InStep
  <1>11. Since(r)' = pp - k
    BY <1>3, <1>8, <1>10 DEF Since
  <1>12. \A q \in A \cup {r} :
            Wait(r, q)' = IF sched[q] > 0 /\ computed[q] + sched[q] = tokens[q] THEN pp ELSE late[q]
    BY <1>1, <1>10 DEF Wait
  <1>13. \A q \in A \cup {r} : q \in Req /\ late[q] \in Nat /\ sched[q] \in Nat
    BY <1>2, <1>5, Numbers
  <1> HIDE DEF A, k
  <1>14. O \cup C \subseteq Outran(r)'
    <2>1. ASSUME NEW q \in O PROVE q \in Outran(r)'
      <3>1. q \in A /\ late[q] >= pp - k
        OBVIOUS
      <3>2. Wait(r, q)' >= pp - k
        BY <1>3, <1>12, <3>1
      <3> QED
        BY <1>9, <1>11, <3>1, <3>2 DEF Outran
    <2>2. ASSUME NEW q \in C PROVE q \in Outran(r)'
      <3>1. q \in A /\ Wait(r, q)' = pp
        BY <1>6, <1>12
      <3> QED
        BY <1>3, <1>9, <1>11, <3>1 DEF Outran
    <2> QED
      BY <2>1, <2>2
  <1>15. Left(r)' \subseteq L \ C
    <2> SUFFICES ASSUME NEW q \in Left(r)' PROVE q \in L \ C
      OBVIOUS
    <2>1. q \in A \cup {r} /\ ~isPrefill[q] /\ Wait(r, q)' < pp - k
      BY <1>1, <1>9, <1>11 DEF Left
    <2>2. Wait(r, q)' # pp
      BY <1>3, <2>1
    <2>3. Wait(r, q)' = late[q] /\ q \notin C
      BY <1>6, <1>12, <2>1, <2>2
    <2> QED
      BY <2>1, <2>3
  <1>16. O \cap C = {} /\ C \subseteq L /\ r \in L /\ r \notin C /\ O \cap L = {}
    <2>1. O \cap C = {} /\ C \subseteq L
      BY <1>3, <1>6
    <2>2. r \in L /\ r \notin C
      BY <1>1, <1>2, <1>3, <1>4, <1>6 DEF A
    <2>3. O \cap L = {}
      BY <1>3, <1>13
    <2> QED
      BY <2>1, <2>2, <2>3
  <1>17. O \cup L \subseteq Decodes(step.carried)
    <2>1. ASSUME NEW q \in O PROVE ~isPrefill[q]
      <3>1. q \in Req /\ late[q] \in Nat /\ late[q] > 0
        BY <1>3, <1>13
      <3> QED
        BY <3>1 DEF RequestOK
    <2>2. \A q \in O \cup L : q \in step.carried
      BY <1>2, <1>5
    <2> QED
      BY <2>1, <2>2 DEF Decodes
  <1>18. O \subseteq Req /\ L \subseteq Req /\ C \subseteq Req /\ Decodes(step.carried) \subseteq Req
    BY <1>5, <1>6, <1>13 DEF Decodes
  <1>19. Outran(r)' \subseteq Req /\ Left(r)' \subseteq Req
    BY <1>5, <1>9, <1>15, <1>18 DEF Outran
  <1>20. pp * Cardinality(C) >= Cardinality(Decodes(step.carried))
    <2>1. step.decodes = Cardinality(C) /\ pp * step.decodeCap >= Cardinality(Decodes(step.carried))
      BY <1>1, <1>2 DEF BudgetOK
    <2>2. step.decodes \in Nat /\ step.decodeCap \in Nat
      BY Types
    <2>3. pp * step.decodeCap <= pp * step.decodes /\ pp * step.decodes \in Nat
          /\ pp * step.decodeCap \in Nat
      BY <1>1, <1>3, <2>2, Times
    <2>4. Cardinality(Decodes(step.carried)) \in Nat
      BY <1>18, Requests
    <2> QED
      BY <2>1, <2>3, <2>4
  <1> DEFINE o == Cardinality(O)
             l == Cardinality(L)
             c == Cardinality(C)
             oo == Cardinality(Outran(r)')
             ll == Cardinality(Left(r)')
  <1>21. o \in Nat /\ l \in Nat /\ c \in Nat /\ oo \in Nat /\ ll \in Nat
    BY <1>18, <1>19, Requests
  <1>22. (pp - k) * o >= k * l
    <2>1. CASE k = 0
      <3>1. (pp - k) * o \in Nat /\ k * l = 0
        BY <1>3, <1>21, <2>1
      <3> QED
        BY <3>1
    <2>2. CASE k # 0
      <3>1. passed[r] > 0
        BY <1>3, <2>2 DEF k
      <3>2. (pp - passed[r]) * Cardinality(Outran(r)) >= passed[r] * Cardinality(Left(r))
        BY <1>2, <3>1 DEF TurnOK
      <3> QED
        BY <1>7, <3>2 DEF k
    <2> QED
      BY <2>1, <2>2
  <1>23. o + c <= oo
    <2>1. Cardinality(O \cup C) = Cardinality(O) + Cardinality(C)
      BY <1>16, <1>18, CountedApart
    <2>2. Cardinality(O \cup C) <= Cardinality(Outran(r)')
      BY <1>14, <1>19, Counted
    <2> QED
      BY <2>1, <2>2
  <1>24. ll <= l - c /\ c + 1 <= l
    <2>1. (L \ C) \cup C = L /\ (L \ C) \cap C = {} /\ L \ C \subseteq Req
      BY <1>16, <1>18
    <2>2. Cardinality((L \ C) \cup C) = Cardinality(L \ C) + Cardinality(C)
      BY <1>18, <2>1, CountedApart
    <2>3. Cardinality(Left(r)') <= Cardinality(L \ C)
      BY <1>15, <2>1, Counted
    <2>4. Cardinality(L \ C) \in Nat /\ Cardinality(L \ C) # 0
      <3>1. IsFiniteSet(L \ C) /\ Cardinality(L \ C) \in Nat
        BY <2>1, Requests
      <3>2. L \ C # {}
        BY <1>16
      <3> QED
        BY <3>1, <3>2, FS_EmptySet
    <2> DEFINE m == Cardinality(L \ C)
    <2>5. l = m + c /\ ll <= m /\ m \in Nat /\ m # 0
      BY <2>1, <2>2, <2>3, <2>4
    <2> HIDE DEF l, c, ll, m
    <2> QED
      BY <1>21, <2>5
  <1>25. o + l <= pp * c
    <2>1. Cardinality(O \cup L) = Cardinality(O) + Cardinality(L)
      BY <1>16, <1>18, CountedApart
    <2>2. Cardinality(O \cup L) <= Cardinality(Decodes(step.carried))
      BY <1>17, <1>18, Counted
    <2>3. Cardinality(Decodes(step.carried)) \in Nat
      BY <1>18, Requests
    <2> DEFINE m == Cardinality(Decodes(step.carried))
    <2>4. o + l <= m /\ m <= pp * c /\ m \in Nat
      BY <1>20, <2>1, <2>2, <2>3
    <2>5. pp * c \in Nat
      BY <1>3, <1>21
    <2> HIDE DEF o, l, c, m
    <2> QED
      BY <1>21, <2>4, <2>5
  <1> HIDE DEF o, l, c, oo, ll
  <1>26. k + 1 < pp /\ (pp - (k + 1)) * (o + c) >= (k + 1) * (l - c)
    BY <1>3, <1>21, <1>22, <1>24, <1>25, Round
  <1>27. (pp - (k + 1)) * oo >= (k + 1) * ll
    <2>1. k + 1 \in Nat /\ o + c \in Nat /\ l - c \in Nat
      BY <1>3, <1>21, <1>24
    <2> QED
      BY <1>3, <1>21, <1>23, <1>24, <1>26, <2>1, TurnGoesOn
  <1>28. passed'[r] < pp' /\ (pp' - passed'[r]) * oo >= passed'[r] * ll
    BY <1>8, <1>26, <1>27
  <1> QED
    BY <1>1, <1>4, <1>28 DEF Turn, oo, ll

LEMMA PassOverStep ==
    ASSUME FairInv, PassOver
    PROVE  FairInv'
  <1> TypeOK /\ RequestOK /\ StepOK /\ LoopOK /\ BudgetOK /\ BudgetBalances /\ RideOK /\ TurnOK
    BY DEF FairInv
  <1>0. PICK r : r = running[index]
    OBVIOUS
  <1>1. /\ phase = "running" /\ held.req = 0 /\ index <= Len(running) /\ pp > 1 /\ ~isPrefill[r]
        /\ passed' = [passed EXCEPT ![r] = IF Remaining(r) > 0 THEN @ + 1 ELSE @]
        /\ index' = index + 1
        /\ UNCHANGED <<bypass, pp, prio, tokens, prompt, late, computed, isPrefill, running,
                       waiting, phase, budget, sched, preempted, step, held>>
    BY <1>0 DEF PassOver, Skip, reqVars
  <1>2. /\ r \in Running /\ r \in Req /\ r \in step.carried /\ sched[r] = 0 /\ InStep
        /\ r \notin Ahead(r)
        /\ \A q \in Running \ {r} : q \in Ahead(r) \/ r \in Ahead(q)
        /\ \A q \in Running : r \in Ahead(q) => ~Handled(q) /\ q # r
        /\ \A q \in Running : q \in Ahead(r) => Handled(q)
    BY <1>0, <1>1, AtIndex
  <1>3. InStep' /\ Running' = Running /\ InUse' = InUse
    BY <1>1, <1>2 DEF InStep, Running, InUse
  <1>7. Remaining(r) > 0 => Turn(r)' /\ late[r] = 0
    BY <1>0, PassedOver
  <1>4. index \in Nat /\ index' \in Nat \ {0} /\ index < index'
    <2>1. index \in Nat
      BY Types
    <2> QED
      BY <1>1, <2>1
  <1>5. /\ passed' \in [Req -> Nat]
        /\ \A q \in Req : q # r => passed'[q] = passed[q]
        /\ passed'[r] = IF Remaining(r) > 0 THEN passed[r] + 1 ELSE passed[r]
    <2>1. passed \in [Req -> Nat]
      BY Types
    <2> QED
      BY <1>1, <1>2, <2>1
  <1>6. TypeOK'
    <2>1. {tokens', prompt', computed', sched', passed'} \subseteq [Req -> Nat]
      <3>1. {tokens, prompt, computed, sched, passed} \subseteq [Req -> Nat]
        BY DEF TypeOK
      <3> QED
        BY <1>1, <1>5, <3>1
    <2> QED
      BY <1>1, <1>3, <1>4, <2>1 DEF TypeOK
  <1>8. passed[r] > 0 => Remaining(r) > 0
    BY <1>2, <1>3, Numbers DEF RequestOK, Remaining
  <1>9. RequestOK'
    <2>1. ASSUME NEW q \in Req, passed'[q] > 0
          PROVE  /\ pp > 1 /\ q \in Running /\ ~isPrefill[q] /\ late[q] = 0
                 /\ q \in step.carried /\ sched[q] = 0
      BY <1>1, <1>2, <1>5, <1>7, <1>8, <2>1 DEF RequestOK
    <2> QED
      BY <1>1, <1>2, <1>3, <2>1 DEF RequestOK
  <1>10. StepOK'
    BY <1>1, <1>2, <1>3 DEF StepOK
  <1>11. LoopOK'
    <2>1. \A j \in index' .. Len(running) : j \in index .. Len(running)
      BY <1>1, <1>4, Places
    <2> QED
      BY <1>1, <1>3, <2>1 DEF LoopOK
  <1>12. BudgetOK' /\ BudgetBalances'
    BY <1>1, BudgetSame, BalanceSame
  <1>13. RideOK'
    BY <1>1, Types DEF RideOK
  <1>14. TurnOK'
    <2> SUFFICES ASSUME NEW q \in Running, passed'[q] > 0 PROVE Turn(q)'
      BY <1>3, TurnIs DEF TurnOK, Turn
    <2>1. CASE q = r
      <3>1. Remaining(r) > 0
        BY <1>5, <1>8, <2>1
      <3> QED
        BY <1>7, <2>1, <3>1
    <2>2. CASE q # r
      <3>1. q \in Req /\ passed'[q] = passed[q] /\ Turn(q) /\ Ahead(q)' = Ahead(q)
        <4>1. q \in Req
          BY Places
        <4>2. passed'[q] = passed[q]
          BY <1>5, <2>2, <4>1
        <4> QED
          BY <1>1, <4>1, <4>2 DEF TurnOK, Turn, Ahead
      <3>2. Handled(q)' <=> Handled(q)
        <4>1. \A j \in DOMAIN running : running[j] = q => j # index
          BY <1>0, <2>2
        <4>2. \A j \in DOMAIN running : running[j] = q => (j < index <=> j < index + 1)
          BY <1>4, <4>1, Places
        <4> QED
          BY <1>1, <1>2, <1>3, <4>2 DEF Handled
      <3> QED
        BY <1>1, <3>1, <3>2, TurnSame
    <2> QED
      BY <2>1, <2>2
  <1> QED
    BY <1>6, <1>9, <1>10, <1>11, <1>12, <1>13, <1>14 DEF FairInv

-----------------------------------------------------------------------------
(* While the loop has not come to a decode there is budget for it: each     *)
(* scheduled decode has one token, and the prefills share the chunk.        *)
LEMMA RoomLeft ==
    ASSUME TypeOK, RequestOK, StepOK, LoopOK, BudgetOK, BudgetBalances, RoomForDecodes,
           ~bypass, phase = "running", NEW d \in Running, ~isPrefill[d], sched[d] = 0
    PROVE  budget > 0
  <1> DEFINE P == {r \in Scheduled : Draws(r)}
             D == Decodes(Scheduled)
             a == Sum(sched, P)
             b == Cardinality(D)
             c == Cardinality(P)
             top == Most(Chunk, Lookahead + 1)
  <1>1. /\ MaxTokens \in Nat /\ MaxSeqs \in Nat /\ Chunk \in Nat /\ Lookahead \in Nat
        /\ budget \in Nat /\ step.budget \in Nat /\ step.total \in Nat /\ step.carried \subseteq Req
        /\ sched \in [Req -> Nat]
    BY Types
  <1>2. Chunk > 0 /\ top + MaxSeqs - 1 <= MaxTokens /\ top \in Nat /\ top >= 1
    BY <1>1 DEF RoomForDecodes, Most
  <1>3. InStep /\ Running \subseteq step.carried /\ Running \subseteq Req
    BY <1>1 DEF InStep, LoopOK
  <1>4. Scheduled \subseteq Running /\ \A r \in Scheduled : sched[r] > 0 /\ r \in Req
    BY DEF StepOK, Scheduled
  <1>5. \A r \in Scheduled : Draws(r) <=> isPrefill[r]
    BY <1>2, <1>3, <1>4 DEF Draws, Prefills, Short, BypassOn, Fair
  <1>6. /\ P \subseteq Req /\ D \subseteq Req /\ P \cap D = {} /\ P \cup D = Scheduled
        /\ d \in Req /\ d \notin P \cup D
    BY <1>3, <1>4, <1>5 DEF Decodes, Scheduled
  <1>7. \A r \in D : sched[r] = 1
    <2> SUFFICES ASSUME NEW r \in D PROVE sched[r] = 1
      OBVIOUS
    <2>1. r \in Req /\ r \in Running /\ r \in step.carried /\ ~isPrefill[r] /\ sched[r] > 0
      BY <1>3, <1>4 DEF Decodes
    <2>2. computed[r] + (IF late[r] > 0 THEN 0 ELSE 1) = tokens[r]
      BY <2>1 DEF RequestOK
    <2>3. /\ computed[r] \in Nat /\ tokens[r] \in Nat /\ sched[r] \in Nat
          /\ computed[r] + sched[r] <= tokens[r]
      BY <2>1, Numbers
    <2>4. tokens[r] <= computed[r] + 1
      BY <2>2, <2>3
    <2> QED
      BY <2>1, <2>3, <2>4
  <1>8. Sum(sched, Req) = a + b
    <2>1. Scheduled \subseteq Req
      BY <1>6
    <2>2. Sum(sched, Req) = Sum(sched, Scheduled) + Sum(sched, Req \ Scheduled)
      BY <1>1, <2>1, SumPart
    <2>3. \A r \in Req \ Scheduled : sched[r] = 0
      BY <1>1 DEF Scheduled
    <2>4. Sum(sched, Req \ Scheduled) = 0
      BY <2>3, SumZero
    <2>5. Sum(sched, P \cup D) = Sum(sched, P) + Sum(sched, D)
      BY <1>1, <1>6, SumApart
    <2>6. Sum(sched, D) = b
      BY <1>6, <1>7, SumOnes
    <2>7. Sum(sched, Scheduled) = a + b
      BY <1>6, <2>5, <2>6
    <2>8. a \in Nat /\ b \in Nat
      BY <1>1, <1>6, SumType, Requests
    <2> HIDE DEF a, b, P, D
    <2> QED
      BY <2>2, <2>4, <2>7, <2>8
  <1>9. a \in Nat /\ b \in Nat /\ c \in Nat
    BY <1>1, <1>6, SumType, Requests
  <1>10. a <= top
    <2>1. step.budget + a = step.total
      BY <1>3 DEF BudgetBalances, InStep, Spent
    <2>2. d \in Decodes(step.carried)
      BY <1>3 DEF Decodes
    <2>3. step.total <= top
      BY <1>2, <1>3, <2>2 DEF BudgetOK
    <2> HIDE DEF a, top
    <2> QED
      BY <1>1, <1>2, <1>9, <2>1, <2>3
  <1>11. c + b + 1 <= MaxSeqs
    <2>1. Cardinality(P \cup D) = c + b
      BY <1>6, CountedApart
    <2>2. Cardinality((P \cup D) \cup {d}) = Cardinality(P \cup D) + 1
      <3>1. IsFiniteSet(P \cup D)
        BY <1>6, Requests
      <3> QED
        BY <1>6, <3>1, FS_AddElement
    <2>3. Cardinality((P \cup D) \cup {d}) <= Cardinality(Running)
      <3>1. (P \cup D) \cup {d} \subseteq Running
        BY <1>4, <1>6
      <3> QED
        BY <1>3, <3>1, Counted
    <2>4. Cardinality(Running) = Len(running) /\ Len(running) <= MaxSeqs /\ Len(running) \in Nat
      BY Places DEF StepOK
    <2> HIDE DEF c, b, P, D
    <2> QED
      BY <1>1, <1>9, <2>1, <2>2, <2>3, <2>4
  <1>12. c = 0 => a = 0
    <2> SUFFICES ASSUME c = 0 PROVE a = 0
      OBVIOUS
    <2>1. P = {}
      BY <1>6, Requests, FS_EmptySet
    <2> QED
      BY <2>1, SumZero
  <1>13. budget + (a + b) = MaxTokens
    BY <1>3, <1>8 DEF BudgetOK, Spent
  <1> HIDE DEF a, b, c, top, P, D
  <1> QED
    BY <1>1, <1>2, <1>9, <1>10, <1>11, <1>12, <1>13

LEMMA EndRunningStep ==
    ASSUME FairInv, EndRunningLoop
    PROVE  FairInv'
  <1> TypeOK /\ RequestOK /\ StepOK /\ LoopOK /\ BudgetOK /\ BudgetBalances /\ RideOK /\ TurnOK
    BY DEF FairInv
  <1>1. /\ phase = "running" /\ held.req = 0 /\ phase' = "waiting"
        /\ index > Len(running) \/ budget = 0
        /\ passed' = [r \in Req |-> IF \E j \in index .. Len(running) : running[j] = r
                                    THEN 0 ELSE passed[r]]
        /\ UNCHANGED <<bypass, pp, prio, tokens, prompt, late, computed, isPrefill, running,
                       waiting, index, budget, sched, preempted, step, held>>
    BY DEF EndRunningLoop, reqVars
  <1>2. InStep /\ InStep'
    BY <1>1 DEF InStep
  <1>3. Running' = Running /\ InUse' = InUse
    BY <1>1 DEF Running, InUse
  <1>4. /\ passed' \in [Req -> Nat]
        /\ \A q \in Req : passed'[q] > 0 =>
              passed'[q] = passed[q] /\ \A j \in index .. Len(running) : running[j] # q
    <2>1. passed \in [Req -> Nat]
      BY Types
    <2> QED
      BY <1>1, <2>1
  <1>5. TypeOK'
    <2>1. {tokens', prompt', computed', sched', passed'} \subseteq [Req -> Nat]
      <3>1. {tokens, prompt, computed, sched, passed} \subseteq [Req -> Nat]
        BY DEF TypeOK
      <3> QED
        BY <1>1, <1>4, <3>1
    <2> QED
      BY <1>1, <1>3, <2>1 DEF TypeOK
  <1>6. RequestOK'
    <2>1. ASSUME NEW q \in Req, passed'[q] > 0
          PROVE  /\ pp > 1 /\ q \in Running /\ ~isPrefill[q] /\ late[q] = 0
                 /\ q \in step.carried /\ sched[q] = 0
      BY <1>2, <1>4, <2>1 DEF RequestOK
    <2> QED
      BY <1>1, <1>2, <1>3, <2>1 DEF RequestOK
  <1>7. StepOK'
    BY <1>1, <1>2, <1>3 DEF StepOK
  <1>8. LoopOK'
    BY <1>1 DEF LoopOK
  <1>9. BudgetOK' /\ BudgetBalances'
    BY <1>1, BudgetSame, BalanceSame
  <1>10. RideOK'
    <2> SUFFICES ASSUME RoomForDecodes, ~bypass, pp = 1, preempted = {},
                        NEW r \in Decodes(step.carried)
                 PROVE  sched[r] > 0
      BY <1>1 DEF RideOK, Decodes
    <2>1. r \in Running /\ ~isPrefill[r] /\ r \in Req
      BY <1>2, Places DEF Decodes, StepOK
    <2>2. PICK j \in 1 .. Len(running) : running[j] = r
      BY <2>1, Places
    <2>3. CASE index > Len(running)
      <3>1. j < index
        BY <2>3, Types, Places
      <3> QED
        BY <1>1, <2>1, <2>2, <3>1 DEF RideOK
    <2>4. CASE budget = 0
      <3>1. sched[r] # 0
        BY <1>1, <2>1, <2>4, RoomLeft
      <3> QED
        BY <2>1, <3>1, Numbers
    <2> QED
      BY <1>1, <2>3, <2>4
  <1>11. TurnOK'
    <2> SUFFICES ASSUME NEW q \in Running, passed'[q] > 0 PROVE Turn(q)'
      BY <1>3, TurnIs DEF TurnOK, Turn
    <2>1. q \in Req
      BY Places
    <2>2. passed'[q] = passed[q] /\ \A j \in index .. Len(running) : running[j] # q
      BY <1>4, <2>1
    <2>3. Turn(q) /\ Ahead(q)' = Ahead(q)
      BY <1>1, <2>2 DEF TurnOK, Turn, Ahead
    <2>4. PICK j \in 1 .. Len(running) : running[j] = q
      BY Places
    <2>5. j < index
      BY <2>2, <2>4, Places, Types
    <2>6. Handled(q) /\ Handled(q)'
      BY <1>1, <1>2, <2>4, <2>5, Places DEF Handled
    <2> QED
      BY <1>1, <2>2, <2>3, <2>6, TurnSame
  <1> QED
    BY <1>5, <1>6, <1>7, <1>8, <1>9, <1>10, <1>11 DEF FairInv

-----------------------------------------------------------------------------
(* A request that is sized: within what it has left, the budget and, for a  *)
(* long prefill, what is left of the prefill budget.                        *)
HeldRecord == [req : Req \cup {0}, n : Nat, isPrefill : BOOLEAN, reqIsPrefill : BOOLEAN]

LEMMA HoldFacts ==
    ASSUME TypeOK, NEW r \in Req, NEW pre \in BOOLEAN, NEW rem \in Nat, NEW m \in Nat,
           NEW h, h = Hold(r, pre, rem, m)
    PROVE  /\ h \in HeldRecord /\ h.req = r /\ h.reqIsPrefill = pre
           /\ h.isPrefill <=> Fair /\ pre /\ ~Short(rem)
           /\ h.n \in Nat /\ h.n <= m
           /\ h.isPrefill => h.n <= step.budget
           /\ ~h.isPrefill => h.n = m
  <1>1. step.cap \in Nat /\ step.budget \in Nat
    BY Types
  <1> DEFINE isPre == Fair /\ pre /\ ~Short(rem)
             limit == Least(step.cap, step.budget)
             n == IF isPre THEN Least(m, limit) ELSE m
  <1>2. limit \in Nat /\ limit <= step.budget
    BY <1>1 DEF Least
  <1> HIDE DEF limit
  <1>3. n \in Nat /\ n <= m /\ (isPre => n <= limit) /\ (~isPre => n = m)
    BY <1>2 DEF Least
  <1>4. h = [req |-> r, n |-> n, isPrefill |-> isPre, reqIsPrefill |-> pre]
    BY DEF Hold, limit
  <1>5. isPre \in BOOLEAN
    OBVIOUS
  <1> HIDE DEF n, isPre
  <1>6. h \in HeldRecord
    BY <1>3, <1>4, <1>5 DEF HeldRecord
  <1>7. h.req = r /\ h.n = n /\ h.isPrefill = isPre /\ h.reqIsPrefill = pre
    BY <1>4
  <1> QED
    <2>1. h.n \in Nat /\ h.n <= m /\ (~h.isPrefill => h.n = m)
      BY <1>3, <1>7
    <2>2. h.isPrefill => h.n <= step.budget
      BY <1>1, <1>2, <1>3, <1>7
    <2>3. h.isPrefill <=> Fair /\ pre /\ ~Short(rem)
      BY <1>7 DEF isPre
    <2> QED
      BY <1>6, <1>7, <2>1, <2>2, <2>3

LEMMA ReserveFacts ==
    ASSUME NEW n \in Nat, NEW rem \in Nat
    PROVE  Reserve(n, rem) \in Nat /\ Reserve(n, rem) <= n
  <1>1. Lookahead \in Nat
    BY FairPrefillAssumption
  <1> QED
    BY <1>1 DEF Reserve, Least, Most

LEMMA SizeFacts ==
    ASSUME TypeOK, RequestOK, StepOK, LoopOK, Size, NEW r, r = running[index]
    PROVE  /\ phase = "running" /\ held.req = 0 /\ index <= Len(running)
           /\ UNCHANGED <<bypass, pp, prio, tokens, prompt, late, computed, isPrefill, running,
                          waiting, phase, budget, sched, preempted, step, passed>>
           /\ \/ /\ held' = NoRequest /\ index' = index + 1
                 /\ ~isPrefill[r] => late[r] > 0
              \/ /\ held' \in HeldRecord /\ index' = index
                 /\ held'.req = r /\ held'.n \in 1 .. budget /\ held'.n <= Remaining(r)
                 /\ held'.reqIsPrefill = isPrefill[r]
                 /\ held'.isPrefill <=> Fair /\ isPrefill[r] /\ ~Short(Remaining(r))
                 /\ held'.isPrefill => held'.n <= step.budget
  <1> DEFINE h == Hold(r, isPrefill[r], Remaining(r), Least(Remaining(r), budget))
             n == IF isPrefill[r] THEN Reserve(h.n, Remaining(r)) ELSE h.n
  <1>1. /\ phase = "running" /\ held.req = 0 /\ index <= Len(running) /\ budget > 0
        /\ UNCHANGED <<bypass, pp, prio, tokens, prompt, late, computed, isPrefill, running,
                       waiting, phase, budget, sched, preempted, step, passed>>
        /\ IF n = 0 THEN held' = NoRequest /\ index' = index + 1
                    ELSE held' = [h EXCEPT !.n = n] /\ UNCHANGED index
    BY DEF Size, reqVars
  <1>2. r \in Req /\ r \in Running /\ r \in step.carried /\ InStep
    BY <1>1, AtIndex
  <1>3. Remaining(r) \in Nat /\ isPrefill[r] \in BOOLEAN /\ budget \in Nat
    BY <1>2, Numbers, Types
  <1>4. /\ Least(Remaining(r), budget) \in Nat /\ Least(Remaining(r), budget) <= budget
        /\ Least(Remaining(r), budget) <= Remaining(r)
        /\ Least(Remaining(r), budget) = 0 => Remaining(r) = 0
    BY <1>1, <1>3 DEF Least
  <1>5. /\ h \in HeldRecord /\ h.req = r /\ h.reqIsPrefill = isPrefill[r]
        /\ h.isPrefill <=> Fair /\ isPrefill[r] /\ ~Short(Remaining(r))
        /\ h.n \in Nat /\ h.n <= Least(Remaining(r), budget)
        /\ h.isPrefill => h.n <= step.budget
        /\ ~h.isPrefill => h.n = Least(Remaining(r), budget)
    BY <1>2, <1>3, <1>4, HoldFacts
  <1> HIDE DEF h
  <1>6. n \in Nat /\ n <= h.n /\ (~isPrefill[r] => n = h.n)
    BY <1>3, <1>5, ReserveFacts
  <1>7. CASE n = 0
    <2>1. ASSUME ~isPrefill[r] PROVE late[r] > 0
      <3>1. Remaining(r) = 0
        BY <1>4, <1>5, <1>6, <1>7, <2>1
      <3>2. computed[r] + (IF late[r] > 0 THEN 0 ELSE 1) = tokens[r]
        BY <1>2, <2>1 DEF RequestOK
      <3> QED
        BY <1>2, <3>1, <3>2, Numbers DEF Remaining
    <2> QED
      BY <1>1, <1>7, <2>1
  <1>8. CASE n # 0
    <2>1. held' = [h EXCEPT !.n = n] /\ index' = index
      BY <1>1, <1>8
    <2> HIDE DEF n
    <2>2. /\ held' \in HeldRecord /\ held'.req = h.req /\ held'.n = n
          /\ held'.reqIsPrefill = h.reqIsPrefill /\ held'.isPrefill = h.isPrefill
      BY <1>5, <1>6, <2>1 DEF HeldRecord
    <2>3. n \in 1 .. budget /\ n <= Remaining(r) /\ (h.isPrefill => n <= step.budget)
      <3>1. step.budget \in Nat
        BY Types
      <3> QED
        BY <1>3, <1>4, <1>5, <1>6, <1>8, <3>1
    <2> QED
      BY <1>1, <1>5, <2>1, <2>2, <2>3
  <1> QED
    BY <1>7, <1>8

LEMMA SizeStep ==
    ASSUME FairInv, Size
    PROVE  FairInv'
  <1> TypeOK /\ RequestOK /\ StepOK /\ LoopOK /\ BudgetOK /\ BudgetBalances /\ RideOK /\ TurnOK
    BY DEF FairInv
  <1>0. PICK r : r = running[index]
    OBVIOUS
  <1>1. /\ phase = "running" /\ held.req = 0 /\ index <= Len(running)
        /\ UNCHANGED <<bypass, pp, prio, tokens, prompt, late, computed, isPrefill, running,
                       waiting, phase, budget, sched, preempted, step, passed>>
        /\ \/ /\ held' = NoRequest /\ index' = index + 1
              /\ ~isPrefill[r] => late[r] > 0
           \/ /\ held' \in HeldRecord /\ index' = index
              /\ held'.req = r /\ held'.n \in 1 .. budget /\ held'.n <= Remaining(r)
              /\ held'.reqIsPrefill = isPrefill[r]
              /\ held'.isPrefill <=> Fair /\ isPrefill[r] /\ ~Short(Remaining(r))
              /\ held'.isPrefill => held'.n <= step.budget
    BY <1>0, SizeFacts
  <1>2. /\ r \in Running /\ r \in Req /\ r \in step.carried /\ sched[r] = 0 /\ InStep
        /\ r \notin Ahead(r)
    BY <1>0, <1>1, AtIndex
  <1>3. InStep' /\ Running' = Running /\ InUse' = InUse
    BY <1>1, <1>2 DEF InStep, Running, InUse
  <1>4. index \in Nat /\ index \in 1 .. Len(running) /\ Len(running) \in Nat
        /\ (index' = index \/ index' = index + 1)
    BY <1>1, Types, Places
  <1>5. TypeOK'
    <2>1. held' \in [req : Req \cup {0}, n : Nat, isPrefill : BOOLEAN, reqIsPrefill : BOOLEAN]
      <3>1. NoRequest \in HeldRecord
        BY DEF NoRequest, HeldRecord
      <3> QED
        BY <1>1, <3>1 DEF HeldRecord
    <2>2. index' \in Nat \ {0}
      BY <1>4
    <2> QED
      BY <1>1, <1>3, <2>1, <2>2 DEF TypeOK
  <1>6. RequestOK'
    BY <1>1, <1>2, <1>3 DEF RequestOK
  <1>7. StepOK'
    BY <1>1, <1>2, <1>3 DEF StepOK
  <1>8. LoopOK'
    <2>1. Running' \subseteq step'.carried /\ \A j \in index' .. Len(running') : sched'[running'[j]] = 0
      <3>1. \A j \in index' .. Len(running) : j \in index .. Len(running)
        BY <1>4
      <3> QED
        BY <1>1, <1>3, <3>1 DEF LoopOK
    <2>2. CASE held' = NoRequest
      <3>1. held'.req = 0
        BY <2>2 DEF NoRequest
      <3> QED
        BY <2>1, <3>1 DEF LoopOK
    <2>3. CASE held' # NoRequest
      <3>1. /\ index' = index /\ held'.req = r /\ held'.n \in 1 .. budget
            /\ held'.n <= Remaining(r) /\ held'.reqIsPrefill = isPrefill[r]
            /\ held'.isPrefill <=> Fair /\ isPrefill[r] /\ ~Short(Remaining(r))
            /\ held'.isPrefill => held'.n <= step.budget
        BY <1>1, <2>3
      <3>2. \A j \in index + 1 .. Len(running) : running[j] # r
        BY <1>0, <1>4, Places
      <3>3. Remaining(r)' = Remaining(r) /\ Short(Remaining(r))' = Short(Remaining(r))
        BY <1>1 DEF Remaining, Short, BypassOn
      <3>4. /\ phase' = "running" /\ held'.req \in Running' /\ sched'[held'.req] = 0
            /\ held'.n \in 1 .. budget' /\ held'.n <= Remaining(held.req)'
            /\ held'.reqIsPrefill = isPrefill'[held'.req]
            /\ held'.isPrefill <=> Fair /\ isPrefill'[held'.req] /\ ~Short(Remaining(held.req))'
            /\ held'.isPrefill => held'.n <= step'.budget
        BY <1>1, <1>2, <1>3, <3>1, <3>3 DEF Remaining, Short, BypassOn
      <3>5. /\ \A j \in index' + 1 .. Len(running') : running'[j] # held'.req
            /\ index' <= Len(running') /\ running'[index'] = held'.req
        BY <1>0, <1>1, <3>1, <3>2
      <3> QED
        BY <2>1, <3>4, <3>5 DEF LoopOK
    <2> QED
      BY <2>2, <2>3
  <1>9. BudgetOK' /\ BudgetBalances'
    BY <1>1, BudgetSame, BalanceSame
  <1>10. RideOK'
    <2> SUFFICES ASSUME RoomForDecodes, ~bypass, pp = 1, preempted = {},
                        NEW j \in 1 .. Len(running), j < index', ~isPrefill[running[j]]
                 PROVE  sched[running[j]] > 0
      BY <1>1 DEF RideOK
    <2>1. CASE j < index
      BY <1>1, <2>1 DEF RideOK
    <2>2. CASE ~(j < index)
      <3>1. j = index /\ index' = index + 1
        BY <1>4, <2>2
      <3>2. late[r] > 0
        BY <1>0, <1>1, <1>4, <3>1
      <3> QED
        BY <1>2, <3>2, Numbers
    <2> QED
      BY <2>1, <2>2
  <1>11. TurnOK'
    <2> SUFFICES ASSUME NEW q \in Running, passed[q] > 0 PROVE Turn(q)'
      BY <1>1, <1>3, TurnIs DEF TurnOK, Turn
    <2>1. Turn(q) /\ Ahead(q)' = Ahead(q) /\ q \in Req /\ ~isPrefill[q] /\ late[q] = 0
      BY <1>1, Places DEF TurnOK, Turn, Ahead, RequestOK
    <2>2. Handled(q)' <=> Handled(q)
      <3>1. CASE index' = index
        BY <1>1, <1>2, <1>3, <3>1 DEF Handled
      <3>2. CASE index' = index + 1
        <4>1. q # r
          BY <1>1, <1>4, <2>1, <3>2, Numbers
        <4>2. \A j \in DOMAIN running : running[j] = q => (j < index <=> j < index + 1)
          BY <1>0, <1>4, <4>1, Places
        <4> QED
          BY <1>1, <1>2, <1>3, <3>2, <4>2 DEF Handled
      <3> QED
        BY <1>4, <3>1, <3>2
    <2> QED
      BY <1>1, <2>1, <2>2, TurnSame
  <1> QED
    BY <1>5, <1>6, <1>7, <1>8, <1>9, <1>10, <1>11 DEF FairInv

-----------------------------------------------------------------------------
(* One request more is scheduled: the sums grow by its tokens.              *)
LEMMA ScheduleOne ==
    ASSUME sched \in [Req -> Nat], NEW r \in Req, NEW n \in Nat, n > 0, sched[r] = 0,
           sched' = [sched EXCEPT ![r] = n]
    PROVE  /\ sched' \in [Req -> Nat] /\ Scheduled' = Scheduled \cup {r} /\ r \notin Scheduled
           /\ Sum(sched', Req) = Sum(sched, Req) + n
           /\ \A D \in SUBSET Scheduled, b \in BOOLEAN :
                LET DD == IF b THEN D \cup {r} ELSE D
                IN  /\ Sum(sched', DD) = Sum(sched, D) + (IF b THEN n ELSE 0)
                    /\ Cardinality(DD) = Cardinality(D) + (IF b THEN 1 ELSE 0)
  <1>1. sched' \in [Req -> Nat] /\ sched'[r] = n /\ \A q \in Req \ {r} : sched'[q] = sched[q]
    OBVIOUS
  <1>2. Scheduled' = Scheduled \cup {r} /\ r \notin Scheduled /\ Scheduled \subseteq Req
    BY <1>1 DEF Scheduled
  <1>3. Sum(sched', Req) = Sum(sched, Req) + n
    <2>1. Sum(sched', Req) = Sum(sched, Req) + sched'[r]
      BY <1>1, SumGrows
    <2> QED
      BY <1>1, <2>1
  <1>4. ASSUME NEW D \in SUBSET Scheduled
        PROVE  /\ Sum(sched', D) = Sum(sched, D) /\ Sum(sched', D) \in Nat
               /\ Sum(sched', D \cup {r}) = Sum(sched, D) + n
               /\ Cardinality(D) \in Nat /\ Cardinality(D \cup {r}) = Cardinality(D) + 1
    <2>1. D \subseteq Req /\ r \notin D /\ {r} \subseteq Req /\ D \cap {r} = {}
      BY <1>2
    <2>2. \A q \in D : sched'[q] = sched[q]
      BY <1>1, <2>1
    <2>3. Sum(sched', D) = Sum(sched, D)
      <3>1. PICK f, g : f = sched' /\ g = sched
        OBVIOUS
      <3>2. \A q \in D : f[q] = g[q]
        BY <2>2, <3>1
      <3>3. Sum(f, D) = Sum(g, D)
        BY <3>2, SumSame
      <3> QED
        BY <3>1, <3>3
    <2>4. Sum(sched', D \cup {r}) = Sum(sched', D) + Sum(sched', {r})
      BY <1>1, <2>1, SumApart
    <2>5. Sum(sched', {r}) = sched'[r]
      BY <1>1, SumOne
    <2>6. IsFiniteSet(D) /\ Cardinality(D) \in Nat
      BY <2>1, Requests
    <2>7. Cardinality(D \cup {r}) = Cardinality(D) + 1
      BY <2>1, <2>6, FS_AddElement
    <2>8. Sum(sched', D) \in Nat
      BY <1>1, <2>1, SumType
    <2> QED
      BY <1>1, <2>3, <2>4, <2>5, <2>6, <2>7, <2>8
  <1>5. ASSUME NEW D \in SUBSET Scheduled, NEW b \in BOOLEAN
        PROVE  LET DD == IF b THEN D \cup {r} ELSE D
               IN  /\ Sum(sched', DD) = Sum(sched, D) + (IF b THEN n ELSE 0)
                   /\ Cardinality(DD) = Cardinality(D) + (IF b THEN 1 ELSE 0)
    <2>1. CASE b
      BY <1>4, <2>1
    <2>2. CASE ~b
      <3>1. /\ Sum(sched', D) = Sum(sched, D) /\ Sum(sched', D) \in Nat
            /\ Cardinality(D) \in Nat
        BY <1>4
      <3>2. Sum(sched', D) = Sum(sched, D) + 0 /\ Cardinality(D) = Cardinality(D) + 0
        BY <3>1
      <3> QED
        BY <2>2, <3>2
    <2> QED
      BY <2>1, <2>2
  <1> QED
    BY <1>1, <1>2, <1>3, <1>5

(* A request is charged: the budgets still say what was scheduled.          *)
LEMMA ChargeBalances ==
    ASSUME TypeOK, BudgetOK, BudgetBalances, InStep, NEW r \in Req, NEW n \in Nat, n > 0, sched[r] = 0,
           sched' = [sched EXCEPT ![r] = n],
           \A q \in Scheduled : /\ Draws(q)' <=> Draws(q)
                                /\ Prefills(q)' <=> Prefills(q)
                                /\ isPrefill'[q] = isPrefill[q],
           isPrefill'[r] = isPrefill[r], pp' = pp, Decodes(step.carried)' = Decodes(step.carried),
           n <= budget, budget' = budget - n, step'.total = step.total,
           step'.decodeCap = step.decodeCap,
           Draws(r)' => n <= step.budget,
           step'.budget = IF Draws(r)' THEN step.budget - n ELSE step.budget,
           step'.tokens = IF Prefills(r)' THEN step.tokens + n ELSE step.tokens,
           step'.reqs = IF Prefills(r)' THEN step.reqs + 1 ELSE step.reqs,
           step'.decodes = IF isPrefill[r] THEN step.decodes ELSE step.decodes + 1
    PROVE  BudgetOK' /\ BudgetBalances'
  <1> DEFINE P == {q \in Scheduled : Draws(q)}
             Q == {q \in Scheduled : Prefills(q)}
             D == Decodes(Scheduled)
  <1>1. /\ sched \in [Req -> Nat] /\ budget \in Nat /\ MaxTokens \in Nat
        /\ step.budget \in Nat /\ step.total \in Nat /\ step.tokens \in Nat /\ step.reqs \in Nat
        /\ step.decodes \in Nat
    BY Types
  <1>2. PICK draws \in BOOLEAN : draws <=> Draws(r)'
    OBVIOUS
  <1>3. PICK prefills \in BOOLEAN : prefills <=> Prefills(r)'
    OBVIOUS
  <1>4. PICK decodes \in BOOLEAN : decodes <=> ~isPrefill[r]
    OBVIOUS
  <1>5. /\ Scheduled' = Scheduled \cup {r} /\ r \notin Scheduled
        /\ Sum(sched', Req) = Sum(sched, Req) + n
    BY <1>1, ScheduleOne
  <1>6. \A E \in SUBSET Scheduled, b \in BOOLEAN :
           /\ Sum(sched', IF b THEN E \cup {r} ELSE E) = Sum(sched, E) + (IF b THEN n ELSE 0)
           /\ Cardinality(IF b THEN E \cup {r} ELSE E) = Cardinality(E) + (IF b THEN 1 ELSE 0)
    BY <1>1, ScheduleOne
  <1>7. /\ P \in SUBSET Scheduled /\ Q \in SUBSET Scheduled /\ D \in SUBSET Scheduled
        /\ Scheduled \subseteq Req
    BY DEF Decodes, Scheduled
  <1>8. {q \in Scheduled : Draws(q)}' = IF draws THEN P \cup {r} ELSE P
    BY <1>2, <1>5
  <1>9. {q \in Scheduled : Prefills(q)}' = IF prefills THEN Q \cup {r} ELSE Q
    BY <1>3, <1>5
  <1>10. Decodes(Scheduled)' = IF decodes THEN D \cup {r} ELSE D
    BY <1>4, <1>5 DEF Decodes
  <1>11. /\ Sum(sched, P) \in Nat /\ Sum(sched, Q) \in Nat /\ Cardinality(Q) \in Nat
         /\ Cardinality(D) \in Nat /\ Sum(sched, Req) \in Nat
    <2>1. P \subseteq Req /\ Q \subseteq Req /\ D \subseteq Req
      BY <1>7
    <2> QED
      BY <1>1, <2>1, SumType, Requests
  <1>12. /\ step.budget + Sum(sched, P) = step.total /\ step.tokens = Sum(sched, Q)
         /\ step.reqs = Cardinality(Q) /\ budget + Sum(sched, Req) = MaxTokens
    BY DEF BudgetBalances, BudgetOK, InStep, Spent
  <1> HIDE DEF P, Q, D
  <1>13. step'.budget + Sum(sched', IF draws THEN P \cup {r} ELSE P) = step'.total
    <2>1. Sum(sched', IF draws THEN P \cup {r} ELSE P) = Sum(sched, P) + (IF draws THEN n ELSE 0)
      BY <1>6, <1>7
    <2>2. step'.budget = IF draws THEN step.budget - n ELSE step.budget
      BY <1>2
    <2> QED
      BY <1>1, <1>11, <1>12, <2>1, <2>2
  <1>14. step'.tokens = Sum(sched', IF prefills THEN Q \cup {r} ELSE Q)
    <2>1. Sum(sched', IF prefills THEN Q \cup {r} ELSE Q) = Sum(sched, Q) + (IF prefills THEN n ELSE 0)
      BY <1>6, <1>7
    <2>2. step'.tokens = IF prefills THEN step.tokens + n ELSE step.tokens
      BY <1>3
    <2> QED
      BY <1>11, <1>12, <2>1, <2>2
  <1>15. step'.reqs = Cardinality(IF prefills THEN Q \cup {r} ELSE Q)
    <2>1. Cardinality(IF prefills THEN Q \cup {r} ELSE Q) = Cardinality(Q) + (IF prefills THEN 1 ELSE 0)
      BY <1>6, <1>7
    <2>2. step'.reqs = IF prefills THEN step.reqs + 1 ELSE step.reqs
      BY <1>3
    <2> QED
      BY <1>11, <1>12, <2>1, <2>2
  <1>16. BudgetBalances'
    BY <1>8, <1>9, <1>13, <1>14, <1>15 DEF BudgetBalances, Spent
  <1>17. budget' + Sum(sched', Req) = MaxTokens
    BY <1>1, <1>5, <1>11, <1>12
  <1>18. pp > 1 => step'.decodes = Cardinality(IF decodes THEN D \cup {r} ELSE D)
    <2>1. Cardinality(IF decodes THEN D \cup {r} ELSE D) = Cardinality(D) + (IF decodes THEN 1 ELSE 0)
      BY <1>6, <1>7
    <2>2. step'.decodes = IF decodes THEN step.decodes + 1 ELSE step.decodes
      BY <1>4
    <2>3. pp > 1 => step.decodes = Cardinality(D)
      BY DEF BudgetOK, D
    <2> QED
      BY <1>11, <2>1, <2>2, <2>3
  <1>19. /\ Chunk > 0 /\ Decodes(step.carried) # {} => step.total <= Most(Chunk, Lookahead + 1)
         /\ pp > 1 => pp * step.decodeCap >= Cardinality(Decodes(step.carried))
    BY DEF BudgetOK
  <1>20. BudgetOK'
    BY <1>10, <1>17, <1>18, <1>19 DEF BudgetOK, Spent
  <1> QED
    BY <1>16, <1>20

(* The budgets after a charge. *)
LEMMA ChargedIs ==
    ASSUME TypeOK, NEW h \in HeldRecord, NEW n \in Nat, h.isPrefill => n <= step.budget,
           NEW c, c = Charged(h, n)
    PROVE  /\ c \in [budget : Nat, cap : Nat, tokens : Nat, reqs : Nat, decodes : Nat,
                     decodeCap : Nat, total : Nat, carried : SUBSET Req]
           /\ c.budget = (IF h.isPrefill THEN step.budget - n ELSE step.budget)
           /\ c.tokens = (IF h.reqIsPrefill THEN step.tokens + n ELSE step.tokens)
           /\ c.reqs = (IF h.reqIsPrefill THEN step.reqs + 1 ELSE step.reqs)
           /\ c.decodes = (IF isPrefill[h.req] THEN step.decodes ELSE step.decodes + 1)
           /\ c.total = step.total /\ c.decodeCap = step.decodeCap /\ c.carried = step.carried
  <1> DEFINE b == IF h.isPrefill THEN step.budget - n ELSE step.budget
             t == IF h.reqIsPrefill THEN step.tokens + n ELSE step.tokens
             q == IF h.reqIsPrefill THEN step.reqs + 1 ELSE step.reqs
             d == IF isPrefill[h.req] THEN step.decodes ELSE step.decodes + 1
  <1>1. step \in [budget : Nat, cap : Nat, tokens : Nat, reqs : Nat, decodes : Nat,
                  decodeCap : Nat, total : Nat, carried : SUBSET Req]
    BY DEF TypeOK
  <1>2. b \in Nat /\ t \in Nat /\ q \in Nat /\ d \in Nat
    BY <1>1
  <1>3. c = [step EXCEPT !.budget = b, !.tokens = t, !.reqs = q, !.decodes = d]
    BY <1>1 DEF Charged
  <1> HIDE DEF b, t, q, d
  <1>4. /\ c \in [budget : Nat, cap : Nat, tokens : Nat, reqs : Nat, decodes : Nat,
                  decodeCap : Nat, total : Nat, carried : SUBSET Req]
        /\ c.budget = b /\ c.tokens = t /\ c.reqs = q /\ c.decodes = d
        /\ c.total = step.total /\ c.decodeCap = step.decodeCap /\ c.carried = step.carried
    BY <1>1, <1>2, <1>3
  <1> QED
    BY <1>4 DEF b, t, q, d

(* The tokens in the cache when one request has more of them. *)
LEMMA InUseGrows ==
    ASSUME TypeOK, NEW r \in Running, computed' \in [Req -> Nat], sched' \in [Req -> Nat],
           \A q \in Running \ {r} : computed'[q] = computed[q] /\ sched'[q] = sched[q],
           Running' = Running
    PROVE  InUse' = InUse - (computed[r] + sched[r]) + (computed'[r] + sched'[r])
  <1> DEFINE f == [q \in Req |-> computed[q] + sched[q]]
             g == [q \in Req |-> computed'[q] + sched'[q]]
  <1>1. computed \in [Req -> Nat] /\ sched \in [Req -> Nat] /\ Running \subseteq Req /\ r \in Req
    BY Types, Places
  <1>2. f \in [Req -> Nat] /\ g \in [Req -> Nat]
    BY <1>1
  <1>3. \A q \in Running \ {r} : f[q] = g[q]
    BY <1>1
  <1>4. f[r] = computed[r] + sched[r] /\ g[r] = computed'[r] + sched'[r]
    BY <1>1
  <1>5. InUse = Sum(f, Running) /\ InUse' = Sum(g, Running)
    BY DEF InUse
  <1> HIDE DEF f, g
  <1>6. Sum(g, Running) = Sum(f, Running) - f[r] + g[r]
    BY <1>1, <1>2, <1>3, SumChange
  <1> QED
    BY <1>4, <1>5, <1>6

LEMMA EndWaitingStep ==
    ASSUME FairInv, EndWaitingLoop
    PROVE  FairInv'
  BY LoopsEnd DEF EndWaitingLoop, reqVars

LEMMA PlaceStep ==
    ASSUME FairInv, Place
    PROVE  FairInv'
  <1> TypeOK /\ RequestOK /\ StepOK /\ LoopOK /\ BudgetOK /\ BudgetBalances /\ RideOK /\ TurnOK
    BY DEF FairInv
  <1>0. PICK r, n : r = held.req /\ n = held.n
    OBVIOUS
  <1>1. /\ phase = "running" /\ r # 0 /\ Fits(n)
        /\ sched' = [sched EXCEPT ![r] = n] /\ budget' = budget - n
        /\ step' = Charged(held, n) /\ held' = NoRequest /\ index' = index + 1
        /\ passed' = [passed EXCEPT ![r] = 0]
        /\ UNCHANGED <<bypass, pp, prio, tokens, prompt, late, computed, isPrefill, running,
                       waiting, phase, preempted>>
    BY <1>0 DEF Place, reqVars
  <1>2. InStep /\ InStep' /\ Running' = Running /\ Running \subseteq step.carried /\ Running \subseteq Req
    BY <1>1, Places DEF InStep, Running, LoopOK
  <1>3. /\ r \in Running /\ r \in Req /\ r \in step.carried /\ sched[r] = 0
        /\ n \in 1 .. budget /\ n <= Remaining(r) /\ held.reqIsPrefill = isPrefill[r]
        /\ held.isPrefill <=> Fair /\ isPrefill[r] /\ ~Short(Remaining(r))
        /\ held.isPrefill => n <= step.budget
        /\ \A j \in index + 1 .. Len(running) : running[j] # r
        /\ preempted = {} => index <= Len(running) /\ running[index] = r
    BY <1>0, <1>1, <1>2 DEF LoopOK
  <1>4. /\ sched \in [Req -> Nat] /\ passed \in [Req -> Nat] /\ index \in Nat /\ index >= 1
        /\ budget \in Nat /\ MaxTokens \in Nat /\ budget <= MaxTokens /\ held \in HeldRecord
    <2>1. held \in HeldRecord
      BY DEF TypeOK, HeldRecord
    <2> QED
      BY <2>1, Types
  <1>5. n \in Nat /\ n > 0 /\ n <= budget /\ budget' \in 0 .. MaxTokens /\ index' \in Nat \ {0}
    BY <1>1, <1>3, <1>4
  <1>6. /\ sched' \in [Req -> Nat] /\ sched'[r] = n
        /\ passed' \in [Req -> Nat] /\ passed'[r] = 0
        /\ \A q \in Req \ {r} : sched'[q] = sched[q] /\ passed'[q] = passed[q]
    BY <1>1, <1>3, <1>4, <1>5
  <1>7. /\ step' \in [budget : Nat, cap : Nat, tokens : Nat, reqs : Nat, decodes : Nat,
                      decodeCap : Nat, total : Nat, carried : SUBSET Req]
        /\ step'.budget = (IF held.isPrefill THEN step.budget - n ELSE step.budget)
        /\ step'.tokens = (IF held.reqIsPrefill THEN step.tokens + n ELSE step.tokens)
        /\ step'.reqs = (IF held.reqIsPrefill THEN step.reqs + 1 ELSE step.reqs)
        /\ step'.decodes = (IF isPrefill[r] THEN step.decodes ELSE step.decodes + 1)
        /\ step'.total = step.total /\ step'.decodeCap = step.decodeCap
        /\ step'.carried = step.carried
    <2>1. PICK c : c = step'
      OBVIOUS
    <2>2. c = Charged(held, n) /\ (held.isPrefill => n <= step.budget) /\ n \in Nat
      BY <1>1, <1>3, <1>5, <2>1
    <2>3. /\ c \in [budget : Nat, cap : Nat, tokens : Nat, reqs : Nat, decodes : Nat,
                    decodeCap : Nat, total : Nat, carried : SUBSET Req]
          /\ c.budget = (IF held.isPrefill THEN step.budget - n ELSE step.budget)
          /\ c.tokens = (IF held.reqIsPrefill THEN step.tokens + n ELSE step.tokens)
          /\ c.reqs = (IF held.reqIsPrefill THEN step.reqs + 1 ELSE step.reqs)
          /\ c.decodes = (IF isPrefill[held.req] THEN step.decodes ELSE step.decodes + 1)
          /\ c.total = step.total /\ c.decodeCap = step.decodeCap /\ c.carried = step.carried
      BY <1>4, <2>2, ChargedIs
    <2> QED
      BY <1>0, <2>1, <2>3
  <1>8. /\ \A q : Draws(q)' = Draws(q) /\ Prefills(q)' = Prefills(q)
        /\ Decodes(step.carried)' = Decodes(step.carried)
    BY <1>1, <1>7 DEF Draws, Prefills, Short, BypassOn, Remaining, Decodes
  <1>9. (Prefills(r) <=> held.reqIsPrefill) /\ (Draws(r) <=> held.isPrefill)
    BY <1>3 DEF Draws, Prefills
  <1>10. TypeOK'
    <2>1. {tokens', prompt', computed', sched', passed'} \subseteq [Req -> Nat]
      <3>1. {tokens, prompt, computed, sched, passed} \subseteq [Req -> Nat]
        BY DEF TypeOK
      <3> QED
        BY <1>1, <1>6, <3>1
    <2>2. \A q \in Req : /\ tokens'[q] <= prompt'[q] + MaxOutput
                         /\ computed'[q] + sched'[q] <= tokens'[q]
      <3> SUFFICES ASSUME NEW q \in Req
                   PROVE  /\ tokens[q] <= prompt[q] + MaxOutput
                          /\ computed[q] + sched'[q] <= tokens[q]
        BY <1>1
      <3>1. tokens[q] <= prompt[q] + MaxOutput /\ computed[q] + sched[q] <= tokens[q]
        BY DEF TypeOK
      <3>2. CASE q = r
        BY <1>3, <1>5, <1>6, <3>1, <3>2, Numbers DEF Remaining
      <3>3. CASE q # r
        BY <1>6, <3>1, <3>3
      <3> QED
        BY <3>2, <3>3
    <2>3. held' \in [req : Req \cup {0}, n : Nat, isPrefill : BOOLEAN, reqIsPrefill : BOOLEAN]
      BY <1>1 DEF NoRequest
    <2>4. pp' = 1 => InUse' <= Capacity
      <3> SUFFICES ASSUME pp = 1 PROVE InUse' <= Capacity
        BY <1>1
      <3>1. InUse + n <= Capacity
        BY <1>1 DEF Fits
      <3>2. computed' \in [Req -> Nat]
        BY <1>1, Types
      <3>3. InUse' = InUse - (computed[r] + sched[r]) + (computed'[r] + sched'[r])
        BY <1>1, <1>2, <1>3, <1>6, <3>2, InUseGrows
      <3>4. InUse \in Nat
        <4>1. [q \in Req |-> computed[q] + sched[q]] \in [Req -> Nat]
          BY Types
        <4> QED
          BY <1>2, <4>1, SumType DEF InUse
      <3>5. InUse' = InUse + n
        BY <1>1, <1>3, <1>5, <1>6, <3>3, <3>4, Numbers
      <3> QED
        BY <3>1, <3>5
    <2>5. waiting' \subseteq Req \ Running'
      BY <1>1, <1>2 DEF TypeOK
    <2> QED
      BY <1>1, <1>5, <1>7, <2>1, <2>2, <2>3, <2>4, <2>5 DEF TypeOK
  <1>11. RequestOK'
    <2>1. ASSUME NEW q \in Req, passed'[q] > 0
          PROVE  /\ pp > 1 /\ q \in Running /\ ~isPrefill[q] /\ late[q] = 0
                 /\ q \in step.carried /\ sched'[q] = 0
      <3>1. q # r /\ passed[q] > 0 /\ sched'[q] = sched[q]
        BY <1>6, <2>1
      <3> QED
        BY <1>2, <3>1 DEF RequestOK
    <2> QED
      BY <1>1, <1>2, <1>7, <2>1 DEF RequestOK
  <1>12. StepOK'
    <2>1. \A q \in Req : sched[q] > 0 \/ q = r => sched'[q] > 0
      BY <1>5, <1>6
    <2>2. \A q \in Req : sched'[q] > 0 => q \in Running
      BY <1>3, <1>6 DEF StepOK
    <2> QED
      BY <1>1, <1>2, <1>7, <2>1, <2>2 DEF StepOK
  <1>13. LoopOK'
    <2>1. ASSUME NEW j \in index' .. Len(running) PROVE sched'[running[j]] = 0
      <3>1. j \in index + 1 .. Len(running) /\ j \in index .. Len(running) /\ j \in 1 .. Len(running)
        BY <1>1, <1>4, Places
      <3>2. running[j] \in Req \ {r} /\ sched[running[j]] = 0
        BY <1>1, <1>3, <3>1, Places DEF LoopOK
      <3> QED
        BY <1>6, <3>2
    <2>2. held'.req = 0
      BY <1>1 DEF NoRequest
    <2> QED
      BY <1>1, <1>2, <1>7, <2>1, <2>2 DEF LoopOK
  <1>14. BudgetOK' /\ BudgetBalances'
    <2>1. /\ Draws(r)' => n <= step.budget
          /\ step'.budget = IF Draws(r)' THEN step.budget - n ELSE step.budget
          /\ step'.tokens = IF Prefills(r)' THEN step.tokens + n ELSE step.tokens
          /\ step'.reqs = IF Prefills(r)' THEN step.reqs + 1 ELSE step.reqs
      BY <1>3, <1>7, <1>8, <1>9
    <2> QED
      BY <1>1, <1>2, <1>3, <1>5, <1>7, <1>8, <2>1, ChargeBalances
  <1>15. RideOK'
    <2> SUFFICES ASSUME RoomForDecodes, ~bypass, pp = 1, preempted = {},
                        NEW j \in 1 .. Len(running), j < index', ~isPrefill[running[j]]
                 PROVE  sched'[running[j]] > 0
      BY <1>1 DEF RideOK
    <2>1. running[j] \in Req
      BY Places
    <2>2. CASE j < index
      <3>1. sched[running[j]] > 0
        BY <1>1, <2>2 DEF RideOK
      <3>2. running[j] # r
        BY <1>3, <3>1
      <3> QED
        BY <1>6, <2>1, <3>1, <3>2
    <2>3. CASE ~(j < index)
      <3>1. j = index
        BY <1>1, <1>4, <2>3, Places
      <3> QED
        BY <1>3, <1>5, <1>6, <3>1
    <2> QED
      BY <2>2, <2>3
  <1>16. TurnOK'
    <2> SUFFICES ASSUME NEW q \in Running, passed'[q] > 0 PROVE Turn(q)'
      BY <1>2, TurnIs DEF TurnOK, Turn
    <2>1. q \in Req /\ q # r /\ passed'[q] = passed[q]
      BY <1>2, <1>6
    <2>2. pp > 1 /\ preempted = {} /\ Turn(q) /\ Ahead(q)' = Ahead(q)
      BY <1>1, <2>1 DEF RequestOK, StepOK, TurnOK, Turn, Ahead
    <2>3. index <= Len(running) /\ running[index] = r
      BY <1>3, <2>2
    <2>4. r \in Ahead(q) => ~Handled(q)
      BY <1>1, <2>3, AtIndex
    <2>5. Handled(q)' <=> Handled(q)
      <3>1. \A j \in DOMAIN running : running[j] = q => j # index
        BY <2>1, <2>3
      <3>2. \A j \in DOMAIN running : running[j] = q => (j < index <=> j < index + 1)
        BY <1>4, <3>1, Places
      <3> QED
        BY <1>1, <1>2, <3>2 DEF Handled
    <2>6. \A t \in Ahead(q) \cup {q} : t \in Req /\ (Handled(q) => t # r)
      BY <1>2, <2>1, <2>4, AheadFacts
    <2>7. \A t \in Ahead(q) \cup {q} :
             /\ late'[t] = late[t] /\ isPrefill'[t] = isPrefill[t]
             /\ Handled(q) => /\ sched'[t] = sched[t] /\ computed'[t] = computed[t]
                              /\ tokens'[t] = tokens[t]
      BY <1>1, <1>6, <2>6
    <2> QED
      BY <1>1, <2>1, <2>2, <2>5, <2>7, TurnSame
  <1> QED
    BY <1>10, <1>11, <1>12, <1>13, <1>14, <1>15, <1>16 DEF FairInv

-----------------------------------------------------------------------------
LEMMA AdmitFacts ==
    ASSUME TypeOK, RequestOK, StepOK, LoopOK, Admit, phase' = "waiting"
    PROVE  \E r \in waiting, hit \in Nat, n \in Nat, h \in HeldRecord :
              /\ phase = "waiting" /\ preempted = {} /\ Len(running) < MaxSeqs
              /\ hit + n <= tokens[r] /\ n > 0 /\ n <= budget /\ Fits(hit + n)
              /\ h.req = r
              /\ h.reqIsPrefill <=> hit < tokens[r] - 1
              /\ h.isPrefill <=> Fair /\ h.reqIsPrefill /\ ~Short(tokens[r] - hit)
              /\ h.isPrefill => n <= step.budget
              /\ computed' = [computed EXCEPT ![r] = hit]
              /\ sched' = [sched EXCEPT ![r] = n]
              /\ running' = Append(running, r) /\ waiting' = waiting \ {r}
              /\ budget' = budget - n /\ step' = Charged(h, n)
              /\ UNCHANGED <<bypass, pp, prio, tokens, prompt, late, isPrefill, index,
                             preempted, held, passed>>
  <1>1. /\ phase = "waiting" /\ preempted = {} /\ waiting # {} /\ budget > 0
        /\ Len(running) < MaxSeqs
        /\ UNCHANGED <<bypass, pp, prio, tokens, prompt, late, isPrefill, index,
                       preempted, held, passed>>
    BY DEF Admit, MayAdmit, reqVars
  <1>2. PICK r : r = First(waiting)
    OBVIOUS
  <1>3. r \in waiting /\ r \in Req
    BY <1>1, <1>2, Types, FirstFacts
  <1> DEFINE rest(hit) == tokens[r] - hit
             h(hit) == Hold(r, hit < tokens[r] - 1, rest(hit), Least(rest(hit), budget))
             n(hit) == IF h(hit).reqIsPrefill THEN Reserve(h(hit).n, rest(hit)) ELSE h(hit).n
  <1>4. PICK hit \in Hits :
           /\ hit < tokens[r]
           /\ IF n(hit) > 0 /\ Fits(hit + n(hit))
                THEN /\ computed' = [computed EXCEPT ![r] = hit]
                     /\ sched' = [sched EXCEPT ![r] = n(hit)]
                     /\ running' = Append(running, r)
                     /\ waiting' = waiting \ {r}
                     /\ budget' = budget - n(hit)
                     /\ step' = Charged(h(hit), n(hit))
                     /\ UNCHANGED phase
                ELSE /\ phase' = "finish"
                     /\ UNCHANGED <<computed, sched, running, waiting, budget, step>>
    BY <1>2, Zenon DEF Admit
  <1>5. hit \in Nat /\ tokens[r] \in Nat /\ budget \in Nat /\ step.budget \in Nat
    BY <1>3, FairPrefillAssumption, Numbers, Types
  <1>6. PICK a, b, c : a = rest(hit) /\ b = h(hit) /\ c = n(hit)
    OBVIOUS
  <1>7. a \in Nat /\ a = tokens[r] - hit
    BY <1>4, <1>5, <1>6
  <1>8. Least(a, budget) \in Nat /\ Least(a, budget) <= a /\ Least(a, budget) <= budget
    BY <1>5, <1>7 DEF Least
  <1>9. PICK pre \in BOOLEAN : pre = (hit < tokens[r] - 1)
    <2>1. (hit < tokens[r] - 1) \in BOOLEAN
      BY SMT
    <2> QED
      BY <2>1, Zenon
  <1>10. b = Hold(r, pre, a, Least(a, budget))
    BY <1>6, <1>9
  <1>11. /\ b \in HeldRecord /\ b.req = r /\ b.reqIsPrefill = pre
         /\ b.isPrefill <=> Fair /\ pre /\ ~Short(a)
         /\ b.n \in Nat /\ b.n <= Least(a, budget)
         /\ b.isPrefill => b.n <= step.budget
    BY <1>3, <1>7, <1>8, <1>10, HoldFacts
  <1>12. c = IF b.reqIsPrefill THEN Reserve(b.n, a) ELSE b.n
    BY <1>6
  <1>13. c \in Nat /\ c <= b.n
    BY <1>7, <1>11, <1>12, ReserveFacts
  <1>14. /\ hit < tokens[r]
         /\ IF c > 0 /\ Fits(hit + c)
                THEN /\ computed' = [computed EXCEPT ![r] = hit]
                     /\ sched' = [sched EXCEPT ![r] = c]
                     /\ running' = Append(running, r)
                     /\ waiting' = waiting \ {r}
                     /\ budget' = budget - c
                     /\ step' = Charged(b, c)
                     /\ UNCHANGED phase
                ELSE /\ phase' = "finish"
                     /\ UNCHANGED <<computed, sched, running, waiting, budget, step>>
    BY <1>4, <1>6
  <1> HIDE DEF rest, h, n
  <1>15. c > 0 /\ Fits(hit + c)
    BY <1>14
  <1>16. hit + c <= tokens[r] /\ c <= budget /\ (b.isPrefill => c <= step.budget)
    BY <1>5, <1>7, <1>8, <1>11, <1>13
  <1>17. (b.reqIsPrefill <=> hit < tokens[r] - 1)
         /\ (b.isPrefill <=> Fair /\ b.reqIsPrefill /\ ~Short(tokens[r] - hit))
    BY <1>7, <1>9, <1>11
  <1>18. /\ computed' = [computed EXCEPT ![r] = hit] /\ sched' = [sched EXCEPT ![r] = c]
         /\ running' = Append(running, r) /\ waiting' = waiting \ {r}
         /\ budget' = budget - c /\ step' = Charged(b, c)
    BY <1>14, <1>15
  <1> QED
    BY <1>1, <1>3, <1>5, <1>11, <1>13, <1>15, <1>16, <1>17, <1>18

LEMMA AdmitStep ==
    ASSUME FairInv, Admit, phase' = "waiting"
    PROVE  FairInv'
  <1> TypeOK /\ RequestOK /\ StepOK /\ LoopOK /\ BudgetOK /\ BudgetBalances /\ RideOK /\ TurnOK
    BY DEF FairInv
  <1>0. PICK r \in waiting, hit \in Nat, n \in Nat, h \in HeldRecord :
              /\ phase = "waiting" /\ preempted = {} /\ Len(running) < MaxSeqs
              /\ hit + n <= tokens[r] /\ n > 0 /\ n <= budget /\ Fits(hit + n)
              /\ h.req = r
              /\ h.reqIsPrefill <=> hit < tokens[r] - 1
              /\ h.isPrefill <=> Fair /\ h.reqIsPrefill /\ ~Short(tokens[r] - hit)
              /\ h.isPrefill => n <= step.budget
              /\ computed' = [computed EXCEPT ![r] = hit]
              /\ sched' = [sched EXCEPT ![r] = n]
              /\ running' = Append(running, r) /\ waiting' = waiting \ {r}
              /\ budget' = budget - n /\ step' = Charged(h, n)
              /\ UNCHANGED <<bypass, pp, prio, tokens, prompt, late, isPrefill, index,
                             preempted, held, passed>>
    BY AdmitFacts
  <1>1. /\ UNCHANGED <<bypass, pp, prio, tokens, prompt, late, isPrefill, index,
                       preempted, held, passed, phase>>
        /\ phase = "waiting" /\ preempted = {} /\ running' = Append(running, r)
        /\ waiting' = waiting \ {r}
    BY <1>0
  <1>2. InStep /\ InStep' /\ held.req = 0
    BY <1>1 DEF InStep, LoopOK
  <1>3. /\ r \in Req /\ r \notin Running /\ sched[r] = 0 /\ late[r] = 0 /\ passed[r] = 0
        /\ r \notin step.carried
    <2>1. r \in Req /\ r \notin Running
      BY Types
    <2>2. r \notin step.carried
      BY <1>1, <1>2 DEF StepOK
    <2>3. ~(sched[r] > 0) /\ ~(late[r] > 0) /\ ~(passed[r] > 0)
      BY <2>1 DEF StepOK, RequestOK
    <2> QED
      BY <2>1, <2>2, <2>3, Numbers
  <1>4. /\ sched \in [Req -> Nat] /\ computed \in [Req -> Nat] /\ tokens \in [Req -> Nat]
        /\ budget \in Nat /\ MaxTokens \in Nat /\ budget <= MaxTokens
        /\ running \in Seq(Req) /\ Len(running) \in Nat /\ DOMAIN running = 1 .. Len(running)
        /\ Running \subseteq Req /\ MaxSeqs \in Nat
    BY Types, Places
  <1>5. /\ sched' \in [Req -> Nat] /\ sched'[r] = n
        /\ computed' \in [Req -> Nat] /\ computed'[r] = hit
        /\ \A q \in Req \ {r} : sched'[q] = sched[q] /\ computed'[q] = computed[q]
    BY <1>0, <1>3, <1>4
  <1>6. /\ running' \in Seq(Req) /\ Len(running') = Len(running) + 1
        /\ \A j \in 1 .. Len(running) : running'[j] = running[j]
        /\ running'[Len(running) + 1] = r
        /\ DOMAIN running' = 1 .. Len(running) + 1
    BY <1>1, <1>3, <1>4, AppendProperties
  <1>7. Running' = Running \cup {r}
    <2>1. Running = {running[j] : j \in 1 .. Len(running)}
      BY <1>4 DEF Running, ToSet
    <2>2. Running' = {running'[j] : j \in 1 .. Len(running) + 1}
      BY <1>6 DEF Running, ToSet
    <2>3. 1 .. Len(running) + 1 = (1 .. Len(running)) \cup {Len(running) + 1}
      BY <1>4
    <2> QED
      BY <1>6, <2>1, <2>2, <2>3
  <1>8. IsInjective(running')
    <2> SUFFICES ASSUME NEW i \in 1 .. Len(running) + 1, NEW j \in 1 .. Len(running) + 1,
                        running'[i] = running'[j]
                 PROVE  i = j
      BY <1>6 DEF IsInjective
    <2>1. \A k \in 1 .. Len(running) : running'[k] # r
      BY <1>3, <1>6, Places
    <2>2. \A k \in 1 .. Len(running) + 1 : k \in 1 .. Len(running) \/ k = Len(running) + 1
      BY <1>4
    <2>3. CASE i \in 1 .. Len(running) /\ j \in 1 .. Len(running)
      BY <1>6, <2>3, Places
    <2>4. CASE ~(i \in 1 .. Len(running) /\ j \in 1 .. Len(running))
      BY <1>6, <2>1, <2>2, <2>4
    <2> QED
      BY <2>3, <2>4
  <1>9. /\ step' \in [budget : Nat, cap : Nat, tokens : Nat, reqs : Nat, decodes : Nat,
                      decodeCap : Nat, total : Nat, carried : SUBSET Req]
        /\ step'.budget = (IF h.isPrefill THEN step.budget - n ELSE step.budget)
        /\ step'.tokens = (IF h.reqIsPrefill THEN step.tokens + n ELSE step.tokens)
        /\ step'.reqs = (IF h.reqIsPrefill THEN step.reqs + 1 ELSE step.reqs)
        /\ step'.decodes = (IF isPrefill[r] THEN step.decodes ELSE step.decodes + 1)
        /\ step'.total = step.total /\ step'.decodeCap = step.decodeCap
        /\ step'.carried = step.carried
    <2>1. h.req = r /\ step' = Charged(h, n) /\ (h.isPrefill => n <= step.budget)
      BY <1>0
    <2> QED
      BY <2>1, ChargedIs
  <1>10. TypeOK'
    <2>1. {tokens', prompt', computed', sched', passed'} \subseteq [Req -> Nat]
      <3>1. {tokens, prompt, computed, sched, passed} \subseteq [Req -> Nat]
        BY DEF TypeOK
      <3> QED
        BY <1>1, <1>5, <3>1
    <2>2. \A q \in Req : /\ tokens'[q] <= prompt'[q] + MaxOutput
                         /\ computed'[q] + sched'[q] <= tokens'[q]
      <3> SUFFICES ASSUME NEW q \in Req
                   PROVE  /\ tokens[q] <= prompt[q] + MaxOutput
                          /\ computed'[q] + sched'[q] <= tokens[q]
        BY <1>1
      <3>1. tokens[q] <= prompt[q] + MaxOutput /\ computed[q] + sched[q] <= tokens[q]
        BY DEF TypeOK
      <3>2. CASE q = r
        BY <1>0, <1>5, <3>1, <3>2
      <3>3. CASE q # r
        BY <1>5, <3>1, <3>3
      <3> QED
        BY <3>2, <3>3
    <2>3. budget' \in 0 .. MaxTokens
      <3>1. n <= budget /\ budget' = budget - n
        BY <1>0
      <3> QED
        BY <1>4, <3>1
    <2>4. pp' = 1 => InUse' <= Capacity
      <3> SUFFICES ASSUME pp = 1 PROVE InUse' <= Capacity
        BY <1>1
      <3> DEFINE f == [q \in Req |-> computed[q] + sched[q]]
                 g == [q \in Req |-> computed'[q] + sched'[q]]
      <3>1. InUse + (hit + n) <= Capacity
        BY <1>0 DEF Fits
      <3>2. f \in [Req -> Nat] /\ g \in [Req -> Nat]
        BY <1>4, <1>5
      <3>3. \A q \in Running : g[q] = f[q]
        BY <1>3, <1>4, <1>5
      <3>4. g[r] = hit + n
        BY <1>3, <1>5
      <3>5. InUse = Sum(f, Running) /\ InUse' = Sum(g, Running \cup {r})
        BY <1>7 DEF InUse
      <3> HIDE DEF f, g
      <3>6. Sum(g, Running \cup {r}) = Sum(g, Running) + Sum(g, {r})
        <4>1. Running \subseteq Req /\ {r} \subseteq Req /\ Running \cap {r} = {}
          BY <1>3, <1>4
        <4> QED
          BY <3>2, <4>1, SumApart
      <3>7. Sum(g, Running) = Sum(f, Running)
        BY <3>3, SumSame
      <3>8. Sum(g, {r}) = hit + n
        BY <1>3, <3>2, <3>4, SumOne
      <3> QED
        BY <3>1, <3>5, <3>6, <3>7, <3>8
    <2>5. waiting' \subseteq Req \ Running'
      BY <1>1, <1>7 DEF TypeOK
    <2> QED
      BY <1>1, <1>6, <1>8, <1>9, <2>1, <2>2, <2>3, <2>4, <2>5 DEF TypeOK
  <1>11. RequestOK'
    <2>1. ASSUME NEW q \in Req
          PROVE  /\ tokens[q] <= prompt[q] + MaxOutput - 1
                 /\ q \in Running' \cup waiting' => tokens[q] > 0
                 /\ late[q] > 0 => /\ q \in Running' /\ ~isPrefill[q]
                                   /\ computed'[q] = tokens[q]
                 /\ q \in Running' /\ q \in step.carried =>
                      /\ isPrefill[q] => computed'[q] < tokens[q]
                      /\ ~isPrefill[q] =>
                           computed'[q] + (IF late[q] > 0 THEN 0 ELSE 1) = tokens[q]
                 /\ passed[q] > 0 => /\ pp > 1 /\ q \in Running' /\ ~isPrefill[q]
                                     /\ late[q] = 0 /\ q \in step.carried /\ sched'[q] = 0
      <3>1. CASE q = r
        BY <1>1, <1>3, <1>7, <3>1 DEF RequestOK
      <3>2. CASE q # r
        BY <1>1, <1>2, <1>5, <1>7, <3>2 DEF RequestOK
      <3> QED
        BY <3>1, <3>2
    <2> QED
      BY <1>1, <1>2, <1>9, <2>1 DEF RequestOK
  <1>12. StepOK'
    <2>1. \A q \in Req : (sched'[q] > 0 => q \in Running') /\ (sched[q] > 0 \/ q = r => sched'[q] > 0)
      BY <1>0, <1>5, <1>7 DEF StepOK
    <2>2. Len(running') <= MaxSeqs
      BY <1>0, <1>4, <1>6
    <2>3. \A q \in Running' \ step.carried : q \in Req /\ sched'[q] > 0
      BY <1>3, <1>4, <1>2, <1>7, <2>1 DEF StepOK
    <2>4. step'.carried = step.carried /\ preempted' = preempted /\ pp' = pp
          /\ Running \subseteq Running' /\ waiting' \subseteq waiting
      BY <1>1, <1>7, <1>9
    <2>5. step'.carried \ Running' \subseteq preempted' /\ waiting' \cap step'.carried \subseteq preempted'
      BY <1>2, <2>4 DEF StepOK
    <2> QED
      BY <1>2, <2>1, <2>2, <2>3, <2>4, <2>5 DEF StepOK
  <1>13. LoopOK'
    BY <1>1, <1>2 DEF LoopOK
  <1>14. BudgetOK' /\ BudgetBalances'
    <2>1. ASSUME NEW q \in Scheduled
          PROVE  /\ Draws(q)' <=> Draws(q)
                 /\ Prefills(q)' <=> Prefills(q)
                 /\ isPrefill'[q] = isPrefill[q]
      <3>1. q \in Req \ {r}
        BY <1>3 DEF Scheduled
      <3> QED
        BY <1>1, <1>5, <1>9, <3>1 DEF Draws, Prefills, Short, BypassOn, Remaining
    <2>2. (Prefills(r)' <=> h.reqIsPrefill) /\ (Draws(r)' <=> h.isPrefill)
      <3>1. computed'[r] = hit /\ tokens'[r] = tokens[r] /\ r \notin step'.carried
        BY <1>1, <1>3, <1>5, <1>9
      <3>2. Prefills(r)' <=> hit < tokens[r] - 1
        BY <3>1 DEF Prefills
      <3>3. Short(Remaining(r))' <=> Short(tokens[r] - hit)
        BY <1>1, <3>1 DEF Short, Remaining, BypassOn
      <3> QED
        BY <1>0, <3>2, <3>3 DEF Draws
    <2>3. Decodes(step.carried)' = Decodes(step.carried)
      BY <1>1, <1>9 DEF Decodes
    <2>4. /\ Draws(r)' => n <= step.budget
          /\ step'.budget = IF Draws(r)' THEN step.budget - n ELSE step.budget
          /\ step'.tokens = IF Prefills(r)' THEN step.tokens + n ELSE step.tokens
          /\ step'.reqs = IF Prefills(r)' THEN step.reqs + 1 ELSE step.reqs
      BY <1>0, <1>9, <2>2
    <2>5. /\ n \in Nat /\ n > 0 /\ n <= budget /\ budget' = budget - n
          /\ sched' = [sched EXCEPT ![r] = n]
      BY <1>0
    <2> QED
      BY <1>1, <1>2, <1>3, <1>9, <2>1, <2>3, <2>4, <2>5, ChargeBalances
  <1>15. RideOK'
    <2> SUFFICES ASSUME RoomForDecodes, ~bypass, pp = 1, NEW q \in Decodes(step.carried)
                 PROVE  sched'[q] > 0
      BY <1>1, <1>9 DEF RideOK, Decodes
    <2>1. sched[q] > 0 /\ q \in Req
      BY <1>1, Types DEF RideOK, Decodes
    <2>2. q # r
      BY <1>3, <2>1
    <2> QED
      BY <1>5, <2>1, <2>2
  <1>16. TurnOK'
    <2> SUFFICES ASSUME NEW q \in Running', passed'[q] > 0 PROVE Turn(q)'
      BY TurnIs DEF TurnOK, Turn
    <2>1. q \in Running /\ q \in Req /\ passed'[q] = passed[q] /\ passed[q] > 0
      BY <1>1, <1>3, <1>4, <1>7
    <2>2. Turn(q)
      BY <2>1 DEF TurnOK, Turn
    <2>3. Ahead(q)' = Ahead(q)
      <3>1. ASSUME NEW i, NEW j \in 1 .. Len(running) + 1, i \in 1 .. Len(running) + 1,
                   i < j, running'[j] = q
            PROVE  i \in 1 .. Len(running) /\ j \in 1 .. Len(running)
        <4>1. j # Len(running) + 1
          BY <1>3, <1>6, <2>1, <3>1
        <4>2. Len(running) \in Nat
          BY <1>4
        <4>3. j \in 1 .. Len(running)
          BY <4>1, <4>2
        <4> QED
          BY <3>1, <4>2, <4>3
      <3>2. 1 .. Len(running) \subseteq 1 .. Len(running) + 1
        BY <1>4
      <3>3. {i \in 1 .. Len(running) + 1 : \E j \in 1 .. Len(running) + 1 : i < j /\ running'[j] = q}
              = {i \in 1 .. Len(running) : \E j \in 1 .. Len(running) : i < j /\ running[j] = q}
        BY <1>6, <3>1, <3>2
      <3>4. Ahead(q)' = {running'[i] : i \in {i \in 1 .. Len(running) : \E j \in 1 .. Len(running) : i < j /\ running[j] = q}}
        BY <1>6, <3>3 DEF Ahead
      <3> QED
        BY <1>4, <1>6, <3>4 DEF Ahead
    <2>4. Handled(q) /\ Handled(q)'
      BY <1>1, <1>2 DEF Handled
    <2>5. \A t \in Ahead(q) \cup {q} : t \in Req \ {r}
      BY <1>3, <1>4, <2>1, AheadFacts
    <2>6. \A t \in Ahead(q) \cup {q} :
             /\ late'[t] = late[t] /\ isPrefill'[t] = isPrefill[t]
             /\ sched'[t] = sched[t] /\ computed'[t] = computed[t] /\ tokens'[t] = tokens[t]
      BY <1>1, <1>5, <2>5
    <2> QED
      BY <1>1, <2>1, <2>2, <2>3, <2>4, <2>6, TurnSame
  <1> QED
    BY <1>10, <1>11, <1>12, <1>13, <1>14, <1>15, <1>16 DEF FairInv

LEMMA AdmitEnds ==
    ASSUME FairInv, Admit, phase' # "waiting"
    PROVE  FairInv'
  <1>1. /\ phase = "waiting" /\ phase' = "finish"
        /\ UNCHANGED <<bypass, pp, prio, tokens, prompt, late, computed, isPrefill, running,
                       waiting, index, budget, sched, preempted, step, held, passed>>
    BY DEF Admit, reqVars
  <1> QED
    BY <1>1, LoopsEnd


-----------------------------------------------------------------------------
(* What the sums lose with one request's tokens. *)
LEMMA UnscheduleOne ==
    ASSUME sched \in [Req -> Nat], NEW v \in Req, sched' = [sched EXCEPT ![v] = 0]
    PROVE  /\ sched' \in [Req -> Nat] /\ Scheduled' = Scheduled \ {v}
           /\ Sum(sched', Req) + sched[v] = Sum(sched, Req)
           /\ \A D \in SUBSET Scheduled :
                /\ Sum(sched', D \ {v}) + (IF v \in D THEN sched[v] ELSE 0) = Sum(sched, D)
                /\ Cardinality(D \ {v}) + (IF v \in D THEN 1 ELSE 0) = Cardinality(D)
  <1>1. sched' \in [Req -> Nat] /\ sched'[v] = 0 /\ \A q \in Req \ {v} : sched'[q] = sched[q]
    OBVIOUS
  <1>2. Scheduled' = Scheduled \ {v}
    BY <1>1 DEF Scheduled
  <1>3. Sum(sched', Req) + sched[v] = Sum(sched, Req)
    <2>1. Sum(sched', Req) = Sum(sched, Req) - sched[v] + sched'[v]
      <3>1. PICK g : g = sched'
        OBVIOUS
      <3>2. PICK f \in [Req -> Nat] : f = sched
        OBVIOUS
      <3>3. g \in [Req -> Nat] /\ \A q \in Req \ {v} : f[q] = g[q]
        BY <1>1, <3>1, <3>2
      <3>4. Sum(g, Req) = Sum(f, Req) - f[v] + g[v]
        <4>1. Req \subseteq Req
          OBVIOUS
        <4> QED
          BY <3>2, <3>3, <4>1, SumChange
      <3> QED
        BY <3>1, <3>2, <3>4
    <2>2. Sum(sched', Req) \in Nat /\ Sum(sched, Req) \in Nat /\ sched[v] \in Nat
      BY <1>1, SumType
    <2> QED
      BY <1>1, <2>1, <2>2
  <1>4. ASSUME NEW D \in SUBSET Scheduled
        PROVE  /\ Sum(sched', D \ {v}) + (IF v \in D THEN sched[v] ELSE 0) = Sum(sched, D)
               /\ Cardinality(D \ {v}) + (IF v \in D THEN 1 ELSE 0) = Cardinality(D)
    <2>1. D \subseteq Req /\ D \ {v} \subseteq Req
      BY DEF Scheduled
    <2>2. Sum(sched', D \ {v}) = Sum(sched, D \ {v})
      BY <1>1, <2>1, SumSame
    <2>3. CASE v \in D
      <3>1. D \ (D \ {v}) = {v} /\ (D \ {v}) \cup {v} = D /\ (D \ {v}) \cap {v} = {} /\ {v} \subseteq Req
        BY <2>3
      <3>2. Sum(sched, D) = Sum(sched, D \ {v}) + Sum(sched, {v})
        <4>1. Sum(sched, (D \ {v}) \cup {v}) = Sum(sched, D \ {v}) + Sum(sched, {v})
          BY <2>1, <3>1, SumApart
        <4> QED
          BY <3>1, <4>1
      <3>3. Sum(sched, {v}) = sched[v]
        BY SumOne
      <3>4. Cardinality(D) = Cardinality(D \ {v}) + Cardinality({v})
        BY <2>1, <3>1, CountedApart
      <3>5. Cardinality({v}) = 1
        BY FS_Singleton
      <3> QED
        BY <2>2, <2>3, <3>2, <3>3, <3>4, <3>5
    <2>4. CASE v \notin D
      <3>1. D \ {v} = D
        BY <2>4
      <3>2. Sum(sched, D) \in Nat /\ Cardinality(D) \in Nat
        BY <2>1, SumType, Requests
      <3> QED
        BY <2>2, <2>4, <3>1, <3>2
    <2> QED
      BY <2>3, <2>4
  <1> QED
    BY <1>1, <1>2, <1>3, <1>4

(* The budgets after a refund. *)
LEMMA RefundedIs ==
    ASSUME TypeOK, NEW v \in Req, NEW n \in Nat,
           isPrefill[v] => n <= step.tokens /\ step.reqs > 0,
           NEW c, c = Refunded(v, n)
    PROVE  /\ c \in [budget : Nat, cap : Nat, tokens : Nat, reqs : Nat, decodes : Nat,
                     decodeCap : Nat, total : Nat, carried : SUBSET Req]
           /\ c.budget = (IF Fair /\ ~Short(Remaining(v)) /\ isPrefill[v]
                            THEN step.budget + n ELSE step.budget)
           /\ c.tokens = (IF isPrefill[v] THEN step.tokens - n ELSE step.tokens)
           /\ c.reqs = (IF isPrefill[v] THEN step.reqs - 1 ELSE step.reqs)
           /\ c.decodes = step.decodes /\ c.total = step.total
           /\ c.decodeCap = step.decodeCap /\ c.carried = step.carried
  <1> DEFINE b == IF Fair /\ ~Short(Remaining(v)) THEN step.budget + n ELSE step.budget
  <1>1. step \in [budget : Nat, cap : Nat, tokens : Nat, reqs : Nat, decodes : Nat,
                  decodeCap : Nat, total : Nat, carried : SUBSET Req]
    BY DEF TypeOK
  <1>2. CASE ~isPrefill[v]
    <2>1. c = step
      BY <1>2 DEF Refunded
    <2> QED
      BY <1>1, <1>2, <2>1
  <1>3. CASE isPrefill[v]
    <2>1. b \in Nat /\ step.tokens - n \in Nat /\ step.reqs - 1 \in Nat
      BY <1>1, <1>3
    <2>2. c = [step EXCEPT !.budget = b, !.tokens = step.tokens - n, !.reqs = step.reqs - 1]
      BY <1>1, <1>3 DEF Refunded
    <2>3. b = IF Fair /\ ~Short(Remaining(v)) /\ isPrefill[v] THEN step.budget + n ELSE step.budget
      BY <1>3
    <2> HIDE DEF b
    <2> QED
      BY <1>1, <1>3, <2>1, <2>2, <2>3
  <1> QED
    BY <1>2, <1>3

(* A request that was running when the step began gives back what it was    *)
(* scheduled with, if it was: the budgets still balance.                    *)
LEMMA RefundBalances ==
    ASSUME TypeOK, BudgetOK, BudgetBalances, InStep, pp = 1,
           UNCHANGED <<bypass, pp, tokens, isPrefill>>,
           NEW v \in Req, v \in step.carried,
           sched' = [sched EXCEPT ![v] = 0], computed' = [computed EXCEPT ![v] = 0],
           IF sched[v] > 0 THEN budget' = budget + sched[v] /\ step' = Refunded(v, sched[v])
                           ELSE budget' = budget /\ step' = step
    PROVE  /\ BudgetOK' /\ BudgetBalances'
           /\ step' \in [budget : Nat, cap : Nat, tokens : Nat, reqs : Nat, decodes : Nat,
                         decodeCap : Nat, total : Nat, carried : SUBSET Req]
           /\ step'.carried = step.carried /\ step.budget <= step'.budget
           /\ budget' \in budget .. MaxTokens
  <1> DEFINE P == {q \in Scheduled : Draws(q)}
             Q == {q \in Scheduled : Prefills(q)}
             n == sched[v]
  <1>1. /\ sched \in [Req -> Nat] /\ computed \in [Req -> Nat] /\ budget \in Nat /\ MaxTokens \in Nat
        /\ step.budget \in Nat /\ step.total \in Nat /\ step.tokens \in Nat /\ step.reqs \in Nat
        /\ n \in Nat /\ isPrefill[v] \in BOOLEAN
    BY Types, Numbers
  <1>2. /\ sched' \in [Req -> Nat] /\ Scheduled' = Scheduled \ {v}
        /\ Sum(sched', Req) + n = Sum(sched, Req)
    BY <1>1, UnscheduleOne
  <1>3. \A D \in SUBSET Scheduled :
                /\ Sum(sched', D \ {v}) + (IF v \in D THEN n ELSE 0) = Sum(sched, D)
                /\ Cardinality(D \ {v}) + (IF v \in D THEN 1 ELSE 0) = Cardinality(D)
    BY <1>1, UnscheduleOne
  <1>4. P \in SUBSET Scheduled /\ Q \in SUBSET Scheduled /\ Scheduled \subseteq Req
    BY DEF Scheduled
  <1>5. /\ Sum(sched', P \ {v}) + (IF v \in P THEN n ELSE 0) = Sum(sched, P)
        /\ Sum(sched', Q \ {v}) + (IF v \in Q THEN n ELSE 0) = Sum(sched, Q)
        /\ Cardinality(Q \ {v}) + (IF v \in Q THEN 1 ELSE 0) = Cardinality(Q)
    BY <1>3, <1>4
  <1>6. /\ Sum(sched', P \ {v}) \in Nat /\ Sum(sched', Q \ {v}) \in Nat
        /\ Cardinality(Q \ {v}) \in Nat /\ Sum(sched', Req) \in Nat
    <2>1. P \ {v} \subseteq Req /\ Q \ {v} \subseteq Req /\ Req \subseteq Req
      BY <1>4
    <2> QED
      BY <1>2, <2>1, SumType, Requests
  <1>7. /\ step.budget + Sum(sched, P) = step.total /\ step.tokens = Sum(sched, Q)
        /\ step.reqs = Cardinality(Q) /\ budget + Sum(sched, Req) = MaxTokens
    BY DEF BudgetBalances, BudgetOK, InStep, Spent
  <1>8. /\ v \in Q <=> n > 0 /\ isPrefill[v]
        /\ v \in P <=> n > 0 /\ Fair /\ ~Short(Remaining(v)) /\ isPrefill[v]
    BY DEF Scheduled, Prefills, Draws
  <1>9. n > 0 /\ isPrefill[v] => n <= step.tokens /\ step.reqs > 0
    <2> HIDE DEF P, Q, n
    <2> QED
      BY <1>1, <1>5, <1>6, <1>7, <1>8
  <1>10. /\ step' \in [budget : Nat, cap : Nat, tokens : Nat, reqs : Nat, decodes : Nat,
                       decodeCap : Nat, total : Nat, carried : SUBSET Req]
         /\ step'.budget = (IF v \in P THEN step.budget + n ELSE step.budget)
         /\ step'.tokens = (IF v \in Q THEN step.tokens - n ELSE step.tokens)
         /\ step'.reqs = (IF v \in Q THEN step.reqs - 1 ELSE step.reqs)
         /\ step'.total = step.total /\ step'.decodeCap = step.decodeCap
         /\ step'.carried = step.carried
    <2>1. CASE n > 0
      <3>1. PICK c : c = step'
        OBVIOUS
      <3>2. c = Refunded(v, n) /\ (isPrefill[v] => n <= step.tokens /\ step.reqs > 0)
        BY <1>9, <2>1, <3>1
      <3> HIDE DEF P, Q, n
      <3>3. /\ c \in [budget : Nat, cap : Nat, tokens : Nat, reqs : Nat, decodes : Nat,
                     decodeCap : Nat, total : Nat, carried : SUBSET Req]
            /\ c.budget = (IF Fair /\ ~Short(Remaining(v)) /\ isPrefill[v]
                             THEN step.budget + n ELSE step.budget)
            /\ c.tokens = (IF isPrefill[v] THEN step.tokens - n ELSE step.tokens)
            /\ c.reqs = (IF isPrefill[v] THEN step.reqs - 1 ELSE step.reqs)
            /\ c.total = step.total /\ c.decodeCap = step.decodeCap /\ c.carried = step.carried
        BY <1>1, <3>2, RefundedIs
      <3> QED
        BY <1>8, <2>1, <3>1, <3>3
    <2>2. CASE ~(n > 0)
      <3>1. step' = step /\ v \notin P /\ v \notin Q
        BY <1>8, <2>2
      <3> QED
        BY <3>1 DEF TypeOK
    <2> QED
      BY <2>1, <2>2
  <1>11. ASSUME NEW q \in Scheduled' PROVE (Draws(q)' <=> Draws(q)) /\ (Prefills(q)' <=> Prefills(q))
    <2>1. computed'[q] = computed[q]
      BY <1>1, <1>2, <1>4
    <2> QED
      BY <1>10, <2>1 DEF Draws, Prefills, Short, BypassOn, Remaining
  <1>12. /\ {q \in Scheduled : Draws(q)}' = P \ {v}
         /\ {q \in Scheduled : Prefills(q)}' = Q \ {v}
    BY <1>2, <1>11
  <1>13. Decodes(step.carried)' = Decodes(step.carried)
    BY <1>10 DEF Decodes
  <1>14. /\ Chunk > 0 /\ Decodes(step.carried) # {} => step.total <= Most(Chunk, Lookahead + 1)
    BY DEF BudgetOK
  <1>15. budget' = budget + n
    BY <1>1
  <1> HIDE DEF P, Q, n
  <1>16. /\ step'.budget + Sum(sched', P \ {v}) = step'.total
         /\ step'.tokens = Sum(sched', Q \ {v})
         /\ step'.reqs = Cardinality(Q \ {v})
    <2>1. step'.budget + Sum(sched', P \ {v}) = step'.total
      BY <1>1, <1>5, <1>6, <1>7, <1>10
    <2>2. step'.tokens = Sum(sched', Q \ {v})
      BY <1>1, <1>5, <1>6, <1>7, <1>10
    <2>3. step'.reqs = Cardinality(Q \ {v})
      BY <1>1, <1>5, <1>6, <1>7, <1>10
    <2> QED
      BY <2>1, <2>2, <2>3
  <1>17. BudgetBalances'
    BY <1>12, <1>16 DEF BudgetBalances, Spent
  <1>18. budget' + Sum(sched', Req) = MaxTokens
    BY <1>1, <1>2, <1>6, <1>7, <1>15
  <1>19. BudgetOK'
    BY <1>10, <1>13, <1>14, <1>18 DEF BudgetOK, Spent
  <1>20. budget' \in budget .. MaxTokens /\ step.budget <= step'.budget
    BY <1>1, <1>6, <1>10, <1>15, <1>18
  <1> QED
    BY <1>10, <1>17, <1>19, <1>20


-----------------------------------------------------------------------------
LEMMA Above ==
    ASSUME NEW l \in Nat, NEW i \in Nat, i >= 1, NEW k, k \in i .. l - 1 \/ k \in i + 1 .. l - 1
    PROVE  /\ k \in 1 .. l - 1
           /\ k \in i .. l - 1 => k >= i + 0
           /\ k \in i + 1 .. l - 1 => k >= i + 1
  OBVIOUS

LEMMA PreemptStep ==
    ASSUME FairInv, Preempt
    PROVE  FairInv'
  <1> TypeOK /\ RequestOK /\ StepOK /\ LoopOK /\ BudgetOK /\ BudgetBalances /\ RideOK /\ TurnOK
    BY DEF FairInv
  <1>0. PICK v : v = Worst(Running)
    OBVIOUS
  <1>1. /\ phase = "running" /\ held.req # 0 /\ ~Fits(held.n)
        /\ running' = Without(running, {v}) /\ waiting' = waiting \cup {v}
        /\ preempted' = preempted \cup {v}
        /\ computed' = [computed EXCEPT ![v] = 0] /\ sched' = [sched EXCEPT ![v] = 0]
        /\ IF sched[v] > 0 THEN /\ budget' = budget + sched[v] /\ step' = Refunded(v, sched[v])
                                /\ index' = index - 1
                           ELSE budget' = budget /\ step' = step /\ index' = index
        /\ IF v = held.req THEN held' = NoRequest /\ phase' = "waiting"
                           ELSE held' = held /\ phase' = phase
        /\ UNCHANGED <<bypass, pp, prio, tokens, prompt, late, isPrefill, passed>>
    BY <1>0 DEF Preempt, reqVars
  <1>2. /\ held.req \in Running /\ held.req \in Req /\ InStep /\ InStep'
        /\ Running \subseteq step.carried /\ Running \subseteq Req
    BY <1>1, Places DEF InStep, LoopOK
  <1>3. v \in Running /\ v \in Req /\ v \in step.carried
    BY <1>0, <1>2, Types, WorstFacts
  <1>4. pp = 1
    BY <1>1, Types DEF Fits
  <1>5. \A q \in Req : passed[q] = 0 /\ late[q] = 0
    BY <1>4, Numbers DEF RequestOK
  <1>6. PICK m \in 1 .. Len(running) : running[m] = v
    BY <1>3, Places
  <1>7. /\ Len(running) \in Nat /\ index \in Nat /\ index >= 1 /\ m \in Nat /\ m >= 1
        /\ computed \in [Req -> Nat] /\ sched \in [Req -> Nat]
        /\ budget \in Nat /\ MaxTokens \in Nat /\ step.budget \in Nat
    <2>1. Len(running) \in Nat
      BY Places
    <2>2. m \in Nat /\ m >= 1
      BY <1>6, <2>1
    <2> QED
      BY <2>1, <2>2, Types
  <1>8. /\ running' \in Seq(Req) /\ IsInjective(running') /\ Running' = Running \ {v}
        /\ Len(running') = Len(running) - 1
        /\ \A k \in 1 .. Len(running) - 1 : running'[k] = IF k < m THEN running[k] ELSE running[k + 1]
    <2>1. running \in Seq(Req) /\ IsInjective(running)
      BY DEF TypeOK
    <2>2. /\ Without(running, {v}) \in Seq(Req) /\ IsInjective(Without(running, {v}))
          /\ ToSet(Without(running, {v})) = ToSet(running) \ {v}
      BY <2>1, WithoutFacts
    <2>3. /\ Len(Without(running, {v})) = Len(running) - 1
          /\ \A k \in 1 .. Len(running) - 1 :
               Without(running, {v})[k] = IF k < m THEN running[k] ELSE running[k + 1]
      BY <1>6, <2>1, WithoutOne
    <2> QED
      BY <1>1, <2>2, <2>3 DEF Running
  <1>9. /\ sched' \in [Req -> Nat] /\ sched'[v] = 0 /\ computed' \in [Req -> Nat] /\ computed'[v] = 0
        /\ \A q \in Req \ {v} : sched'[q] = sched[q] /\ computed'[q] = computed[q]
    BY <1>1, <1>3, <1>7
  <1>10. /\ BudgetOK' /\ BudgetBalances'
         /\ step' \in [budget : Nat, cap : Nat, tokens : Nat, reqs : Nat, decodes : Nat,
                       decodeCap : Nat, total : Nat, carried : SUBSET Req]
         /\ step'.carried = step.carried /\ step.budget <= step'.budget
         /\ budget' \in budget .. MaxTokens
    BY <1>1, <1>2, <1>3, <1>4, RefundBalances
  <1>11. IF sched[v] > 0 THEN m < index /\ index' = index - 1 ELSE index' = index
    <2>1. ASSUME sched[v] > 0, ~(m < index) PROVE FALSE
      <3>1. m \in index .. Len(running)
        BY <1>6, <1>7, <2>1
      <3> QED
        BY <1>1, <1>6, <1>7, <2>1, <3>1 DEF LoopOK
    <2> QED
      BY <1>1, <2>1
  <1>12. index' \in Nat \ {0} /\ index' \in Nat /\ index' >= 1
    BY <1>7, <1>11
  <1>13. ASSUME NEW k \in 1 .. Len(running) - 1, NEW d \in {0, 1}, k >= index' + d
         PROVE  \E j \in 1 .. Len(running) : j >= index + d /\ running'[k] = running[j]
    <2>1. k \in Nat /\ k >= 1 /\ k + 1 \in 1 .. Len(running) /\ k \in 1 .. Len(running)
      BY <1>7
    <2>2. CASE k < m
      <3>1. ~(sched[v] > 0)
        BY <1>7, <1>11, <1>13, <2>1, <2>2
      <3>2. k >= index + d
        BY <1>11, <1>13, <3>1
      <3> QED
        BY <1>8, <2>1, <2>2, <3>2
    <2>3. CASE ~(k < m)
      <3>1. k + 1 >= index + d
        BY <1>7, <1>11, <1>13, <2>1
      <3> QED
        BY <1>8, <2>1, <2>3, <3>1
    <2> QED
      BY <2>2, <2>3
  <1>14. TypeOK'
    <2>1. {tokens', prompt', computed', sched', passed'} \subseteq [Req -> Nat]
      <3>1. {tokens, prompt, computed, sched, passed} \subseteq [Req -> Nat]
        BY DEF TypeOK
      <3> QED
        BY <1>1, <1>9, <3>1
    <2>2. \A q \in Req : /\ tokens'[q] <= prompt'[q] + MaxOutput
                         /\ computed'[q] + sched'[q] <= tokens'[q]
      <3> SUFFICES ASSUME NEW q \in Req
                   PROVE  /\ tokens[q] <= prompt[q] + MaxOutput
                          /\ computed'[q] + sched'[q] <= tokens[q]
        BY <1>1
      <3>1. tokens[q] <= prompt[q] + MaxOutput /\ computed[q] + sched[q] <= tokens[q]
        BY DEF TypeOK
      <3>2. CASE q = v
        BY <1>9, <3>1, <3>2, Numbers
      <3>3. CASE q # v
        BY <1>9, <3>1, <3>3
      <3> QED
        BY <3>2, <3>3
    <2>3. budget' \in 0 .. MaxTokens
      BY <1>7, <1>10
    <2>4. InUse' <= Capacity
      <3> DEFINE f == [q \in Req |-> computed[q] + sched[q]]
                 g == [q \in Req |-> computed'[q] + sched'[q]]
      <3>1. f \in [Req -> Nat] /\ g \in [Req -> Nat]
        BY <1>7, <1>9
      <3>2. \A q \in Running \ {v} : g[q] = f[q]
        BY <1>2, <1>9
      <3>3. InUse = Sum(f, Running) /\ InUse' = Sum(g, Running \ {v})
        BY <1>8 DEF InUse
      <3>4. InUse <= Capacity
        BY <1>4 DEF TypeOK
      <3> HIDE DEF f, g
      <3>5. Running \ {v} \subseteq Running /\ Running \ {v} \subseteq Req
        BY <1>2
      <3>6. Sum(f, Running \ {v}) <= Sum(f, Running)
        BY <1>2, <3>1, <3>5, SumPart
      <3>7. Sum(g, Running \ {v}) = Sum(f, Running \ {v})
        BY <3>2, SumSame
      <3>8. Sum(f, Running \ {v}) \in Nat /\ Sum(f, Running) \in Nat /\ Capacity \in Nat
        BY <1>2, <3>1, <3>5, SumType, Types
      <3> QED
        BY <3>3, <3>4, <3>6, <3>7, <3>8
    <2>5. waiting' \subseteq Req \ Running' /\ preempted' \subseteq Req
      BY <1>1, <1>3, <1>8, Types
    <2>6. held' \in [req : Req \cup {0}, n : Nat, isPrefill : BOOLEAN, reqIsPrefill : BOOLEAN]
      <3>1. held \in [req : Req \cup {0}, n : Nat, isPrefill : BOOLEAN, reqIsPrefill : BOOLEAN]
        BY DEF TypeOK
      <3>2. held' = held \/ held' = NoRequest
        BY <1>1
      <3>3. NoRequest \in [req : Req \cup {0}, n : Nat, isPrefill : BOOLEAN, reqIsPrefill : BOOLEAN]
        BY DEF NoRequest
      <3> QED
        BY <3>1, <3>2, <3>3
    <2>7. phase' \in {"idle", "running", "waiting", "finish"}
      BY <1>1
    <2> QED
      BY <1>1, <1>8, <1>10, <1>12, <2>1, <2>2, <2>3, <2>4, <2>5, <2>6, <2>7 DEF TypeOK
  <1>15. RequestOK'
    <2>1. ASSUME NEW q \in Req
          PROVE  /\ tokens[q] <= prompt[q] + MaxOutput - 1
                 /\ q \in Running' \cup waiting' => tokens[q] > 0
                 /\ ~(late[q] > 0) /\ ~(passed[q] > 0)
                 /\ q \in Running' /\ q \in step.carried =>
                      /\ isPrefill[q] => computed'[q] < tokens[q]
                      /\ ~isPrefill[q] =>
                           computed'[q] + (IF late[q] > 0 THEN 0 ELSE 1) = tokens[q]
      <3>1. q \in Running' \cup waiting' => q \in Running \cup waiting
        BY <1>1, <1>3, <1>8
      <3>2. q \in Running' => q \in Running /\ computed'[q] = computed[q]
        BY <1>8, <1>9
      <3> QED
        BY <1>2, <1>5, <3>1, <3>2 DEF RequestOK
    <2> QED
      BY <1>1, <1>2, <1>10, <2>1 DEF RequestOK
  <1>16. StepOK'
    <2>1. \A q \in Req : sched'[q] > 0 => q \in Running'
      <3> SUFFICES ASSUME NEW q \in Req, sched'[q] > 0 PROVE q \in Running \ {v}
        BY <1>8
      <3>1. q # v
        BY <1>9
      <3>2. sched[q] > 0
        BY <1>9, <3>1
      <3> QED
        BY <3>1, <3>2 DEF StepOK
    <2>2. Len(running') <= MaxSeqs
      BY <1>7, <1>8, Types DEF StepOK
    <2>3. /\ step'.carried \ Running' \subseteq preempted'
          /\ waiting' \cap step'.carried \subseteq preempted'
          /\ Running' \ step'.carried = {}
      BY <1>1, <1>2, <1>8, <1>10 DEF StepOK
    <2> QED
      BY <1>1, <1>2, <1>4, <2>1, <2>2, <2>3 DEF StepOK
  <1>17. LoopOK'
    <2>1. Running' \subseteq step'.carried
      BY <1>2, <1>8, <1>10
    <2>2. ASSUME NEW k, k \in index' .. Len(running') PROVE sched'[running'[k]] = 0
      <3>1. k \in 1 .. Len(running) - 1 /\ k >= index' + 0
        <4>1. k \in index' .. Len(running) - 1
          BY <1>8, <2>2
        <4> QED
          BY <1>7, <1>12, <4>1, Above
      <3>2. PICK j \in 1 .. Len(running) : j >= index + 0 /\ running'[k] = running[j]
        BY <1>13, <3>1
      <3>3. j \in index .. Len(running)
        BY <1>7, <3>2
      <3>4. sched[running[j]] = 0 /\ running[j] \in Req
        BY <1>1, <3>3, Places DEF LoopOK
      <3> QED
        BY <1>9, <3>2, <3>4
    <2>3. ASSUME held'.req # 0
          PROVE  /\ phase' = "running" /\ held'.req \in Running' /\ sched'[held'.req] = 0
                 /\ held'.n \in 1 .. budget' /\ held'.n <= Remaining(held.req)'
                 /\ held'.reqIsPrefill = isPrefill'[held'.req]
                 /\ held'.isPrefill <=> Fair /\ isPrefill'[held'.req] /\ ~Short(Remaining(held.req))'
                 /\ held'.isPrefill => held'.n <= step'.budget
                 /\ \A k \in index' + 1 .. Len(running') : running'[k] # held'.req
                 /\ preempted' # {}
      <3>1. held' = held /\ phase' = "running" /\ v # held.req
        BY <1>1, <2>3 DEF NoRequest
      <3>2. sched'[held.req] = sched[held.req] /\ computed'[held.req] = computed[held.req]
        BY <1>2, <1>9, <3>1
      <3>3. /\ Remaining(held.req)' = Remaining(held.req)
            /\ Short(Remaining(held.req))' <=> Short(Remaining(held.req))
        BY <1>1, <3>1, <3>2 DEF Remaining, Short, BypassOn
      <3>4. /\ sched[held.req] = 0 /\ held.n \in 1 .. budget /\ held.n <= Remaining(held.req)
            /\ held.reqIsPrefill = isPrefill[held.req]
            /\ held.isPrefill <=> Fair /\ isPrefill[held.req] /\ ~Short(Remaining(held.req))
            /\ held.isPrefill => held.n <= step.budget
            /\ \A j \in index + 1 .. Len(running) : running[j] # held.req
        BY <1>1 DEF LoopOK
      <3>5. held.n \in 1 .. budget'
        BY <1>7, <1>10, <3>4
      <3>6. held.isPrefill => held.n <= step'.budget
        <4>1. step'.budget \in Nat
          BY <1>10
        <4> QED
          BY <1>7, <1>10, <3>4, <4>1
      <3>7. ASSUME NEW k, k \in index' + 1 .. Len(running') PROVE running'[k] # held.req
        <4>1. k \in 1 .. Len(running) - 1 /\ k >= index' + 1
          <5>1. k \in index' + 1 .. Len(running) - 1
            BY <1>8, <3>7
          <5> QED
            BY <1>7, <1>12, <5>1, Above
        <4>2. PICK j \in 1 .. Len(running) : j >= index + 1 /\ running'[k] = running[j]
          BY <1>13, <4>1
        <4>3. j \in index + 1 .. Len(running)
          BY <1>7, <4>2
        <4> QED
          BY <3>4, <4>2, <4>3
      <3> QED
        BY <1>1, <1>2, <1>8, <3>1, <3>2, <3>3, <3>4, <3>5, <3>6, <3>7
    <2> QED
      BY <2>1, <2>2, <2>3 DEF LoopOK
  <1>18. RideOK' /\ TurnOK'
    <2>1. preempted' # {}
      BY <1>1
    <2>2. \A q \in Running' : ~(passed'[q] > 0)
      BY <1>1, <1>2, <1>5, <1>8
    <2> QED
      BY <2>1, <2>2 DEF RideOK, TurnOK
  <1> QED
    BY <1>10, <1>14, <1>15, <1>16, <1>17, <1>18 DEF FairInv


-----------------------------------------------------------------------------
LEMMA AheadWithout ==
    ASSUME TypeOK, NEW gone, running' = Without(running, gone), NEW q \in Running, q \notin gone
    PROVE  Ahead(q)' = Ahead(q) \ gone
  <1>1. running \in Seq(Req) /\ IsInjective(running)
    BY DEF TypeOK
  <1>2. /\ running' \in Seq(Req) /\ IsInjective(running') /\ ToSet(running') = ToSet(running) \ gone
        /\ \A i, j \in DOMAIN running : running[i] \notin gone /\ running[j] \notin gone =>
                \E k, l \in DOMAIN running' :
                   /\ running'[k] = running[i] /\ running'[l] = running[j]
                   /\ (i < j <=> k < l)
    BY <1>1, WithoutFacts
  <1>3. ASSUME NEW t
        PROVE  t \in Ahead(q) <=> \E i, j \in DOMAIN running : i < j /\ running[i] = t /\ running[j] = q
    BY DEF Ahead
  <1>4. ASSUME NEW t
        PROVE  t \in Ahead(q)' <=> \E i, j \in DOMAIN running' : i < j /\ running'[i] = t /\ running'[j] = q
    BY DEF Ahead
  <1>5. ASSUME NEW t \in Ahead(q)' PROVE t \in Ahead(q) \ gone
    <2>1. PICK k, l \in DOMAIN running' : k < l /\ running'[k] = t /\ running'[l] = q
      BY <1>4
    <2>2. t \in ToSet(running) \ gone
      BY <1>2, <2>1 DEF ToSet
    <2>3. PICK i, j \in DOMAIN running : running[i] = t /\ running[j] = q
      BY <2>2 DEF ToSet, Running
    <2>4. PICK kk, lk \in DOMAIN running' : /\ running'[kk] = t /\ running'[lk] = q
                                            /\ (i < j <=> kk < lk)
      BY <1>2, <2>2, <2>3
    <2>5. kk = k /\ lk = l
      BY <1>2, <2>1, <2>4 DEF IsInjective
    <2> QED
      BY <1>3, <2>1, <2>2, <2>3, <2>4, <2>5
  <1>6. ASSUME NEW t \in Ahead(q) \ gone PROVE t \in Ahead(q)'
    <2>1. PICK i, j \in DOMAIN running : i < j /\ running[i] = t /\ running[j] = q
      BY <1>3
    <2>2. \E k, l \in DOMAIN running' : k < l /\ running'[k] = t /\ running'[l] = q
      BY <1>2, <2>1
    <2> QED
      BY <1>4, <2>2
  <1> QED
    BY <1>5, <1>6


LEMMA FinishFacts ==
    ASSUME TypeOK, Finish
    PROVE  \E sampled \in SUBSET Req, returned \in SUBSET Req, ended \in SUBSET Req :
              /\ sampled = {q \in Req : sched[q] > 0 /\ computed[q] + sched[q] = tokens[q]}
              /\ returned = IF pp = 1 THEN sampled ELSE {q \in Req : late[q] = 1}
              /\ ended \subseteq returned
              /\ \A q \in returned : tokens[q] = prompt[q] + MaxOutput - 1 => q \in ended
              /\ phase = "finish" /\ phase' = "idle"
              /\ running' = Without(running, ended)
              /\ computed' = [q \in Req |-> computed[q] + sched[q]]
              /\ tokens' = [q \in Req |->
                              IF q \in returned \ ended THEN tokens[q] + 1 ELSE tokens[q]]
              /\ late' = [q \in Req |-> IF q \in sampled THEN pp - 1 ELSE Most(0, late[q] - 1)]
              /\ isPrefill' = [q \in Req |-> IF sched[q] > 0 THEN computed[q] + sched[q] < tokens[q]
                                                             ELSE isPrefill[q]]
              /\ sched' = Zero /\ step' = NoStep /\ budget' = 0 /\ index' = 1 /\ preempted' = {}
              /\ UNCHANGED <<bypass, pp, prio, prompt, waiting, held, passed>>
  <1> DEFINE after == [r \in Req |-> computed[r] + sched[r]]
             sam == {r \in Req : sched[r] > 0 /\ after[r] = tokens[r]}
             ret == IF pp = 1 THEN sam ELSE {r \in Req : late[r] = 1}
             end(stop) == stop \cup {r \in ret : tokens[r] = prompt[r] + MaxOutput - 1}
  <1>1. PICK stop \in SUBSET ret :
           /\ running' = Without(running, end(stop))
           /\ tokens' = [r \in Req |-> IF r \in ret \ end(stop) THEN tokens[r] + 1 ELSE tokens[r]]
    BY Zenon DEF Finish
  <1>2. /\ phase = "finish" /\ computed' = after
        /\ late' = [r \in Req |-> IF r \in sam THEN pp - 1 ELSE Most(0, late[r] - 1)]
        /\ isPrefill' = [r \in Req |-> IF sched[r] > 0 THEN after[r] < tokens[r] ELSE isPrefill[r]]
        /\ phase' = "idle"
        /\ sched' = Zero /\ step' = NoStep /\ budget' = 0 /\ index' = 1 /\ preempted' = {}
        /\ UNCHANGED <<bypass, pp, prio, prompt, waiting, held, passed>>
    BY Zenon DEF Finish
  <1>3. sam = {q \in Req : sched[q] > 0 /\ computed[q] + sched[q] = tokens[q]}
    OBVIOUS
  <1>4. isPrefill' = [q \in Req |-> IF sched[q] > 0 THEN computed[q] + sched[q] < tokens[q]
                                                   ELSE isPrefill[q]]
    BY <1>2
  <1>5. computed' = [q \in Req |-> computed[q] + sched[q]]
    BY <1>2
  <1>6. PICK sampled, returned, ended : sampled = sam /\ returned = ret /\ ended = end(stop)
    OBVIOUS
  <1>7. /\ sampled \in SUBSET Req /\ returned \in SUBSET Req /\ ended \in SUBSET Req
        /\ ended \subseteq returned
        /\ \A q \in returned : tokens[q] = prompt[q] + MaxOutput - 1 => q \in ended
        /\ returned = IF pp = 1 THEN sampled ELSE {q \in Req : late[q] = 1}
    BY <1>6
  <1>8. sampled = {q \in Req : sched[q] > 0 /\ computed[q] + sched[q] = tokens[q]}
    BY <1>3, <1>6
  <1>9. /\ running' = Without(running, ended)
        /\ tokens' = [q \in Req |-> IF q \in returned \ ended THEN tokens[q] + 1 ELSE tokens[q]]
        /\ late' = [q \in Req |-> IF q \in sampled THEN pp - 1 ELSE Most(0, late[q] - 1)]
    BY <1>1, <1>2, <1>6
  <1> HIDE DEF after, sam, ret, end
  <1> QED
    BY <1>2, <1>4, <1>5, <1>7, <1>8, <1>9

LEMMA FinishStep ==
    ASSUME FairInv, Finish
    PROVE  FairInv'
  <1> TypeOK /\ RequestOK /\ StepOK /\ LoopOK /\ BudgetOK /\ BudgetBalances /\ RideOK /\ TurnOK
    BY DEF FairInv
  <1>0. PICK sampled \in SUBSET Req, returned \in SUBSET Req, ended \in SUBSET Req :
              /\ sampled = {q \in Req : sched[q] > 0 /\ computed[q] + sched[q] = tokens[q]}
              /\ returned = IF pp = 1 THEN sampled ELSE {q \in Req : late[q] = 1}
              /\ ended \subseteq returned
              /\ \A q \in returned : tokens[q] = prompt[q] + MaxOutput - 1 => q \in ended
              /\ phase = "finish" /\ phase' = "idle"
              /\ running' = Without(running, ended)
              /\ computed' = [q \in Req |-> computed[q] + sched[q]]
              /\ tokens' = [q \in Req |->
                              IF q \in returned \ ended THEN tokens[q] + 1 ELSE tokens[q]]
              /\ late' = [q \in Req |-> IF q \in sampled THEN pp - 1 ELSE Most(0, late[q] - 1)]
              /\ isPrefill' = [q \in Req |-> IF sched[q] > 0 THEN computed[q] + sched[q] < tokens[q]
                                                             ELSE isPrefill[q]]
              /\ sched' = Zero /\ step' = NoStep /\ budget' = 0 /\ index' = 1 /\ preempted' = {}
              /\ UNCHANGED <<bypass, pp, prio, prompt, waiting, held, passed>>
    BY FinishFacts
  <1>1. /\ phase = "finish" /\ phase' = "idle" /\ ended \subseteq returned
        /\ sched' = Zero /\ step' = NoStep /\ budget' = 0 /\ index' = 1 /\ preempted' = {}
        /\ UNCHANGED <<bypass, pp, prio, prompt, waiting, held, passed>>
    BY <1>0
  <1>2. InStep /\ ~InStep' /\ held.req = 0
    BY <1>1 DEF InStep, LoopOK
  <1>3. /\ running' \in Seq(Req) /\ IsInjective(running') /\ Len(running') <= Len(running)
        /\ Running' = Running \ ended
    <2>1. running \in Seq(Req) /\ IsInjective(running)
      BY DEF TypeOK
    <2>2. /\ Without(running, ended) \in Seq(Req) /\ IsInjective(Without(running, ended))
          /\ Len(Without(running, ended)) <= Len(running)
          /\ ToSet(Without(running, ended)) = ToSet(running) \ ended
      BY <2>1, WithoutFacts
    <2> QED
      BY <1>0, <2>2 DEF Running
  <1>4. Running \subseteq Req /\ pp \in Nat /\ pp >= 1
    BY Places, Types
  <1>5. ASSUME NEW q \in Req
        PROVE  /\ late[q] > 0 => computed[q] = tokens[q] /\ ~isPrefill[q] /\ q \in Running
               /\ q \in sampled <=> sched[q] > 0 /\ computed[q] + sched[q] = tokens[q]
               /\ q \in returned <=> IF pp = 1 THEN q \in sampled ELSE late[q] = 1
               /\ computed'[q] = computed[q] + sched[q] /\ sched'[q] = 0
               /\ tokens'[q] = (IF q \in returned /\ q \notin ended THEN tokens[q] + 1 ELSE tokens[q])
               /\ late'[q] = (IF q \in sampled THEN pp - 1 ELSE Most(0, late[q] - 1))
               /\ isPrefill'[q] = (IF sched[q] > 0 THEN computed[q] + sched[q] < tokens[q]
                                                   ELSE isPrefill[q])
    <2>1. /\ late[q] > 0 => computed[q] = tokens[q] /\ ~isPrefill[q] /\ q \in Running
      BY DEF RequestOK
    <2>2. /\ q \in sampled <=> sched[q] > 0 /\ computed[q] + sched[q] = tokens[q]
          /\ q \in returned <=> IF pp = 1 THEN q \in sampled ELSE late[q] = 1
      BY <1>0
    <2>3. computed'[q] = computed[q] + sched[q] /\ sched'[q] = 0
      BY <1>0 DEF Zero
    <2>4. /\ tokens'[q] = (IF q \in returned /\ q \notin ended THEN tokens[q] + 1 ELSE tokens[q])
          /\ late'[q] = (IF q \in sampled THEN pp - 1 ELSE Most(0, late[q] - 1))
      BY <1>0
    <2>5. isPrefill'[q] = (IF sched[q] > 0 THEN computed[q] + sched[q] < tokens[q]
                                            ELSE isPrefill[q])
      BY <1>0
    <2> QED
      BY <2>1, <2>2, <2>3, <2>4, <2>5
  <1>6. ASSUME NEW q \in Req
        PROVE  LET c == computed[q]
                   s == sched[q]
                   t == tokens[q]
                   l == late[q]
                   w == IF sched[q] > 0 /\ computed[q] + sched[q] = tokens[q] THEN pp ELSE late[q]
               IN  /\ c + s \in Nat /\ tokens'[q] \in Nat /\ late'[q] \in 0 .. pp - 1
                   /\ isPrefill'[q] \in BOOLEAN /\ c + s + 0 <= tokens'[q]
                   /\ t <= tokens'[q] /\ tokens'[q] <= t + 1
                   /\ tokens'[q] = t + 1 => q \in returned /\ q \notin ended
                   /\ late'[q] > 0 => /\ q \notin ended /\ ~isPrefill'[q] /\ c + s = tokens'[q]
                                      /\ s > 0 \/ l > 0
                   /\ q \notin ended
                      /\ (s = 0 => (isPrefill[q] => c < t)
                                   /\ (~isPrefill[q] => c + (IF l > 0 THEN 0 ELSE 1) = t)) =>
                        /\ isPrefill'[q] => c + s < tokens'[q]
                        /\ ~isPrefill'[q] => c + s + (IF late'[q] > 0 THEN 0 ELSE 1) = tokens'[q]
                   /\ pp > 1 /\ l = 0 => q \notin ended
                   /\ l = 0 /\ s = 0 => late'[q] = 0
                   /\ \A k \in 1 .. pp - 1 :
                        /\ w >= k + 1 <=> late'[q] >= k
                        /\ pp > 1 /\ q \in ended => ~(w >= k + 1)
                        /\ ~isPrefill'[q] /\ late'[q] < k => ~isPrefill[q] /\ w < k + 1
    <2>1. PICK p, c, s, t, l, pre : /\ p = pp /\ c = computed[q] /\ s = sched[q] /\ t = tokens[q]
                                    /\ l = late[q] /\ pre = isPrefill[q]
      OBVIOUS
    <2>2. PICK sm \in BOOLEAN, rt \in BOOLEAN, en \in BOOLEAN :
             (sm <=> q \in sampled) /\ (rt <=> q \in returned) /\ (en <=> q \in ended)
      OBVIOUS
    <2>3. PICK tt, ll, np : tt = tokens'[q] /\ ll = late'[q] /\ np = isPrefill'[q]
      OBVIOUS
    <2>4. /\ p \in Nat /\ p >= 1 /\ c \in Nat /\ s \in Nat /\ t \in Nat /\ l \in Nat
          /\ pre \in BOOLEAN /\ c + s <= t /\ l <= p - 1
      BY <1>4, <2>1, Numbers
    <2>5. (l > 0 => c = t /\ ~pre) /\ (sm <=> s > 0 /\ c + s = t)
      BY <1>5, <2>1, <2>2
    <2>6. (rt <=> IF p = 1 THEN sm ELSE l = 1) /\ (en => rt)
      BY <1>1, <1>5, <2>1, <2>2
    <2>7. tt = (IF rt /\ ~en THEN t + 1 ELSE t) /\ ll = (IF sm THEN p - 1 ELSE Most(0, l - 1))
      BY <1>5, <2>1, <2>2, <2>3
    <2>8. np = (IF s > 0 THEN c + s < t ELSE pre)
      BY <1>5, <2>1, <2>3
    <2>9. np \in BOOLEAN /\ (np <=> IF s > 0 THEN c + s < t ELSE pre)
      <3>1. (c + s < t) \in BOOLEAN
        BY <2>4
      <3> QED
        BY <2>4, <2>8, <3>1, Zenon
    <2>10. /\ c + s \in Nat /\ tt \in Nat /\ ll \in 0 .. p - 1 /\ c + s + 0 <= tt
           /\ t <= tt /\ tt <= t + 1 /\ (tt = t + 1 => rt /\ ~en)
           /\ ll > 0 => ~en /\ ~np /\ c + s = tt /\ (s > 0 \/ l > 0)
           /\ ~en /\ (s = 0 => (pre => c < t) /\ (~pre => c + (IF l > 0 THEN 0 ELSE 1) = t)) =>
                (np => c + s < tt) /\ (~np => c + s + (IF ll > 0 THEN 0 ELSE 1) = tt)
           /\ p > 1 /\ l = 0 => ~en
           /\ l = 0 /\ s = 0 => ll = 0
           /\ \A k \in 1 .. p - 1 :
                /\ (IF sm THEN p ELSE l) >= k + 1 <=> ll >= k
                /\ p > 1 /\ en => ~((IF sm THEN p ELSE l) >= k + 1)
                /\ ~np /\ ll < k => ~pre /\ (IF sm THEN p ELSE l) < k + 1
      <3>0. ll \in Nat /\ ll = IF sm THEN p - 1 ELSE IF l > 0 THEN l - 1 ELSE 0
        BY <2>4, <2>7 DEF Most
      <3>1. l > 0 => s = 0 /\ ~sm
        BY <2>4, <2>5
      <3>2. tt \in Nat /\ t <= tt /\ tt <= t + 1 /\ (tt = t + 1 => rt /\ ~en) /\ c + s + 0 <= tt
        BY <2>4, <2>7
      <3>3. ll \in 0 .. p - 1
        BY <2>4, <3>0
      <3>4. ll > 0 => ~en /\ ~np /\ c + s = tt /\ (s > 0 \/ l > 0)
        BY <2>4, <2>5, <2>6, <2>7, <2>9, <3>0, <3>1
      <3>5. ASSUME ~en, s = 0 => (pre => c < t) /\ (~pre => c + (IF l > 0 THEN 0 ELSE 1) = t)
            PROVE  (np => c + s < tt) /\ (~np => c + s + (IF ll > 0 THEN 0 ELSE 1) = tt)
        <4>1. CASE s > 0
          BY <2>4, <2>5, <2>6, <2>7, <2>9, <3>0, <3>1, <3>5, <4>1
        <4>2. CASE s = 0
          BY <2>4, <2>5, <2>6, <2>7, <2>9, <3>0, <3>1, <3>5, <4>2
        <4> QED
          BY <2>4, <4>1, <4>2
      <3>6. (p > 1 /\ l = 0 => ~en) /\ (l = 0 /\ s = 0 => ll = 0)
        BY <2>4, <2>5, <2>6, <3>0
      <3>7. ASSUME NEW k \in 1 .. p - 1
            PROVE  /\ (IF sm THEN p ELSE l) >= k + 1 <=> ll >= k
                   /\ p > 1 /\ en => ~((IF sm THEN p ELSE l) >= k + 1)
                   /\ ~np /\ ll < k => ~pre /\ (IF sm THEN p ELSE l) < k + 1
        BY <2>4, <2>5, <2>6, <2>7, <2>9, <3>0, <3>1
      <3>8. c + s \in Nat
        BY <2>4
      <3> QED
        BY <3>2, <3>3, <3>4, <3>5, <3>6, <3>7, <3>8
    <2>11. (IF sm THEN p ELSE l) = (IF s > 0 /\ c + s = t THEN p ELSE l)
      BY <2>5
    <2> QED
      BY <2>1, <2>2, <2>3, <2>9, <2>10, <2>11

  <1>7. TypeOK'
    <2>1. {tokens', prompt', computed', sched', passed'} \subseteq [Req -> Nat]
      <3>1. {prompt, passed} \subseteq [Req -> Nat]
        BY DEF TypeOK
      <3>2. tokens' \in [Req -> Nat]
        <4>1. \A q \in Req : tokens'[q] \in Nat
          BY <1>6
        <4>2. tokens' = [q \in Req |-> tokens'[q]]
          BY <1>0
        <4> QED
          BY <4>1, <4>2
      <3>3. computed' \in [Req -> Nat]
        BY <1>0, Types
      <3>4. sched' \in [Req -> Nat]
        BY <1>1 DEF Zero
      <3> QED
        BY <1>1, <3>1, <3>2, <3>3, <3>4
    <2>2. \A q \in Req : /\ tokens'[q] <= prompt'[q] + MaxOutput
                         /\ computed'[q] + sched'[q] <= tokens'[q]
      <3> SUFFICES ASSUME NEW q \in Req
                   PROVE  /\ tokens'[q] <= prompt[q] + MaxOutput
                          /\ computed'[q] + sched'[q] <= tokens'[q]
        BY <1>1
      <3>1. tokens[q] <= prompt[q] + MaxOutput - 1 /\ tokens'[q] <= tokens[q] + 1
        BY <1>6 DEF RequestOK
      <3>2. tokens[q] \in Nat /\ prompt[q] \in Nat /\ MaxOutput \in Nat /\ tokens'[q] \in Nat
        BY <1>6, Numbers, Types
      <3>3. computed'[q] + sched'[q] <= tokens'[q]
        BY <1>5, <1>6
      <3> QED
        BY <3>1, <3>2, <3>3
    <2>3. isPrefill' \in [Req -> BOOLEAN]
      <3>1. isPrefill' = [q \in Req |-> isPrefill'[q]]
        BY <1>0
      <3> QED
        BY <1>6, <3>1
    <2>4. late' \in [Req -> 0 .. pp' - 1]
      <3>1. late' = [q \in Req |-> late'[q]]
        BY <1>0
      <3> QED
        BY <1>1, <1>6, <3>1
    <2>5. pp' = 1 => InUse' <= Capacity
      <3> SUFFICES ASSUME pp = 1 PROVE InUse' <= Capacity
        BY <1>1
      <3> DEFINE f == [q \in Req |-> computed[q] + sched[q]]
                 g == [q \in Req |-> computed'[q] + sched'[q]]
      <3>1. f \in [Req -> Nat]
        BY Types
      <3>2. \A q \in Running \ ended : g[q] = f[q]
        BY <1>4, <1>5, Numbers
      <3>3. InUse = Sum(f, Running) /\ InUse' = Sum(g, Running \ ended)
        BY <1>3 DEF InUse
      <3>4. InUse <= Capacity
        BY DEF TypeOK
      <3> HIDE DEF f, g
      <3>5. Running \ ended \subseteq Running /\ Running \ ended \subseteq Req
        BY <1>4
      <3>6. Sum(f, Running \ ended) <= Sum(f, Running)
        BY <1>4, <3>1, <3>5, SumPart
      <3>7. Sum(g, Running \ ended) = Sum(f, Running \ ended)
        BY <3>2, SumSame
      <3>8. Sum(f, Running \ ended) \in Nat /\ Sum(f, Running) \in Nat /\ Capacity \in Nat
        BY <1>4, <3>1, <3>5, SumType, Types
      <3> QED
        BY <3>3, <3>4, <3>6, <3>7, <3>8
    <2>6. waiting' \subseteq Req \ Running'
      BY <1>1, <1>3 DEF TypeOK
    <2>7. /\ step' \in [budget : Nat, cap : Nat, tokens : Nat, reqs : Nat, decodes : Nat,
                        decodeCap : Nat, total : Nat, carried : SUBSET Req]
          /\ budget' \in 0 .. MaxTokens /\ index' \in Nat \ {0}
      BY <1>1, Types DEF NoStep
    <2> QED
      BY <1>1, <1>3, <2>1, <2>2, <2>3, <2>4, <2>5, <2>6, <2>7 DEF TypeOK
  <1>8. RequestOK'
    <2>1. ASSUME NEW q \in Req
          PROVE  /\ tokens'[q] <= prompt[q] + MaxOutput - 1
                 /\ q \in Running' \cup waiting => tokens'[q] > 0
                 /\ late'[q] > 0 => /\ q \in Running' /\ ~isPrefill'[q]
                                    /\ computed'[q] = tokens'[q]
                 /\ q \in Running' =>
                      /\ isPrefill'[q] => computed'[q] < tokens'[q]
                      /\ ~isPrefill'[q] =>
                           computed'[q] + (IF late'[q] > 0 THEN 0 ELSE 1) = tokens'[q]
                 /\ passed[q] > 0 => /\ pp > 1 /\ q \in Running' /\ ~isPrefill'[q]
                                     /\ late'[q] = 0
      <3>1. /\ tokens[q] \in Nat /\ prompt[q] \in Nat /\ MaxOutput \in Nat /\ tokens'[q] \in Nat
            /\ tokens[q] <= tokens'[q] /\ tokens'[q] <= tokens[q] + 1
            /\ sched[q] \in Nat /\ late[q] \in Nat
        BY <1>6, Numbers, Types
      <3>2. tokens'[q] <= prompt[q] + MaxOutput - 1
        <4>1. tokens[q] <= prompt[q] + MaxOutput - 1
          BY DEF RequestOK
        <4>2. tokens'[q] = tokens[q] + 1 => tokens[q] # prompt[q] + MaxOutput - 1
          BY <1>0, <1>6
        <4> QED
          BY <3>1, <4>1, <4>2
      <3>3. q \in Running' \cup waiting => tokens'[q] > 0
        <4>1. q \in Running' \cup waiting => q \in Running \cup waiting
          BY <1>3
        <4>2. q \in Running \cup waiting => tokens[q] > 0
          BY DEF RequestOK
        <4> QED
          BY <3>1, <4>1, <4>2
      <3>4. sched[q] > 0 \/ late[q] > 0 => q \in Running
        BY DEF StepOK, RequestOK
      <3>5. late'[q] > 0 => q \in Running' /\ ~isPrefill'[q] /\ computed'[q] = tokens'[q]
        <4>1. late'[q] > 0 => /\ q \notin ended /\ ~isPrefill'[q]
                              /\ computed[q] + sched[q] = tokens'[q]
                              /\ sched[q] > 0 \/ late[q] > 0
          BY <1>6
        <4> QED
          BY <1>3, <1>5, <3>4, <4>1
      <3>6. ASSUME q \in Running'
            PROVE  /\ isPrefill'[q] => computed'[q] < tokens'[q]
                   /\ ~isPrefill'[q] =>
                           computed'[q] + (IF late'[q] > 0 THEN 0 ELSE 1) = tokens'[q]
        <4>1. q \in Running /\ q \notin ended
          BY <1>3, <3>6
        <4>2. sched[q] = 0 => /\ isPrefill[q] => computed[q] < tokens[q]
                              /\ ~isPrefill[q] =>
                                   computed[q] + (IF late[q] > 0 THEN 0 ELSE 1) = tokens[q]
          <5>1. sched[q] = 0 => q \in step.carried
            BY <1>2, <4>1 DEF StepOK
          <5> QED
            BY <4>1, <5>1 DEF RequestOK
        <4>3. /\ isPrefill'[q] => computed[q] + sched[q] < tokens'[q]
              /\ ~isPrefill'[q] =>
                     computed[q] + sched[q] + (IF late'[q] > 0 THEN 0 ELSE 1) = tokens'[q]
          BY <1>6, <4>1, <4>2
        <4>4. computed'[q] = computed[q] + sched[q]
          BY <1>5
        <4> QED
          BY <4>3, <4>4
      <3>7. ASSUME passed[q] > 0
            PROVE  pp > 1 /\ q \in Running' /\ ~isPrefill'[q] /\ late'[q] = 0
        <4>1. pp > 1 /\ q \in Running /\ ~isPrefill[q] /\ late[q] = 0 /\ sched[q] = 0
          BY <1>2, <3>7 DEF RequestOK
        <4>2. q \notin ended /\ late'[q] = 0
          BY <1>6, <4>1
        <4>3. isPrefill'[q] = isPrefill[q]
          BY <1>5, <4>1
        <4> QED
          BY <1>3, <4>1, <4>2, <4>3
      <3> QED
        BY <3>2, <3>3, <3>5, <3>6, <3>7
    <2> QED
      BY <1>1, <1>2, <2>1 DEF RequestOK
  <1>9. StepOK' /\ LoopOK' /\ BudgetOK' /\ BudgetBalances' /\ RideOK'
    <2>1. Len(running') <= MaxSeqs
      <3>1. Len(running') \in Nat /\ Len(running) \in Nat
        BY <1>3, LenProperties, Places
      <3> QED
        BY <1>3, <3>1, Types DEF StepOK
    <2>2. \A q \in Req : ~(sched'[q] > 0)
      BY <1>5
    <2>3. StepOK'
      BY <1>1, <1>2, <2>1, <2>2 DEF StepOK
    <2> QED
      BY <1>1, <1>2, <2>3 DEF LoopOK, BudgetOK, BudgetBalances, RideOK
  <1>10. TurnOK'
    <2> SUFFICES ASSUME NEW q \in Running', passed'[q] > 0 PROVE Turn(q)'
      BY TurnIs DEF TurnOK, Turn
    <2>1. q \in Running /\ q \in Req /\ q \notin ended /\ passed'[q] = passed[q] /\ passed[q] > 0
      BY <1>1, <1>3, <1>4
    <2>2. Turn(q) /\ pp > 1 /\ passed[q] \in Nat
      BY <2>1, Numbers DEF TurnOK, Turn, RequestOK
    <2>3. Ahead(q)' = Ahead(q) \ ended
      BY <1>0, <2>1, AheadWithout
    <2>4. Handled(q) /\ ~Handled(q)'
      BY <1>1, <1>2 DEF Handled
    <2>5. PICK k \in 1 .. pp - 1 : k = pp - passed[q]
      BY <1>4, <2>1, <2>2 DEF Turn
    <2>6. Since(q) = k + 1 /\ Since(q)' = k
      BY <1>1, <1>4, <2>2, <2>4, <2>5 DEF Since
    <2>7. \A t \in Req : /\ Wait(q, t) = (IF sched[t] > 0 /\ computed[t] + sched[t] = tokens[t]
                                            THEN pp ELSE late[t])
                         /\ Wait(q, t)' = late'[t]
      BY <2>4 DEF Wait
    <2>8. /\ Ahead(q) \subseteq Req /\ Outran(q) \subseteq Req /\ Left(q) \subseteq Req
      BY <1>4, <2>1, AheadFacts
    <2>9. \A t \in Req : /\ Wait(q, t) >= k + 1 <=> late'[t] >= k
                         /\ t \in ended => ~(Wait(q, t) >= k + 1)
                         /\ ~isPrefill'[t] /\ late'[t] < k => ~isPrefill[t] /\ Wait(q, t) < k + 1
      BY <1>6, <2>2, <2>7
    <2>10. Outran(q)' = {t \in Ahead(q) \ ended : late'[t] >= k}
      BY <2>3, <2>6, <2>7, <2>8 DEF Outran
    <2>11. Outran(q)' = Outran(q)
      BY <2>6, <2>8, <2>9, <2>10 DEF Outran
    <2>12. Left(q)' = {t \in (Ahead(q) \ ended) \cup {q} : ~isPrefill'[t] /\ late'[t] < k}
      BY <2>1, <2>3, <2>6, <2>7, <2>8 DEF Left
    <2>13. Left(q)' \subseteq Left(q)
      BY <2>1, <2>6, <2>8, <2>9, <2>12 DEF Left
    <2>14. PICK o \in Nat, l \in Nat, ll \in Nat :
              o = Cardinality(Outran(q)) /\ l = Cardinality(Left(q)) /\ ll = Cardinality(Left(q)')
      <3>1. Left(q)' \subseteq Req
        BY <2>8, <2>13
      <3> QED
        BY <2>8, <3>1, Requests
    <2>15. ll <= l
      BY <2>8, <2>13, <2>14, Counted
    <2>16. passed[q] < pp /\ (pp - passed[q]) * o >= passed[q] * l
      BY <2>2, <2>14 DEF Turn
    <2>17. (pp - passed[q]) * o >= passed[q] * ll
      BY <1>4, <2>2, <2>15, <2>16, TurnGoesOn
    <2>18. Cardinality(Outran(q)') = o /\ Cardinality(Left(q)') = ll
      BY <2>11, <2>14
    <2> QED
      BY <1>1, <2>16, <2>17, <2>18 DEF Turn
  <1> QED
    BY <1>7, <1>8, <1>9, <1>10 DEF FairInv


-----------------------------------------------------------------------------
LEMMA InvariantStep == FairInv /\ [Next]_vars => FairInv'
  <1> SUFFICES ASSUME FairInv, [Next]_vars PROVE FairInv'
    OBVIOUS
  <1>1. ASSUME NEW r \in Req, Arrive(r) PROVE FairInv'
    BY <1>1, ArriveStep
  <1>2. CASE Begin
    BY <1>2, BeginStep
  <1>3. CASE PassOver
    BY <1>3, PassOverStep
  <1>4. CASE Size
    BY <1>4, SizeStep
  <1>5. CASE Place
    BY <1>5, PlaceStep
  <1>6. CASE Preempt
    BY <1>6, PreemptStep
  <1>7. CASE EndRunningLoop
    BY <1>7, EndRunningStep
  <1>8. CASE Admit
    <2>1. CASE phase' = "waiting"
      BY <1>8, <2>1, AdmitStep
    <2>2. CASE phase' # "waiting"
      BY <1>8, <2>2, AdmitEnds
    <2> QED
      BY <2>1, <2>2
  <1>9. CASE EndWaitingLoop
    BY <1>9, EndWaitingStep
  <1>10. CASE Finish
    BY <1>10, FinishStep
  <1>11. CASE UNCHANGED vars
    <2>1. TypeOK' <=> TypeOK
      BY <1>11 DEF vars, TypeOK, Running, InUse
    <2>2. RequestOK' <=> RequestOK
      BY <1>11 DEF vars, RequestOK, Running, InStep
    <2>3. StepOK' <=> StepOK
      BY <1>11 DEF vars, StepOK, Running, InStep
    <2>4. LoopOK' <=> LoopOK
      BY <1>11 DEF vars, LoopOK, Running, Remaining, Short, BypassOn
    <2>5. BudgetOK' <=> BudgetOK
      BY <1>11 DEF vars, BudgetOK, InStep, Spent, Decodes, Scheduled
    <2>6. BudgetBalances' <=> BudgetBalances
      BY <1>11 DEF vars, BudgetBalances, Spent, Scheduled, Draws, Prefills, Remaining, Short, BypassOn
    <2>7. RideOK' <=> RideOK
      BY <1>11 DEF vars, RideOK, Decodes
    <2>8. TurnOK' <=> TurnOK
      BY <1>11 DEF vars, TurnOK, Running, Outran, Left, Ahead, Wait, Since, Handled, InStep
    <2> QED
      BY <2>1, <2>2, <2>3, <2>4, <2>5, <2>6, <2>7, <2>8 DEF FairInv
  <1> QED
    BY <1>1, <1>2, <1>3, <1>4, <1>5, <1>6, <1>7, <1>8, <1>9, <1>10, <1>11 DEF Next, Schedule

(* The inductive invariant holds in every reachable state.                  *)
THEOREM InvariantHolds == Spec => []FairInv
  BY InitHolds, InvariantStep, PTL DEF Spec

(* Every variable keeps its type: no budget of the step is overdrawn, a     *)
(* request is in one place only, once, and the cache holds what is computed.*)
THEOREM TypeCorrect == Spec => []TypeOK
  <1>1. FairInv => TypeOK
    BY DEF FairInv
  <1> QED
    BY <1>1, InvariantHolds, PTL

(* Whatever a preemption takes back in the middle of a step, the prefill    *)
(* budget, the tokens and the requests counted are those of the prefills    *)
(* that are still scheduled: Sm80Step.refund undoes Sm80Step.charge.        *)
THEOREM BudgetsBalance == Spec => []BudgetBalances
  <1>1. FairInv => BudgetBalances
    BY DEF FairInv
  <1> QED
    BY <1>1, InvariantHolds, PTL

(* Beside a decode, the long prompts of a step take together at most        *)
(* prefill_chunk_with_decodes tokens, or the floor of the budget,           *)
(* num_prefill_lookahead + 1, where that is more.                           *)
THEOREM LongPrefillsShare == Spec => []LongPrefillsShareTheChunk
  <1>1. ASSUME FairInv PROVE LongPrefillsShareTheChunk
    <2> SUFFICES ASSUME phase = "finish", Chunk > 0, \E r \in step.carried : ~isPrefill[r]
                 PROVE  Spent({r \in Scheduled : Draws(r)}) <= Most(Chunk, Lookahead + 1)
      BY DEF LongPrefillsShareTheChunk
    <2>1. TypeOK /\ BudgetOK /\ BudgetBalances
      BY <1>1 DEF FairInv
    <2>2. step.total <= Most(Chunk, Lookahead + 1)
      BY <2>1 DEF BudgetOK, InStep, Decodes
    <2>3. step.budget + Spent({r \in Scheduled : Draws(r)}) = step.total
      BY <2>1 DEF BudgetBalances
    <2>4. Spent({r \in Scheduled : Draws(r)}) \in Nat
      <3>1. {r \in Scheduled : Draws(r)} \subseteq Req
        BY DEF Scheduled
      <3> QED
        BY <2>1, <3>1, SumType, Types DEF Spent
    <2>5. step.budget \in Nat /\ step.total \in Nat /\ Most(Chunk, Lookahead + 1) \in Nat
      BY <2>1, Types DEF Most
    <2> QED
      BY <2>2, <2>3, <2>4, <2>5
  <1> QED
    BY <1>1, InvariantHolds, PTL

(* When the token budget leaves room for one token of every other request   *)
(* beside the chunk, every decode that was running when the step began is   *)
(* scheduled in it (one stage, no bypass, nothing preempted).               *)
THEOREM DecodesKeepTheirSlot == RoomForDecodes => (Spec => []DecodesRideAlong)
  <1>1. ASSUME RoomForDecodes, FairInv PROVE DecodesRideAlong
    BY <1>1 DEF FairInv, RideOK, DecodesRideAlong, Decodes
  <1>2. RoomForDecodes => (FairInv => DecodesRideAlong)
    BY <1>1
  <1> SUFFICES ASSUME RoomForDecodes PROVE Spec => []DecodesRideAlong
    OBVIOUS
  <1>3. FairInv => DecodesRideAlong
    BY <1>2
  <1> QED
    BY <1>3, InvariantHolds, PTL

(* With pp stages, no decode that is ready is passed over pp times in a     *)
(* row for its micro-batch having its share, whatever joins and ends.       *)
THEOREM EveryDecodeIsTaken == Spec => []EveryDecodeGetsItsTurn
  <1>1. ASSUME FairInv PROVE EveryDecodeGetsItsTurn
    <2> SUFFICES ASSUME NEW r \in Req, pp > 1 PROVE passed[r] < pp
      BY DEF EveryDecodeGetsItsTurn
    <2>1. TypeOK /\ RequestOK /\ TurnOK
      BY <1>1 DEF FairInv
    <2>2. CASE passed[r] > 0
      BY <2>1, <2>2 DEF RequestOK, TurnOK
    <2>3. CASE ~(passed[r] > 0)
      BY <2>1, <2>3, Numbers, Types
    <2> QED
      BY <2>2, <2>3
  <1> QED
    BY <1>1, InvariantHolds, PTL
=============================================================================
