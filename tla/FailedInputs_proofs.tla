------------------------- MODULE FailedInputs_proofs -------------------------
(***************************************************************************)
(* Theorems about FailedInputs, for any number of requests, any prompts,   *)
(* any block and pool size and any number of steps in flight: types, who   *)
(* fails when inputs failed, and that nobody is served from a block that   *)
(* was swept.  The argument is in FailedInvariant.                         *)
(***************************************************************************)
EXTENDS FailedInvariant, TLAPS, FiniteSetTheorems, SequenceTheorems,
        WellFoundedInduction, NaturalsInduction

-----------------------------------------------------------------------------
LEMMA Constants ==
    /\ N \in Nat \ {0} /\ BlockSize \in Nat \ {0} /\ NBlocks \in Nat \ {0}
    /\ Chunk \in Nat \ {0} /\ InFlight \in Nat \ {0}
    /\ MaxFails \in Nat /\ MaxAborts \in Nat
    /\ Prompts \subseteq Nat \ {0}
    /\ Req = 1 .. N /\ Req \subseteq Nat \ {0}
    /\ Blocks = 1 .. NBlocks /\ Blocks \subseteq Nat \ {0}
    /\ 0 \notin Req /\ -1 \notin Req
  BY FailedInputsAssumption DEF Req, Blocks

(* Products and division. *)
LEMMA Products ==
    ASSUME NEW x \in Nat, NEW S \in Nat
    PROVE  x * S \in Nat /\ (x + 1) * S = x * S + S
  OBVIOUS

LEMMA ProductOrder ==
    ASSUME NEW x \in Nat, NEW y \in Nat, NEW S \in Nat, x <= y
    PROVE  x * S <= y * S
  OBVIOUS

LEMMA Division ==
    ASSUME NEW n \in Nat, NEW b \in Nat \ {0}
    PROVE  /\ n \div b \in Nat
           /\ n % b \in 0 .. b - 1
           /\ n = (b * (n \div b)) + (n % b)
  OBVIOUS

(* n \div b counts the multiples of b that n reaches. *)
LEMMA Quotient ==
    ASSUME NEW n \in Nat, NEW b \in Nat \ {0}, NEW k \in Nat
    PROVE  k <= n \div b <=> k * b <= n
  <1> DEFINE q == n \div b
             m == n % b
  <1>1. q \in Nat /\ m \in 0 .. b - 1 /\ n = (b * q) + m
    BY Division
  <1>2. b * q = q * b /\ q * b \in Nat /\ k * b \in Nat /\ (q + 1) * b = q * b + b
    BY <1>1, Products
  <1> HIDE DEF q, m
  <1>3. ASSUME k <= q PROVE k * b <= n
    <2>1. k * b <= q * b
      BY <1>1, <1>3, ProductOrder
    <2> QED
      BY <1>1, <1>2, <2>1
  <1>4. ASSUME ~(k <= q) PROVE ~(k * b <= n)
    <2>1. (q + 1) * b <= k * b
      BY <1>1, <1>4, ProductOrder
    <2> QED
      BY <1>1, <1>2, <2>1
  <1> QED
    BY <1>3, <1>4 DEF q

(* Where the tokens of a request lie: the i-th block reaches past token t   *)
(* exactly if i > t \div BlockSize, and holds a token below t exactly if    *)
(* it is one of the first BlocksOf(t).                                      *)
LEMMA PastToken ==
    ASSUME NEW i \in Nat, NEW t \in Nat
    PROVE  i * BlockSize > t <=> i > t \div BlockSize
  <1>1. i <= t \div BlockSize <=> i * BlockSize <= t
    BY Constants, Quotient
  <1>2. t \div BlockSize \in Nat /\ i * BlockSize \in Nat
    BY Constants, Division, Products
  <1> QED
    BY <1>1, <1>2

LEMMA BelowToken ==
    ASSUME NEW i \in Nat \ {0}, NEW t \in Nat
    PROVE  /\ BlocksOf(t) \in Nat
           /\ (i - 1) * BlockSize < t <=> i <= BlocksOf(t)
  <1> DEFINE S == BlockSize
             n == t + S - 1
             j == i - 1
  <1>1. n \in Nat /\ j \in Nat /\ S \in Nat \ {0} /\ BlocksOf(t) = n \div S
    BY Constants DEF BlocksOf
  <1>2. BlocksOf(t) \in Nat /\ (i <= n \div S <=> i * S <= n)
    BY <1>1, Division, Quotient
  <1>3. i * S = j * S + S /\ j * S \in Nat
    <2>1. (j + 1) * S = j * S + S /\ j * S \in Nat
      BY <1>1, Products
    <2>2. j + 1 = i
      OBVIOUS
    <2> QED
      BY <2>1, <2>2
  <1> QED
    BY <1>1, <1>2, <1>3

LEMMA BlockCount ==
    ASSUME NEW s \in Nat, NEW t \in Nat
    PROVE  /\ BlocksOf(t) \in Nat
           /\ t > 0 => BlocksOf(t) > 0
           /\ t = 0 => BlocksOf(t) = 0
           /\ s <= t => BlocksOf(s) <= BlocksOf(t)
           /\ BlocksOf(s * BlockSize) = s
           /\ BlocksOf(t) * BlockSize >= t
  <1>1. BlocksOf(t) \in Nat /\ BlocksOf(s) \in Nat
    BY BelowToken
  <1>2. t > 0 <=> 1 <= BlocksOf(t)
    <2>1. (1 - 1) * BlockSize < t <=> 1 <= BlocksOf(t)
      BY BelowToken
    <2> QED
      BY <2>1, Constants
  <1>3. ASSUME s <= t, BlocksOf(s) > 0 PROVE BlocksOf(s) <= BlocksOf(t)
    <2> DEFINE i == BlocksOf(s)
    <2>1. i \in Nat \ {0}
      BY <1>1, <1>3
    <2>2. (i - 1) * BlockSize < s
      BY <2>1, BelowToken
    <2>3. (i - 1) * BlockSize \in Nat
      BY <2>1, Constants, Products
    <2>4. (i - 1) * BlockSize < t
      BY <2>2, <2>3, <1>3
    <2> QED
      BY <2>1, <2>4, BelowToken
  <1>4. BlocksOf(s * BlockSize) = s
    <2> DEFINE p == s * BlockSize
               c == BlocksOf(p)
    <2>1. p \in Nat /\ c \in Nat
      BY Constants, Products, BelowToken
    <2>2. ~(c > s)
      <3> SUFFICES ASSUME c > s PROVE FALSE
        OBVIOUS
      <3>1. c \in Nat \ {0} /\ s <= c - 1 /\ c - 1 \in Nat
        BY <2>1
      <3>2. (c - 1) * BlockSize < p
        BY <2>1, <3>1, BelowToken
      <3>3. s * BlockSize <= (c - 1) * BlockSize
        BY <3>1, Constants, ProductOrder
      <3>4. (c - 1) * BlockSize \in Nat
        BY <3>1, Constants, Products
      <3> QED
        BY <2>1, <3>2, <3>3, <3>4
    <2>3. ~(c < s)
      <3> SUFFICES ASSUME c < s PROVE FALSE
        OBVIOUS
      <3>1. s \in Nat \ {0} /\ s - 1 \in Nat
        BY <2>1
      <3>2. ((s - 1) + 1) * BlockSize = (s - 1) * BlockSize + BlockSize
            /\ (s - 1) * BlockSize \in Nat
        BY <3>1, Constants, Products
      <3>3. (s - 1) + 1 = s
        OBVIOUS
      <3>4. (s - 1) * BlockSize < p
        BY <3>2, <3>3, Constants
      <3>5. s <= c
        BY <3>1, <3>4, <2>1, BelowToken
      <3> QED
        BY <2>1, <3>5
    <2> QED
      BY <2>1, <2>2, <2>3
  <1>5. BlocksOf(t) * BlockSize >= t
    <2> DEFINE c == BlocksOf(t)
    <2>1. c + 1 \in Nat \ {0} /\ ~(c + 1 <= c) /\ (c + 1) - 1 = c
      BY <1>1
    <2>2. ~(((c + 1) - 1) * BlockSize < t)
      BY <2>1, BelowToken
    <2>3. c * BlockSize \in Nat
      BY <1>1, Constants, Products
    <2> QED
      BY <2>1, <2>2, <2>3
  <1> QED
    BY <1>1, <1>2, <1>3, <1>4, <1>5

-----------------------------------------------------------------------------
(* A set of numbers that is not empty has a least one, and a greatest one   *)
(* if it is bounded.                                                        *)
Less == OpToRel(<, Nat)

LEMMA LessWF == IsWellFoundedOn(Less, Nat)
  BY NatLessThanWellFounded, Zenon DEF Less

LEMMA LessIs ==
    ASSUME NEW x \in Nat, NEW y \in Nat, <<x, y>> \notin Less
    PROVE  ~(x < y)
  BY Zenon DEF Less, OpToRel

LEMMA LeastOf ==
    ASSUME NEW T, T \subseteq Nat, T # {}
    PROVE  \E m \in T : \A n \in T : m <= n
  <1>1. PICK m \in T : \A n \in T : <<n, m>> \notin Less
    BY LessWF, WFMin
  <1>2. \A n \in T : ~(n < m)
    BY <1>1, LessIs
  <1>3. m \in Nat /\ \A n \in T : n \in Nat
    OBVIOUS
  <1>4. \A n \in T : m <= n
    BY <1>2, <1>3
  <1> QED
    BY <1>4

LEMMA MinFacts ==
    ASSUME NEW T, T \subseteq Nat, T # {}
    PROVE  Min(T) \in T /\ \A n \in T : Min(T) <= n
  <1>1. \E m \in T : \A n \in T : m =< n
    BY LeastOf
  <1> DEFINE m == CHOOSE x \in T : \A n \in T : x =< n
  <1>2. m \in T /\ \A n \in T : m =< n
    BY <1>1
  <1>3. Min(T) = m
    BY DEF Min
  <1> HIDE DEF m
  <1> QED
    BY <1>2, <1>3

LEMMA MaxFacts ==
    ASSUME NEW n \in Nat, NEW T, T \subseteq 0 .. n, T # {}
    PROVE  Max(T) \in T /\ \A y \in T : y <= Max(T)
  <1> DEFINE U == {n - y : y \in T}
  <1>1. U \subseteq Nat /\ U # {}
    <2>1. \A y \in T : n - y \in Nat
      OBVIOUS
    <2> QED
      BY <2>1
  <1>2. PICK u \in U : \A v \in U : u <= v
    BY <1>1, LeastOf
  <1>3. PICK x \in T : u = n - x
    OBVIOUS
  <1>4. \A y \in T : x >= y
    <2> SUFFICES ASSUME NEW y \in T PROVE x >= y
      OBVIOUS
    <2>1. n - y \in U
      OBVIOUS
    <2>2. n - x <= n - y /\ x \in 0 .. n /\ y \in 0 .. n
      BY <1>2, <1>3, <2>1
    <2> QED
      BY <2>2
  <1> DEFINE m == CHOOSE z \in T : \A y \in T : z >= y
  <1>5. m \in T /\ \A y \in T : m >= y
    BY <1>4
  <1>6. Max(T) = m
    BY DEF Max
  <1> HIDE DEF m
  <1> QED
    BY <1>5, <1>6

(* Prompts are bounded: they all fit the pool. *)
LEMMA LongestPrompt ==
    ASSUME Prompts # {}
    PROVE  /\ Max(Prompts) \in Prompts /\ \A p \in Prompts : p <= Max(Prompts)
           /\ \A p \in Prompts : BlocksOf(p) <= BlocksOf(Max(Prompts))
           /\ BlocksOf(Max(Prompts)) \in Nat /\ N * BlocksOf(Max(Prompts)) <= NBlocks
  <1> DEFINE n == NBlocks * BlockSize
  <1>1. n \in Nat
    BY Constants, Products
  <1>2. \A p \in Prompts : p \in 0 .. n
    <2> SUFFICES ASSUME NEW p \in Prompts PROVE p <= n
      BY <1>1, Constants
    <2> DEFINE c == BlocksOf(p)
    <2>1. p \in Nat /\ c \in Nat /\ c * BlockSize >= p
      BY Constants, BlockCount
    <2>2. N * c <= NBlocks
      BY FailedInputsAssumption
    <2>3. 1 * c <= N * c
      BY <2>1, Constants, ProductOrder
    <2>4. N * c \in Nat
      BY <2>1, Constants, Products
    <2>5. c <= NBlocks
      BY <2>1, <2>2, <2>3, <2>4, Constants
    <2>6. c * BlockSize <= n
      BY <2>1, <2>5, Constants, ProductOrder
    <2>7. c * BlockSize \in Nat
      BY <2>1, Constants, Products
    <2> QED
      BY <1>1, <2>1, <2>6, <2>7
  <1>3. Max(Prompts) \in Prompts /\ \A p \in Prompts : p <= Max(Prompts)
    BY <1>1, <1>2, MaxFacts
  <1>4. \A p \in Prompts : BlocksOf(p) <= BlocksOf(Max(Prompts))
    BY <1>3, BlockCount, Constants
  <1> QED
    BY <1>3, <1>4, BlockCount, Constants, FailedInputsAssumption

-----------------------------------------------------------------------------
(* The free blocks that a request gets are free, and no two are the same:   *)
(* the blocks have an order, so every position in it is taken.              *)
Sooner(h, c, b) == IF (h[b] = 0) = (h[c] = 0) THEN c < b ELSE h[c] = 0

LEMMA SoonerOrder ==
    ASSUME NEW h, NEW a \in Nat, NEW b \in Nat, NEW c \in Nat
    PROVE  /\ ~Sooner(h, b, b)
           /\ b # c => Sooner(h, b, c) \/ Sooner(h, c, b)
           /\ Sooner(h, a, b) /\ Sooner(h, b, c) => Sooner(h, a, c)
  BY DEF Sooner

LEMMA BlockSets ==
    ASSUME NEW S, S \subseteq Blocks
    PROVE  /\ IsFiniteSet(S) /\ Cardinality(S) \in Nat
           /\ Cardinality(Blocks \ S) = NBlocks - Cardinality(S)
  <1>1. IsFiniteSet(Blocks) /\ Cardinality(Blocks) = NBlocks
    BY Constants, FS_Interval
  <1>2. IsFiniteSet(S) /\ IsFiniteSet(Blocks \ S)
    BY <1>1, FS_Subset
  <1>3. Cardinality(S) \in Nat /\ Cardinality(Blocks \ S) \in Nat
    BY <1>2, FS_CardinalityType
  <1>4. S \cup (Blocks \ S) = Blocks /\ S \cap (Blocks \ S) = {}
    OBVIOUS
  <1>5. Cardinality(Blocks) = Cardinality(S) + Cardinality(Blocks \ S) - Cardinality({})
    <2>1. Cardinality(S \cup (Blocks \ S)) =
            Cardinality(S) + Cardinality(Blocks \ S) - Cardinality(S \cap (Blocks \ S))
      BY <1>2, FS_Union
    <2> QED
      BY <1>4, <2>1
  <1>6. Cardinality({}) = 0
    BY FS_EmptySet
  <1> QED
    BY <1>1, <1>2, <1>3, <1>5, <1>6, Constants

LEMMA FreeBlocksFacts ==
    ASSUME NEW h, NEW held, held \subseteq Blocks, NEW n \in Nat,
           Cardinality(held) + n <= NBlocks
    PROVE  /\ FreeBlocks(h, held, n) \in Seq(Blocks \ held)
           /\ Len(FreeBlocks(h, held, n)) = n
           /\ \A i, j \in 1 .. n :
                FreeBlocks(h, held, n)[i] = FreeBlocks(h, held, n)[j] => i = j
  <1> DEFINE free == Blocks \ held
             before(b) == {c \in free : Sooner(h, c, b)}
             F == Cardinality(free)
             rank == [b \in free |-> Cardinality(before(b))]
             pick(i) == CHOOSE b \in free : Cardinality(before(b)) = i - 1
  <1>1. FreeBlocks(h, held, n) = [i \in 1 .. n |-> pick(i)]
    BY DEF FreeBlocks, Sooner
  <1>2. IsFiniteSet(free) /\ F \in Nat /\ n <= F
    <2>1. Cardinality(held) \in Nat /\ F = NBlocks - Cardinality(held)
      BY BlockSets
    <2>2. free \subseteq Blocks
      OBVIOUS
    <2>3. IsFiniteSet(free) /\ F \in Nat
      BY <2>2, BlockSets
    <2> QED
      BY <2>1, <2>3, Constants
  <1>3. free \subseteq Nat
    BY Constants
  <1>4. ASSUME NEW b \in free
        PROVE  /\ IsFiniteSet(before(b)) /\ Cardinality(before(b)) \in 0 .. F - 1
    <2>1. IsFiniteSet(before(b)) /\ before(b) \subseteq free
      BY <1>2, FS_Subset
    <2>2. b \notin before(b)
      BY <1>3, SoonerOrder
    <2>3. Cardinality(before(b)) <= F /\ Cardinality(before(b)) # F
      <3>1. before(b) # free
        BY <2>2
      <3> QED
        BY <1>2, <2>1, <3>1, FS_Subset
    <2>4. Cardinality(before(b)) \in Nat
      BY <2>1, FS_CardinalityType
    <2> QED
      BY <1>2, <2>1, <2>3, <2>4
  <1>5. ASSUME NEW b \in free, NEW c \in free, Sooner(h, b, c)
        PROVE  Cardinality(before(b)) # Cardinality(before(c))
    <2>1. before(b) \subseteq before(c) /\ b \in before(c) /\ b \notin before(b)
      <3>1. ASSUME NEW a \in free, Sooner(h, a, b) PROVE Sooner(h, a, c)
        BY <1>3, <1>5, <3>1, SoonerOrder
      <3>2. ~Sooner(h, b, b)
        BY <1>3, SoonerOrder
      <3> QED
        BY <1>5, <3>1, <3>2
    <2>2. IsFiniteSet(before(c)) /\ before(b) \in SUBSET before(c) /\ before(b) # before(c)
      BY <1>4, <2>1
    <2> QED
      BY <2>2, FS_Subset
  <1>6. rank \in Injection(free, 0 .. F - 1)
    <2>1. rank \in [free -> 0 .. F - 1]
      BY <1>4
    <2>2. ASSUME NEW b \in free, NEW c \in free, rank[b] = rank[c] PROVE b = c
      <3> SUFFICES ASSUME b # c PROVE FALSE
        OBVIOUS
      <3>1. Sooner(h, b, c) \/ Sooner(h, c, b)
        BY <1>3, SoonerOrder
      <3> QED
        BY <1>5, <2>2, <3>1
    <2> QED
      BY <2>1, <2>2 DEF Injection, IsInjective
  <1>7. rank \in Surjection(free, 0 .. F - 1)
    <2>1. 0 \in Int /\ F - 1 \in Int /\ (IF 0 > F - 1 THEN 0 ELSE F - 1 - 0 + 1) = F
      BY <1>2
    <2> HIDE DEF F
    <2>2. IsFiniteSet(0 .. F - 1) /\ Cardinality(0 .. F - 1) = F
      BY <2>1, FS_Interval
    <2> QED
      BY <1>6, <2>2, FS_Injection DEF F
  <1>8. ASSUME NEW i \in 1 .. n PROVE pick(i) \in free /\ Cardinality(before(pick(i))) = i - 1
    <2>1. i - 1 \in 0 .. F - 1
      BY <1>2
    <2>2. \E b \in free : rank[b] = i - 1
      BY <1>7, <2>1 DEF Surjection
    <2>3. \E b \in free : Cardinality(before(b)) = i - 1
      BY <2>2
    <2> QED
      BY <2>3
  <1> HIDE DEF pick, before, rank, F
  <1>9. ASSUME NEW i \in 1 .. n, NEW j \in 1 .. n, pick(i) = pick(j) PROVE i = j
    <2>1. i - 1 = j - 1 /\ i \in Int /\ j \in Int
      BY <1>8, <1>9
    <2> QED
      BY <2>1
  <1> DEFINE s == [i \in 1 .. n |-> pick(i)]
  <1>10. s \in [1 .. n -> Blocks \ held]
    BY <1>8
  <1>11. s \in Seq(Blocks \ held) /\ Len(s) = n /\ \A i \in 1 .. n : s[i] = pick(i)
    BY <1>10
  <1> QED
    BY <1>1, <1>9, <1>11

-----------------------------------------------------------------------------
(* A step's requests are taken one after the other, in order: the folds of  *)
(* Allocated and Computed are chains with one link per request.             *)
Start == [table |-> table, hash |-> hash, computed |-> computed, from |-> computed]
AllocateOne(rs, r, a) == IF r \in rs THEN Allocate(a, r) ELSE a
ComputeOne(work, at, r, c) == IF r \in DOMAIN work THEN Compute(c, r, work[r], at[r]) ELSE c

First(p) == IF p[1] = "allocate" THEN Start ELSE cause
Link(p, r, x) ==
    IF p[1] = "allocate" THEN AllocateOne(p[2], r, x) ELSE ComputeOne(p[2], p[3], r, x)
Folded(p) ==
    (CHOOSE h : h = [s \in SUBSET (1 .. N) |->
        IF s = {} THEN First(p) ELSE Link(p, Max(s), h[s \ {Max(s)}])])[1 .. N]

LEMMA Chain ==
    ASSUME NEW p
    PROVE  \E g : /\ g[0] = First(p)
                  /\ \A n \in 1 .. N : g[n] = Link(p, n, g[n - 1])
                  /\ g[N] = Folded(p)
  <1> DEFINE Good(n, h) ==
                h = [s \in SUBSET (1 .. n) |->
                       IF s = {} THEN First(p)
                       ELSE Link(p, Max(s), h[s \ {Max(s)}])]
             iter == CHOOSE h : Good(N, h)
             g == [n \in 0 .. N |-> iter[1 .. n]]
  <1>2. ASSUME NEW n \in Nat, NEW h, Good(n, h) PROVE \E f : Good(n + 1, f)
    <2> DEFINE f == [s \in SUBSET (1 .. n + 1) |->
                       IF n + 1 \in s THEN Link(p, n + 1, h[s \ {n + 1}]) ELSE h[s]]
    <2>1. ASSUME NEW s \in SUBSET (1 .. n + 1), s # {}
          PROVE  f[s] = Link(p, Max(s), f[s \ {Max(s)}])
      <3>1. s \subseteq 0 .. n + 1 /\ n + 1 \in Nat /\ \A y \in s : y \in 1 .. n + 1
        OBVIOUS
      <3>2. Max(s) \in s /\ \A y \in s : y <= Max(s)
        BY <2>1, <3>1, MaxFacts
      <3>3. CASE n + 1 \in s
        <4>1. Max(s) = n + 1
          <5>1. n + 1 <= Max(s) /\ Max(s) \in 1 .. n + 1
            BY <3>1, <3>2, <3>3, Zenon
          <5> QED
            BY <5>1
        <4>2. s \ {n + 1} \in SUBSET (1 .. n + 1) /\ n + 1 \notin s \ {n + 1}
          OBVIOUS
        <4>3. f[s \ {n + 1}] = h[s \ {n + 1}]
          BY <4>2, Zenon
        <4>4. f[s] = Link(p, n + 1, h[s \ {n + 1}])
          BY <3>3, Zenon
        <4> HIDE DEF f
        <4> QED
          BY <4>1, <4>3, <4>4, Zenon
      <3>4. CASE n + 1 \notin s
        <4>1. s \in SUBSET (1 .. n)
          BY <3>4
        <4>2. f[s] = h[s]
          BY <3>4, Zenon
        <4>3. h[s] = Link(p, Max(s), h[s \ {Max(s)}])
          BY <1>2, <2>1, <4>1, Zenon
        <4>4. s \ {Max(s)} \in SUBSET (1 .. n + 1) /\ n + 1 \notin s \ {Max(s)}
          BY <3>4
        <4>5. f[s \ {Max(s)}] = h[s \ {Max(s)}]
          BY <4>4, Zenon
        <4> HIDE DEF f
        <4> QED
          BY <4>2, <4>3, <4>5, Zenon
      <3> QED
        BY <3>3, <3>4
    <2>2. f[{}] = First(p)
      <3>1. h[{}] = First(p)
        BY <1>2, Zenon
      <3>2. {} \in SUBSET (1 .. n + 1) /\ n + 1 \notin {}
        OBVIOUS
      <3> QED
        BY <3>1, <3>2, Zenon
    <2>3. f = [s \in SUBSET (1 .. n + 1) |-> f[s]]
      BY Zenon
    <2> HIDE DEF f
    <2>4. Good(n + 1, f)
      BY <2>1, <2>2, <2>3, Zenon
    <2> QED
      BY <2>4
  <1>3. \E h : Good(0, h)
    <2> DEFINE f == [s \in SUBSET (1 .. 0) |-> First(p)]
    <2>1. \A s \in SUBSET (1 .. 0) : s = {}
      OBVIOUS
    <2>2. Good(0, f)
      BY <2>1, Zenon
    <2> QED
      BY <2>2
  <1>4. \E h : Good(N, h)
    <2> DEFINE T == {n \in Nat : ~\E h : Good(n, h)}
    <2> HIDE DEF Good
    <2> SUFFICES ASSUME N \in T PROVE FALSE
      BY Constants
    <2>1. PICK m \in T : \A n \in T : m <= n
      BY LeastOf, Zenon
    <2>2. m \in Nat /\ m # 0
      BY <1>3, <2>1
    <2>3. m - 1 \in Nat /\ m - 1 \notin T /\ (m - 1) + 1 = m
      BY <2>1, <2>2
    <2> QED
      BY <1>2, <2>1, <2>3
  <1>5. Good(N, iter)
    BY <1>4, Zenon
  <1>6. ASSUME NEW s \in SUBSET (1 .. N)
        PROVE  iter[s] = IF s = {} THEN First(p)
                         ELSE Link(p, Max(s), iter[s \ {Max(s)}])
    BY <1>5, Zenon
  <1> HIDE DEF iter
  <1>7. g[0] = First(p)
    <2>1. 1 .. 0 = {} /\ {} \in SUBSET (1 .. N) /\ 0 \in 0 .. N
      BY Constants
    <2> QED
      BY <1>6, <2>1, Zenon
  <1>8. ASSUME NEW n \in 1 .. N PROVE g[n] = Link(p, n, g[n - 1])
    <2>1. n \in 0 .. N /\ n - 1 \in 0 .. N /\ 1 .. n \in SUBSET (1 .. N) /\ 1 .. n # {}
      BY Constants
    <2>2. Max(1 .. n) = n
      <3>1. 1 .. n \subseteq 0 .. n /\ n \in Nat /\ n \in 1 .. n
        BY Constants
      <3>2. Max(1 .. n) \in 1 .. n /\ \A y \in 1 .. n : y <= Max(1 .. n)
        BY <2>1, <3>1, MaxFacts
      <3> QED
        BY <3>1, <3>2
    <2>3. (1 .. n) \ {n} = 1 .. n - 1
      OBVIOUS
    <2>4. g[n] = iter[1 .. n] /\ g[n - 1] = iter[1 .. n - 1]
      BY <2>1, Zenon
    <2> HIDE DEF g
    <2>5. iter[1 .. n] = Link(p, Max(1 .. n), iter[(1 .. n) \ {Max(1 .. n)}])
      BY <1>6, <2>1, Zenon
    <2> QED
      BY <2>2, <2>3, <2>4, <2>5, Zenon
  <1>9. g[N] = iter[1 .. N]
    <2>1. N \in 0 .. N
      BY Constants
    <2> QED
      BY <2>1, Zenon
  <1> QED
    BY <1>7, <1>8, <1>9, Zenon DEF iter, Folded

LEMMA AllocatedChain ==
    ASSUME NEW rs
    PROVE  \E g : /\ g[0] = Start
                  /\ \A n \in 1 .. N : g[n] = AllocateOne(rs, n, g[n - 1])
                  /\ g[N] = Allocated(rs)
  <1>p. PICK q : q = <<"allocate", rs>>
    OBVIOUS
  <1>6. PICK g : /\ g[0] = First(q)
                 /\ \A n \in 1 .. N : g[n] = Link(q, n, g[n - 1])
                 /\ g[N] = Folded(q)
    BY Chain
  <1> DEFINE Body(h, s) == IF s = {} THEN Start
                           ELSE AllocateOne(rs, InOrder[Max(s)], h[s \ {Max(s)}])
             BodyP(h, s) == IF s = {} THEN First(q) ELSE Link(q, Max(s), h[s \ {Max(s)}])
  <1>1. Allocated(rs) = (CHOOSE h : h = [s \in SUBSET (DOMAIN InOrder) |-> Body(h, s)])[DOMAIN InOrder]
    BY DEF Allocated, FoldLeft, MapThenFoldSet, AllocateOne, Start
  <1>2. DOMAIN InOrder = 1 .. N /\ \A i \in 1 .. N : InOrder[i] = i
    BY DEF InOrder, Req
  <1>3. First(q) = Start /\ \A r, a : Link(q, r, a) = AllocateOne(rs, r, a)
    BY <1>p DEF First, Link
  <1>4. ASSUME NEW s \in SUBSET (1 .. N), NEW h PROVE Body(h, s) = BodyP(h, s)
    <2>1. CASE s = {}
      BY <1>3, <2>1
    <2>2. CASE s # {}
      <3>1. s \subseteq 0 .. N
        BY Constants
      <3>2. Max(s) \in 1 .. N
        BY <2>2, <3>1, MaxFacts, Constants
      <3>3. InOrder[Max(s)] = Max(s)
        BY <1>2, <3>2
      <3> QED
        BY <1>3, <2>2, <3>3, Zenon
    <2> QED
      BY <2>1, <2>2
  <1>5. \A h : [s \in SUBSET (1 .. N) |-> Body(h, s)] = [s \in SUBSET (1 .. N) |-> BodyP(h, s)]
    BY <1>4, Zenon
  <1>a. g[N] = (CHOOSE h : h = [s \in SUBSET (1 .. N) |-> BodyP(h, s)])[1 .. N]
    BY <1>6, Zenon DEF Folded
  <1> HIDE DEF Body, BodyP
  <1>7. Allocated(rs) = (CHOOSE h : h = [s \in SUBSET (1 .. N) |-> Body(h, s)])[1 .. N]
    BY <1>1, <1>2, Zenon
  <1>8. (CHOOSE h : h = [s \in SUBSET (1 .. N) |-> Body(h, s)])
          = (CHOOSE h : h = [s \in SUBSET (1 .. N) |-> BodyP(h, s)])
    BY <1>5, Zenon
  <1>9. \A n \in 1 .. N : g[n] = AllocateOne(rs, n, g[n - 1])
    BY <1>3, <1>6
  <1> QED
    BY <1>3, <1>6, <1>7, <1>8, <1>9, <1>a, Zenon

LEMMA ComputedChain ==
    ASSUME NEW work, NEW at
    PROVE  \E g : /\ g[0] = cause
                  /\ \A n \in 1 .. N : g[n] = ComputeOne(work, at, n, g[n - 1])
                  /\ g[N] = Computed(work, at)
  <1>p. PICK q : q = <<"compute", work, at>>
    OBVIOUS
  <1>6. PICK g : /\ g[0] = First(q)
                 /\ \A n \in 1 .. N : g[n] = Link(q, n, g[n - 1])
                 /\ g[N] = Folded(q)
    BY Chain
  <1> DEFINE Body(h, s) == IF s = {} THEN cause
                           ELSE ComputeOne(work, at, InOrder[Max(s)], h[s \ {Max(s)}])
             BodyP(h, s) == IF s = {} THEN First(q) ELSE Link(q, Max(s), h[s \ {Max(s)}])
  <1>1. Computed(work, at) = (CHOOSE h : h = [s \in SUBSET (DOMAIN InOrder) |-> Body(h, s)])[DOMAIN InOrder]
    BY DEF Computed, FoldLeft, MapThenFoldSet, ComputeOne
  <1>2. DOMAIN InOrder = 1 .. N /\ \A i \in 1 .. N : InOrder[i] = i
    BY DEF InOrder, Req
  <1>3. First(q) = cause /\ \A r, a : Link(q, r, a) = ComputeOne(work, at, r, a)
    BY <1>p DEF First, Link
  <1>4. ASSUME NEW s \in SUBSET (1 .. N), NEW h PROVE Body(h, s) = BodyP(h, s)
    <2>1. CASE s = {}
      BY <1>3, <2>1
    <2>2. CASE s # {}
      <3>1. s \subseteq 0 .. N
        BY Constants
      <3>2. Max(s) \in 1 .. N
        BY <2>2, <3>1, MaxFacts, Constants
      <3>3. InOrder[Max(s)] = Max(s)
        BY <1>2, <3>2
      <3> QED
        BY <1>3, <2>2, <3>3, Zenon
    <2> QED
      BY <2>1, <2>2
  <1>5. \A h : [s \in SUBSET (1 .. N) |-> Body(h, s)] = [s \in SUBSET (1 .. N) |-> BodyP(h, s)]
    BY <1>4, Zenon
  <1>a. g[N] = (CHOOSE h : h = [s \in SUBSET (1 .. N) |-> BodyP(h, s)])[1 .. N]
    BY <1>6, Zenon DEF Folded
  <1> HIDE DEF Body, BodyP
  <1>7. Computed(work, at) = (CHOOSE h : h = [s \in SUBSET (1 .. N) |-> Body(h, s)])[1 .. N]
    BY <1>1, <1>2, Zenon
  <1>8. (CHOOSE h : h = [s \in SUBSET (1 .. N) |-> Body(h, s)])
          = (CHOOSE h : h = [s \in SUBSET (1 .. N) |-> BodyP(h, s)])
    BY <1>5, Zenon
  <1>9. \A n \in 1 .. N : g[n] = ComputeOne(work, at, n, g[n - 1])
    BY <1>3, <1>6
  <1> QED
    BY <1>3, <1>6, <1>7, <1>8, <1>9, <1>a, Zenon

-----------------------------------------------------------------------------
(* One allocation.                                                          *)
Longest == BlocksOf(Max(Prompts))

HitTable(a, r) == [i \in 1 .. HitBlocks(a.hash, r) |-> Min({b \in Blocks : a.hash[b] = i})]
OldTable(a, r) == IF a.computed[r] = 0 THEN HitTable(a, r) ELSE a.table[r]
FromToken(a, r) ==
    IF a.computed[r] = 0 THEN Len(HitTable(a, r)) * BlockSize ELSE a.computed[r]
ToToken(a, r) == Min({FromToken(a, r) + Chunk, prompt[r]})
Taken(a, r) == (UNION {ToSet(a.table[q]) : q \in Req}) \cup ToSet(OldTable(a, r))
MoreTable(a, r) ==
    FreeBlocks(a.hash, Taken(a, r), BlocksOf(ToToken(a, r)) - Len(OldTable(a, r)))
AllTable(a, r) == OldTable(a, r) \o MoreTable(a, r)
Full(a, r) == {i \in 1 .. Len(AllTable(a, r)) : i * BlockSize <= ToToken(a, r)}
HashAfter(a, r) ==
    [b \in Blocks |-> IF \E i \in Full(a, r) : AllTable(a, r)[i] = b
                      THEN CHOOSE i \in Full(a, r) : AllTable(a, r)[i] = b
                      ELSE IF b \in ToSet(MoreTable(a, r)) THEN 0 ELSE a.hash[b]]

LEMMA AllocateIs ==
    ASSUME NEW a, NEW r
    PROVE  Allocate(a, r) = [a EXCEPT !.table[r] = AllTable(a, r), !.from[r] = FromToken(a, r),
                                      !.computed[r] = ToToken(a, r), !.hash = HashAfter(a, r)]
  BY DEF Allocate, HitTable, OldTable, FromToken, ToToken, Taken, MoreTable, AllTable, Full,
         HashAfter

(* A state of the scheduler in which r can be allocated its next tokens.    *)
Ready(a, r) ==
    /\ prompt \in [Req -> Prompts]
    /\ a \in [table : [Req -> Seq(Blocks)], hash : [Blocks -> 0 .. Longest],
              computed : [Req -> Nat], from : [Req -> Nat]]
    /\ \A q \in Req : Len(a.table[q]) <= Longest
    /\ r \in Req /\ a.computed[r] < prompt[r]
    /\ Len(a.table[r]) = BlocksOf(a.computed[r])
    /\ \A i, j \in DOMAIN a.table[r] : a.table[r][i] = a.table[r][j] => i = j

LEMMA PromptFacts ==
    ASSUME prompt \in [Req -> Prompts], NEW r \in Req
    PROVE  /\ prompt[r] \in Nat \ {0} /\ Prompts # {}
           /\ Longest \in Nat /\ N * Longest <= NBlocks
           /\ prompt[r] <= Max(Prompts) /\ Max(Prompts) \in Nat
           /\ \A t \in Nat : t <= prompt[r] => BlocksOf(t) <= Longest
  <1>1. prompt[r] \in Prompts
    OBVIOUS
  <1>2. Max(Prompts) \in Prompts /\ prompt[r] <= Max(Prompts)
        /\ Longest \in Nat /\ N * Longest <= NBlocks
    BY <1>1, LongestPrompt DEF Longest
  <1>3. ASSUME NEW t \in Nat, t <= prompt[r] PROVE BlocksOf(t) <= Longest
    <2> DEFINE m == Max(Prompts)
    <2>a. m \in Nat /\ prompt[r] \in Nat /\ prompt[r] <= m
      BY <1>1, <1>2, Constants
    <2> HIDE DEF m
    <2>b. t <= m
      BY <1>3, <2>a
    <2>1. t <= Max(Prompts) /\ Max(Prompts) \in Nat
      BY <2>a, <2>b DEF m
    <2> QED
      BY <2>1, BlockCount DEF Longest
  <1> QED
    BY <1>1, <1>2, <1>3, Constants

(* The prefix hit leaves the prompt's last token to be computed, and its    *)
(* i-th block is found under i.                                             *)
LEMMA HitFacts ==
    ASSUME NEW a, NEW r, Ready(a, r)
    PROVE  /\ HitTable(a, r) \in Seq(Blocks)
           /\ Len(HitTable(a, r)) * BlockSize < prompt[r]
           /\ \A i \in 1 .. Len(HitTable(a, r)) : a.hash[HitTable(a, r)[i]] = i
  <1> DEFINE n == (prompt[r] - 1) \div BlockSize
             T == {k \in 0 .. n : \A i \in 1 .. k : \E b \in Blocks : a.hash[b] = i}
             H == HitBlocks(a.hash, r)
             found(i) == {b \in Blocks : a.hash[b] = i}
  <1>1. prompt[r] \in Nat \ {0} /\ prompt[r] - 1 \in Nat
    BY PromptFacts DEF Ready
  <1>2. n \in Nat
    BY <1>1, Constants, Division
  <1>3. 0 \in T /\ T \subseteq 0 .. n
    BY <1>2
  <1>4. H \in T
    BY <1>2, <1>3, MaxFacts DEF HitBlocks
  <1>5. H \in Nat /\ H <= n /\ \A i \in 1 .. H : found(i) # {}
    BY <1>2, <1>4
  <1>6. H * BlockSize <= prompt[r] - 1 /\ H * BlockSize \in Nat
    BY <1>1, <1>5, Constants, Quotient, Products
  <1>7. ASSUME NEW i \in 1 .. H PROVE Min(found(i)) \in Blocks /\ a.hash[Min(found(i))] = i
    <2>1. found(i) # {} /\ found(i) \subseteq Nat
      BY <1>5, Constants
    <2>2. Min(found(i)) \in found(i)
      BY <2>1, MinFacts
    <2> QED
      BY <2>2
  <1>8. HitTable(a, r) = [i \in 1 .. H |-> Min(found(i))]
    BY DEF HitTable
  <1> HIDE DEF H, found
  <1>9. HitTable(a, r) \in [1 .. H -> Blocks]
    BY <1>7, <1>8
  <1>10. HitTable(a, r) \in Seq(Blocks) /\ Len(HitTable(a, r)) = H
    BY <1>5, <1>9
  <1>11. Len(HitTable(a, r)) * BlockSize < prompt[r]
    BY <1>1, <1>6, <1>10
  <1>12. \A i \in 1 .. H : a.hash[HitTable(a, r)[i]] = i
    BY <1>7, <1>8
  <1> QED
    BY <1>10, <1>11, <1>12

LEMMA OldFacts ==
    ASSUME NEW a, NEW r, Ready(a, r)
    PROVE  /\ OldTable(a, r) \in Seq(Blocks) /\ FromToken(a, r) \in Nat
           /\ FromToken(a, r) < prompt[r]
           /\ Len(OldTable(a, r)) = BlocksOf(FromToken(a, r))
           /\ \A i, j \in 1 .. Len(OldTable(a, r)) :
                OldTable(a, r)[i] = OldTable(a, r)[j] => i = j
           /\ a.computed[r] = 0 =>
                /\ a.table[r] = << >> /\ FromToken(a, r) = Len(OldTable(a, r)) * BlockSize
                /\ \A i \in 1 .. Len(OldTable(a, r)) : a.hash[OldTable(a, r)[i]] = i
           /\ a.computed[r] # 0 => OldTable(a, r) = a.table[r] /\ FromToken(a, r) = a.computed[r]
  <1>1. a.computed[r] \in Nat /\ a.table[r] \in Seq(Blocks) /\ prompt[r] \in Nat \ {0}
    BY PromptFacts DEF Ready
  <1>2. CASE a.computed[r] = 0
    <2> DEFINE h == HitTable(a, r)
    <2>1. OldTable(a, r) = h /\ FromToken(a, r) = Len(h) * BlockSize
      BY <1>2 DEF OldTable, FromToken
    <2>2. /\ h \in Seq(Blocks) /\ Len(h) * BlockSize < prompt[r]
          /\ \A i \in 1 .. Len(h) : a.hash[h[i]] = i
      BY HitFacts
    <2>3. Len(h) \in Nat /\ Len(h) * BlockSize \in Nat /\ BlocksOf(Len(h) * BlockSize) = Len(h)
      BY <2>2, Constants, Products, BlockCount
    <2>4. a.table[r] = << >>
      <3>1. Len(a.table[r]) = 0
        BY <1>2, BlockCount DEF Ready
      <3> QED
        BY <1>1, <3>1
    <2> HIDE DEF h
    <2>5. \A i, j \in 1 .. Len(h) : h[i] = h[j] => i = j
      BY <2>2
    <2> QED
      BY <1>2, <2>1, <2>2, <2>3, <2>4, <2>5
  <1>3. CASE a.computed[r] # 0
    <2>1. OldTable(a, r) = a.table[r] /\ FromToken(a, r) = a.computed[r]
      BY <1>3 DEF OldTable, FromToken
    <2>2. DOMAIN a.table[r] = 1 .. Len(a.table[r])
      BY <1>1
    <2> QED
      BY <1>1, <1>3, <2>1, <2>2 DEF Ready
  <1> QED
    BY <1>2, <1>3

LEMMA ToFacts ==
    ASSUME NEW a, NEW r, Ready(a, r)
    PROVE  /\ ToToken(a, r) \in Nat /\ FromToken(a, r) < ToToken(a, r)
           /\ ToToken(a, r) <= prompt[r]
           /\ BlocksOf(ToToken(a, r)) \in Nat /\ BlocksOf(ToToken(a, r)) <= Longest
           /\ Len(OldTable(a, r)) <= BlocksOf(ToToken(a, r))
  <1>1. /\ FromToken(a, r) \in Nat /\ FromToken(a, r) < prompt[r] /\ prompt[r] \in Nat
        /\ Len(OldTable(a, r)) = BlocksOf(FromToken(a, r))
    BY OldFacts, PromptFacts DEF Ready
  <1> DEFINE T == {FromToken(a, r) + Chunk, prompt[r]}
  <1>2. T \subseteq Nat /\ T # {}
    BY <1>1, Constants
  <1>3. Min(T) \in T /\ Min(T) <= prompt[r]
    BY <1>2, MinFacts
  <1>4. ToToken(a, r) = Min(T)
    BY DEF ToToken
  <1>5. ToToken(a, r) \in Nat /\ FromToken(a, r) < ToToken(a, r) /\ ToToken(a, r) <= prompt[r]
    BY <1>1, <1>3, <1>4, Constants
  <1>6. BlocksOf(ToToken(a, r)) \in Nat /\ BlocksOf(ToToken(a, r)) <= Longest
    BY <1>5, PromptFacts, BlockCount DEF Ready
  <1>7. BlocksOf(FromToken(a, r)) <= BlocksOf(ToToken(a, r))
    BY <1>1, <1>5, BlockCount
  <1> QED
    BY <1>1, <1>5, <1>6, <1>7

(* The pool has room: the blocks of N requests at most, none of which is    *)
(* longer than the longest prompt.                                          *)
LEMMA TakenFacts ==
    ASSUME NEW a, NEW r, Ready(a, r)
    PROVE  /\ Taken(a, r) \subseteq Blocks
           /\ Cardinality(Taken(a, r)) + (BlocksOf(ToToken(a, r)) - Len(OldTable(a, r))) <= NBlocks
  <1> DEFINE old == OldTable(a, r)
             held == [a.table EXCEPT ![r] = old]
             k == Len(old)
             others == (Req \ {r}) \X (1 .. Longest)
             mine == {r} \X (1 .. k)
             places == {x \in others \cup mine : x[2] <= Len(held[x[1]])}
             g == [x \in places |-> held[x[1]][x[2]]]
             image == {g[x] : x \in places}
  <1>a. old \in Seq(Blocks)
    BY OldFacts
  <1>b. r \in Req /\ a.table \in [Req -> Seq(Blocks)]
    BY DEF Ready
  <1>1. old \in Seq(Blocks) /\ k \in Nat /\ r \in Req /\ a.table \in [Req -> Seq(Blocks)]
    BY <1>a, <1>b
  <1>2. held \in [Req -> Seq(Blocks)] /\ held[r] = old
        /\ \A q \in Req \ {r} : held[q] = a.table[q] /\ Len(held[q]) <= Longest
    BY <1>1 DEF Ready
  <1>3. ToSet(a.table[r]) \subseteq ToSet(old)
    BY <1>1, OldFacts DEF ToSet
  <1>4. Taken(a, r) \subseteq image
    <2> SUFFICES ASSUME NEW b \in Taken(a, r) PROVE b \in image
      OBVIOUS
    <2>1. \E q \in Req : b \in ToSet(held[q])
      <3>1. CASE b \in ToSet(old)
        BY <1>1, <1>2, <3>1
      <3>2. CASE b \notin ToSet(old)
        <4>1. PICK q \in Req : b \in ToSet(a.table[q])
          BY <3>2, Zenon DEF Taken
        <4>2. q # r
          BY <1>3, <3>2, <4>1
        <4> QED
          BY <1>2, <4>1, <4>2
      <3> QED
        BY <3>1, <3>2
    <2>2. PICK q \in Req : b \in ToSet(held[q])
      BY <2>1
    <2>3. PICK i \in 1 .. Len(held[q]) : b = held[q][i]
      BY <1>2, <2>2 DEF ToSet
    <2>4. <<q, i>> \in places
      <3>1. CASE q = r
        BY <1>2, <2>3, <3>1
      <3>2. CASE q # r
        <4>1. i \in 1 .. Longest
          <5>1. Len(held[q]) \in Nat /\ Len(held[q]) <= Longest /\ Longest \in Nat
            BY <1>2, <3>2, PromptFacts DEF Ready
          <5> QED
            BY <2>3, <5>1
        <4> QED
          BY <2>3, <3>2, <4>1
      <3> QED
        BY <3>1, <3>2
    <2>5. g[<<q, i>>] = b
      BY <2>3, <2>4
    <2> QED
      BY <2>4, <2>5
  <1>5. image \subseteq Blocks
    <2> SUFFICES ASSUME NEW x \in places PROVE held[x[1]][x[2]] \in Blocks
      OBVIOUS
    <2>1. x[1] \in Req /\ x[2] \in Nat \ {0} /\ x[2] <= Len(held[x[1]])
      BY <1>1, PromptFacts DEF Ready
    <2> QED
      BY <1>2, <2>1
  <1>6. /\ IsFiniteSet(others) /\ Cardinality(others) = (N - 1) * Longest
        /\ IsFiniteSet(mine) /\ Cardinality(mine) = 1 * k
    <2>1. IsFiniteSet(Req) /\ Cardinality(Req) = N
      BY Constants, FS_Interval
    <2>2. IsFiniteSet(Req \ {r}) /\ Cardinality(Req \ {r}) = N - 1
      BY <1>1, <2>1, FS_RemoveElement
    <2>3. Longest \in Nat
      BY PromptFacts DEF Ready
    <2>4. IsFiniteSet(1 .. Longest) /\ Cardinality(1 .. Longest) = Longest
      BY <2>3, FS_Interval
    <2> HIDE DEF k
    <2>5. IsFiniteSet(1 .. k) /\ Cardinality(1 .. k) = k
      BY <1>1, FS_Interval
    <2>6. IsFiniteSet({r}) /\ Cardinality({r}) = 1
      BY FS_Singleton
    <2>7. IsFiniteSet(others)
          /\ Cardinality(others) = Cardinality(Req \ {r}) * Cardinality(1 .. Longest)
      BY <2>2, <2>4, FS_Product
    <2>8. IsFiniteSet(mine) /\ Cardinality(mine) = Cardinality({r}) * Cardinality(1 .. k)
      BY <2>5, <2>6, FS_Product
    <2> HIDE DEF others, mine
    <2> QED
      BY <2>2, <2>4, <2>5, <2>6, <2>7, <2>8, Zenon
  <1>7. IsFiniteSet(places) /\ Cardinality(places) <= (N - 1) * Longest + k
    <2>1. others \cap mine = {}
      OBVIOUS
    <2>2. Cardinality(others \cap mine) = 0
      BY <2>1, FS_EmptySet
    <2>3. IsFiniteSet(others \cup mine)
          /\ Cardinality(others \cup mine) =
               Cardinality(others) + Cardinality(mine) - Cardinality(others \cap mine)
      BY <1>6, FS_Union
    <2>4. Cardinality(others) \in Nat /\ Cardinality(mine) \in Nat
      BY <1>6, FS_CardinalityType
    <2>5. places \subseteq others \cup mine
      OBVIOUS
    <2>6. IsFiniteSet(places) /\ Cardinality(places) <= Cardinality(others \cup mine)
      BY <2>3, <2>5, FS_Subset
    <2>7. 1 * k = k
      BY <1>1
    <2> HIDE DEF k
    <2> QED
      BY <1>6, <2>2, <2>3, <2>4, <2>6, <2>7
  <1>8. Cardinality(Taken(a, r)) <= Cardinality(places)
    <2>1. g \in Surjection(places, image)
      BY DEF Surjection
    <2>2. IsFiniteSet(image) /\ Cardinality(image) <= Cardinality(places)
      BY <1>7, <2>1, FS_Surjection
    <2>3. IsFiniteSet(Taken(a, r)) /\ Cardinality(Taken(a, r)) <= Cardinality(image)
      BY <1>4, <2>2, FS_Subset
    <2>4. /\ Cardinality(image) \in Nat /\ Cardinality(Taken(a, r)) \in Nat
          /\ Cardinality(places) \in Nat
      BY <1>7, <2>2, <2>3, FS_CardinalityType
    <2> QED
      BY <2>2, <2>3, <2>4
  <1>9. (N - 1) * Longest + Longest <= NBlocks /\ (N - 1) * Longest \in Nat /\ Longest \in Nat
    <2>1. Longest \in Nat /\ N * Longest <= NBlocks /\ N - 1 \in Nat
      BY PromptFacts, Constants DEF Ready
    <2>2. ((N - 1) + 1) * Longest = (N - 1) * Longest + Longest /\ (N - 1) * Longest \in Nat
      BY <2>1, Products
    <2>3. (N - 1) + 1 = N
      BY Constants
    <2> QED
      BY <2>1, <2>2, <2>3
  <1>10. /\ BlocksOf(ToToken(a, r)) \in Nat /\ BlocksOf(ToToken(a, r)) <= Longest
         /\ k <= BlocksOf(ToToken(a, r))
    BY ToFacts
  <1>11. Taken(a, r) \subseteq Blocks
    BY <1>4, <1>5
  <1>12. Cardinality(Taken(a, r)) \in Nat /\ Cardinality(places) \in Nat
    BY <1>7, <1>11, BlockSets, FS_CardinalityType
  <1>13. Cardinality(Taken(a, r)) + (BlocksOf(ToToken(a, r)) - k) <= NBlocks
    <2> HIDE DEF k, places
    <2> QED
      BY <1>1, <1>7, <1>8, <1>9, <1>10, <1>12, Constants
  <1> QED
    BY <1>11, <1>13

LEMMA MoreFacts ==
    ASSUME NEW a, NEW r, Ready(a, r)
    PROVE  /\ MoreTable(a, r) \in Seq(Blocks)
           /\ Len(MoreTable(a, r)) = BlocksOf(ToToken(a, r)) - Len(OldTable(a, r))
           /\ \A i \in 1 .. Len(MoreTable(a, r)) :
                /\ MoreTable(a, r)[i] \notin ToSet(OldTable(a, r))
                /\ \A q \in Req : MoreTable(a, r)[i] \notin ToSet(a.table[q])
           /\ \A i, j \in 1 .. Len(MoreTable(a, r)) :
                MoreTable(a, r)[i] = MoreTable(a, r)[j] => i = j
  <1> DEFINE n == BlocksOf(ToToken(a, r)) - Len(OldTable(a, r))
             held == Taken(a, r)
             more == FreeBlocks(a.hash, held, n)
  <1>1. n \in Nat
    BY OldFacts, ToFacts
  <1>2. held \subseteq Blocks /\ Cardinality(held) + n <= NBlocks
    BY TakenFacts
  <1>3. MoreTable(a, r) = more
    BY DEF MoreTable
  <1> HIDE DEF n, held
  <1>4. /\ more \in Seq(Blocks \ held) /\ Len(more) = n
        /\ \A i, j \in 1 .. n : more[i] = more[j] => i = j
    BY <1>1, <1>2, FreeBlocksFacts
  <1> HIDE DEF more
  <1>5. \A i \in 1 .. n : more[i] \in Blocks \ held
    BY <1>1, <1>4
  <1>6. more \in Seq(Blocks)
    BY <1>4, SeqMonotonic
  <1>7. \A b \in Blocks \ held : b \notin ToSet(OldTable(a, r)) /\ \A q \in Req : b \notin ToSet(a.table[q])
    <2> SUFFICES ASSUME NEW b \in Blocks \ held
                 PROVE  b \notin ToSet(OldTable(a, r)) /\ \A q \in Req : b \notin ToSet(a.table[q])
      OBVIOUS
    <2>1. b \notin UNION {ToSet(a.table[q]) : q \in Req} /\ b \notin ToSet(OldTable(a, r))
      BY Zenon DEF held, Taken
    <2>2. ASSUME NEW q \in Req PROVE b \notin ToSet(a.table[q])
      BY <2>1
    <2> QED
      BY <2>1, <2>2
  <1> QED
    BY <1>3, <1>4, <1>5, <1>6, <1>7 DEF n

(* What the request holds afterwards: what it held, or its hit, and blocks  *)
(* that nobody held.                                                        *)
LEMMA AllFacts ==
    ASSUME NEW a, NEW r, Ready(a, r)
    PROVE  /\ AllTable(a, r) \in Seq(Blocks)
           /\ Len(AllTable(a, r)) = BlocksOf(ToToken(a, r))
           /\ \A i, j \in DOMAIN AllTable(a, r) :
                AllTable(a, r)[i] = AllTable(a, r)[j] => i = j
           /\ \A i \in DOMAIN a.table[r] :
                i \in DOMAIN AllTable(a, r) /\ AllTable(a, r)[i] = a.table[r][i]
           /\ \A i \in DOMAIN AllTable(a, r) :
                \/ /\ i * BlockSize > FromToken(a, r)
                   /\ AllTable(a, r)[i] \in ToSet(MoreTable(a, r))
                   /\ ~((i - 1) * BlockSize < FromToken(a, r))
                   /\ \A q \in Req : AllTable(a, r)[i] \notin ToSet(a.table[q])
                \/ /\ AllTable(a, r)[i] \notin ToSet(MoreTable(a, r))
                   /\ a.computed[r] # 0 /\ FromToken(a, r) = a.computed[r]
                   /\ i \in DOMAIN a.table[r] /\ AllTable(a, r)[i] = a.table[r][i]
                \/ /\ AllTable(a, r)[i] \notin ToSet(MoreTable(a, r))
                   /\ a.computed[r] = 0 /\ i * BlockSize <= FromToken(a, r)
                   /\ a.hash[AllTable(a, r)[i]] = i
  <1> DEFINE old == OldTable(a, r)
             more == MoreTable(a, r)
             all == AllTable(a, r)
             from == FromToken(a, r)
             to == ToToken(a, r)
             k == Len(old)
             m == Len(more)
  <1>1. /\ old \in Seq(Blocks) /\ from \in Nat /\ k = BlocksOf(from)
        /\ \A i, j \in 1 .. k : old[i] = old[j] => i = j
        /\ a.computed[r] = 0 => /\ a.table[r] = << >> /\ from = k * BlockSize
                                /\ \A i \in 1 .. k : a.hash[old[i]] = i
        /\ a.computed[r] # 0 => old = a.table[r] /\ from = a.computed[r]
    BY OldFacts
  <1>2. to \in Nat /\ BlocksOf(to) \in Nat /\ k <= BlocksOf(to)
    BY ToFacts
  <1>3. /\ more \in Seq(Blocks) /\ m = BlocksOf(to) - k
        /\ \A i \in 1 .. m : /\ more[i] \notin ToSet(old)
                             /\ \A q \in Req : more[i] \notin ToSet(a.table[q])
        /\ \A i, j \in 1 .. m : more[i] = more[j] => i = j
    BY MoreFacts
  <1>4. all = old \o more
    BY DEF AllTable
  <1>t. a.table[r] \in Seq(Blocks)
    BY DEF Ready
  <1> HIDE DEF old, more, all, from, to
  <1>5. /\ all \in Seq(Blocks) /\ Len(all) = k + m /\ DOMAIN all = 1 .. k + m
        /\ k \in Nat /\ m \in Nat
        /\ \A i \in 1 .. k : all[i] = old[i]
        /\ \A i \in 1 .. k + m : i > k => all[i] = more[i - k]
    <2>1. k \in Nat /\ m \in Nat
      BY <1>1, <1>3
    <2>0. old \in Seq(Blocks) /\ more \in Seq(Blocks)
      BY <1>1, <1>3
    <2>2. all \in Seq(Blocks)
      BY <2>0, <1>4, ConcatProperties
    <2>3. Len(all) = k + m
      BY <2>0, <1>4, ConcatProperties
    <2>4. \A i \in 1 .. k + m : all[i] = IF i <= k THEN old[i] ELSE more[i - k]
      BY <2>0, <1>4, ConcatProperties
    <2> HIDE DEF k, m
    <2>5. DOMAIN all = 1 .. k + m
      BY <2>2, <2>3
    <2>6. \A i \in 1 .. k : all[i] = old[i]
      BY <2>1, <2>4
    <2>7. \A i \in 1 .. k + m : i > k => all[i] = more[i - k]
      BY <2>1, <2>4
    <2> QED
      BY <2>1, <2>2, <2>3, <2>5, <2>6, <2>7
  <1>6. Len(all) = BlocksOf(to)
    BY <1>2, <1>3, <1>5
  <1>7. ASSUME NEW i \in 1 .. k + m
        PROVE  \/ i \in 1 .. k /\ all[i] = old[i] /\ all[i] \in ToSet(old)
               \/ i > k /\ i - k \in 1 .. m /\ all[i] = more[i - k] /\ all[i] \in ToSet(more)
    <2>1. CASE i <= k
      <3>1. i \in DOMAIN old /\ i \in 1 .. k
        BY <1>1, <1>5, <2>1
      <3> QED
        BY <1>5, <3>1 DEF ToSet
    <2>2. CASE i > k
      <3>1. i - k \in DOMAIN more /\ i - k \in 1 .. m
        BY <1>3, <1>5, <2>2
      <3> QED
        BY <1>5, <2>2, <3>1 DEF ToSet
    <2> QED
      BY <1>5, <2>1, <2>2
  <1>8. \A b \in ToSet(more) : b \notin ToSet(old) /\ \A q \in Req : b \notin ToSet(a.table[q])
    BY <1>3 DEF ToSet
  <1> HIDE DEF k, m
  <1>9. ASSUME NEW i \in 1 .. k + m, NEW j \in 1 .. k + m, all[i] = all[j] PROVE i = j
    <2>1. CASE i \in 1 .. k /\ j \in 1 .. k
      BY <1>1, <1>7, <1>5, <1>9, <2>1
    <2>2. CASE i > k /\ j > k
      <3>1. i - k \in 1 .. m /\ j - k \in 1 .. m /\ more[i - k] = more[j - k]
        BY <1>5, <1>9, <2>2
      <3>2. i - k = j - k
        BY <1>3, <3>1
      <3> QED
        BY <1>5, <3>2
    <2>3. CASE i \in 1 .. k /\ j > k
      <3>1. all[i] \in ToSet(old) /\ all[j] \in ToSet(more)
        BY <1>7, <1>5, <2>3
      <3> QED
        BY <1>8, <1>9, <3>1
    <2>4. CASE i > k /\ j \in 1 .. k
      <3>1. all[j] \in ToSet(old) /\ all[i] \in ToSet(more)
        BY <1>7, <1>5, <2>4
      <3> QED
        BY <1>8, <1>9, <3>1
    <2> QED
      BY <1>5, <2>1, <2>2, <2>3, <2>4
  <1>10. ASSUME NEW i \in DOMAIN a.table[r] PROVE i \in 1 .. k + m /\ all[i] = a.table[r][i]
    <2>1. a.computed[r] # 0 /\ old = a.table[r]
      <3>1. a.table[r] # << >>
        BY <1>10, <1>t
      <3> QED
        BY <1>1, <3>1
    <2>2. i \in 1 .. k
      BY <1>1, <2>1, <1>10 DEF k
    <2> QED
      BY <1>5, <2>1, <2>2
  <1>11. ASSUME NEW i \in 1 .. k + m, i > k
         PROVE  i * BlockSize > from /\ ~((i - 1) * BlockSize < from)
    <2>1. i \in Nat \ {0} /\ ~(i <= k) /\ i - 1 \in Nat
      BY <1>5, <1>11
    <2>2. ~((i - 1) * BlockSize < from)
      BY <1>1, <2>1, BelowToken
    <2>3. ((i - 1) + 1) * BlockSize = (i - 1) * BlockSize + BlockSize /\ (i - 1) * BlockSize \in Nat
      BY <2>1, Products, Constants
    <2>4. (i - 1) + 1 = i
      BY <2>1
    <2> QED
      BY <1>1, <2>2, <2>3, <2>4, Constants
  <1>12. ASSUME NEW i \in 1 .. k, a.computed[r] = 0 PROVE i * BlockSize <= from
    <2>1. from = k * BlockSize
      BY <1>1, <1>12 DEF k
    <2>2. i * BlockSize <= k * BlockSize
      BY <1>5, Constants, ProductOrder
    <2> QED
      BY <2>1, <2>2
  <1>13. ASSUME NEW i \in 1 .. k
         PROVE  \/ /\ a.computed[r] # 0 /\ from = a.computed[r]
                   /\ i \in DOMAIN a.table[r] /\ all[i] = a.table[r][i]
                \/ /\ a.computed[r] = 0 /\ i * BlockSize <= from
                   /\ a.hash[all[i]] = i
    <2>1. i \in DOMAIN old
      BY <1>1 DEF k
    <2>2. CASE a.computed[r] # 0
      BY <1>1, <1>5, <2>1, <2>2
    <2>3. CASE a.computed[r] = 0
      BY <1>1, <1>5, <1>12, <2>3 DEF k
    <2> QED
      BY <2>2, <2>3
  <1>14. ASSUME NEW i \in 1 .. k + m
         PROVE  \/ /\ i * BlockSize > from /\ all[i] \in ToSet(more)
                   /\ ~((i - 1) * BlockSize < from)
                   /\ \A q \in Req : all[i] \notin ToSet(a.table[q])
                \/ /\ all[i] \notin ToSet(more)
                   /\ a.computed[r] # 0 /\ from = a.computed[r]
                   /\ i \in DOMAIN a.table[r] /\ all[i] = a.table[r][i]
                \/ /\ all[i] \notin ToSet(more)
                   /\ a.computed[r] = 0 /\ i * BlockSize <= from
                   /\ a.hash[all[i]] = i
    <2>1. CASE i \in 1 .. k /\ all[i] \in ToSet(old)
      <3>1. all[i] \notin ToSet(more)
        BY <1>8, <2>1
      <3> QED
        BY <1>13, <2>1, <3>1
    <2>2. CASE i > k /\ all[i] \in ToSet(more)
      BY <1>8, <1>11, <2>2
    <2> QED
      BY <1>7, <2>1, <2>2
  <1>15. DOMAIN all = 1 .. k + m
    BY <1>5
  <1> QED
    BY <1>5, <1>6, <1>9, <1>10, <1>14, <1>15 DEF old, more, all, from, to

(* What r's tokens of the step are written into, and computed over; the     *)
(* blocks that can be reached; and SharedOK halfway through a step.         *)
Filled(a, r) == {a.table[r][i] : i \in {j \in DOMAIN a.table[r] : j * BlockSize > a.from[r]}}
Used(a, r) == {a.table[r][i] : i \in {j \in DOMAIN a.table[r] : (j - 1) * BlockSize < a.from[r]}}
HeldIn(a, b) == a.hash[b] # 0 \/ \E r \in Req : b \in ToSet(a.table[r])
Unshared(a) ==
    \A r \in Req : \A i \in DOMAIN a.table[r] : i * BlockSize > a.computed[r] =>
        /\ a.hash[a.table[r][i]] = 0
        /\ \A q \in Req \ {r} : a.table[r][i] \notin ToSet(a.table[q])

LEMMA AllocateShape ==
    ASSUME NEW a, NEW r, Ready(a, r)
    PROVE  LET c == Allocate(a, r) IN
           /\ c \in [table : [Req -> Seq(Blocks)], hash : [Blocks -> 0 .. Longest],
                     computed : [Req -> Nat], from : [Req -> Nat]]
           /\ c.table[r] = AllTable(a, r) /\ c.from[r] = FromToken(a, r)
           /\ c.computed[r] = ToToken(a, r) /\ c.hash = HashAfter(a, r)
           /\ \A q \in Req \ {r} : /\ c.table[q] = a.table[q] /\ c.from[q] = a.from[q]
                                   /\ c.computed[q] = a.computed[q]
  <1> DEFINE c == [a EXCEPT !.table[r] = AllTable(a, r), !.from[r] = FromToken(a, r),
                            !.computed[r] = ToToken(a, r), !.hash = HashAfter(a, r)]
  <1>1. Allocate(a, r) = c
    BY AllocateIs
  <1>2. r \in Req
    BY DEF Ready
  <1>3. a \in [table : [Req -> Seq(Blocks)], hash : [Blocks -> 0 .. Longest],
               computed : [Req -> Nat], from : [Req -> Nat]]
    BY DEF Ready
  <1>4. AllTable(a, r) \in Seq(Blocks) /\ FromToken(a, r) \in Nat /\ ToToken(a, r) \in Nat
    BY AllFacts, OldFacts, ToFacts
  <1>5. HashAfter(a, r) \in [Blocks -> 0 .. Longest]
    <2>1. Len(AllTable(a, r)) \in Nat /\ Len(AllTable(a, r)) <= Longest /\ Longest \in Nat
      <3>1. BlocksOf(ToToken(a, r)) \in Nat /\ BlocksOf(ToToken(a, r)) <= Longest
        BY ToFacts
      <3>2. Len(AllTable(a, r)) = BlocksOf(ToToken(a, r)) /\ Longest \in Nat
        BY AllFacts, PromptFacts DEF Ready
      <3> QED
        BY <3>1, <3>2
    <2>2. Full(a, r) \subseteq 0 .. Longest
      BY <2>1 DEF Full
    <2>3. 0 \in 0 .. Longest /\ \A b \in Blocks : a.hash[b] \in 0 .. Longest
      BY <1>3, <2>1
    <2>4. ASSUME NEW b \in Blocks PROVE HashAfter(a, r)[b] \in 0 .. Longest
      <3>1. CASE \E i \in Full(a, r) : AllTable(a, r)[i] = b
        <4> DEFINE i == CHOOSE i \in Full(a, r) : AllTable(a, r)[i] = b
        <4>1. i \in Full(a, r)
          BY <3>1, Zenon
        <4>2. HashAfter(a, r)[b] = i
          BY <3>1, Zenon DEF HashAfter
        <4> HIDE DEF i
        <4> QED
          BY <2>2, <4>1, <4>2
      <3>2. CASE ~\E i \in Full(a, r) : AllTable(a, r)[i] = b
        <4>1. HashAfter(a, r)[b] = IF b \in ToSet(MoreTable(a, r)) THEN 0 ELSE a.hash[b]
          BY <3>2, Zenon DEF HashAfter
        <4> QED
          BY <2>3, <4>1
      <3> QED
        BY <3>1, <3>2
    <2>5. HashAfter(a, r) = [b \in Blocks |-> HashAfter(a, r)[b]]
      BY Zenon DEF HashAfter
    <2> QED
      BY <2>4, <2>5
  <1>6. /\ c.table = [a.table EXCEPT ![r] = AllTable(a, r)]
        /\ c.from = [a.from EXCEPT ![r] = FromToken(a, r)]
        /\ c.computed = [a.computed EXCEPT ![r] = ToToken(a, r)]
        /\ c.hash = HashAfter(a, r)
        /\ c = [table |-> c.table, hash |-> c.hash, computed |-> c.computed, from |-> c.from]
    <2> DEFINE T == AllTable(a, r)
               F == FromToken(a, r)
               C == ToToken(a, r)
               H == HashAfter(a, r)
    <2> HIDE DEF T, F, C, H
    <2>1. c = [a EXCEPT !.table[r] = T, !.from[r] = F, !.computed[r] = C, !.hash = H]
      BY DEF T, F, C, H
    <2>2. a = [table |-> a.table, hash |-> a.hash, computed |-> a.computed, from |-> a.from]
      BY <1>3
    <2> HIDE DEF c
    <2>3. c = [table |-> [a.table EXCEPT ![r] = T], hash |-> H,
               computed |-> [a.computed EXCEPT ![r] = C], from |-> [a.from EXCEPT ![r] = F]]
      BY <2>1, <2>2
    <2> QED
      BY <2>3 DEF T, F, C, H
  <1> HIDE DEF c
  <1>7. /\ c.table \in [Req -> Seq(Blocks)] /\ c.from \in [Req -> Nat]
        /\ c.computed \in [Req -> Nat] /\ c.hash \in [Blocks -> 0 .. Longest]
    BY <1>2, <1>3, <1>4, <1>5, <1>6
  <1>8. c \in [table : [Req -> Seq(Blocks)], hash : [Blocks -> 0 .. Longest],
               computed : [Req -> Nat], from : [Req -> Nat]]
    BY <1>6, <1>7
  <1>9. /\ c.table[r] = AllTable(a, r) /\ c.from[r] = FromToken(a, r)
        /\ c.computed[r] = ToToken(a, r)
        /\ \A q \in Req \ {r} : /\ c.table[q] = a.table[q] /\ c.from[q] = a.from[q]
                                /\ c.computed[q] = a.computed[q]
    BY <1>2, <1>3, <1>6
  <1> QED
    BY <1>1, <1>6, <1>8, <1>9

(* The prefix cache afterwards: full blocks of r under their index, new     *)
(* blocks that are not full under none, all others as before.               *)
LEMMA HashFacts ==
    ASSUME NEW a, NEW r, Ready(a, r), NEW b \in Blocks
    PROVE  \/ \E i \in DOMAIN AllTable(a, r) :
                /\ AllTable(a, r)[i] = b /\ i * BlockSize <= ToToken(a, r)
                /\ HashAfter(a, r)[b] = i
           \/ /\ ~\E i \in DOMAIN AllTable(a, r) :
                    AllTable(a, r)[i] = b /\ i * BlockSize <= ToToken(a, r)
              /\ HashAfter(a, r)[b] = IF b \in ToSet(MoreTable(a, r)) THEN 0 ELSE a.hash[b]
  <1>1. DOMAIN AllTable(a, r) = 1 .. Len(AllTable(a, r))
    BY AllFacts
  <1>2. Full(a, r) = {i \in DOMAIN AllTable(a, r) : i * BlockSize <= ToToken(a, r)}
    BY <1>1 DEF Full
  <1>3. CASE \E i \in Full(a, r) : AllTable(a, r)[i] = b
    <2> DEFINE i == CHOOSE i \in Full(a, r) : AllTable(a, r)[i] = b
    <2>1. i \in Full(a, r) /\ AllTable(a, r)[i] = b
      BY <1>3, Zenon
    <2>2. HashAfter(a, r)[b] = i
      BY <1>3, Zenon DEF HashAfter
    <2> HIDE DEF i
    <2> QED
      BY <1>2, <2>1, <2>2
  <1>4. CASE ~\E i \in Full(a, r) : AllTable(a, r)[i] = b
    <2>1. HashAfter(a, r)[b] = IF b \in ToSet(MoreTable(a, r)) THEN 0 ELSE a.hash[b]
      BY <1>4, Zenon DEF HashAfter
    <2> QED
      BY <1>2, <1>4, <2>1
  <1> QED
    BY <1>3, <1>4

LEMMA AllocateFacts ==
    ASSUME NEW a, NEW r, Ready(a, r), Unshared(a), NEW c, c = Allocate(a, r)
    PROVE  /\ Len(c.table[r]) = BlocksOf(c.computed[r]) /\ Len(c.table[r]) <= Longest
           /\ c.from[r] < c.computed[r] /\ c.computed[r] <= prompt[r]
           /\ \A i, j \in DOMAIN c.table[r] : c.table[r][i] = c.table[r][j] => i = j
           /\ \A i \in DOMAIN a.table[r] :
                i \in DOMAIN c.table[r] /\ c.table[r][i] = a.table[r][i]
           /\ a.computed[r] # 0 => c.from[r] = a.computed[r]
           /\ \A b \in Filled(c, r) : \A q \in Req \ {r} : b \notin ToSet(c.table[q])
           /\ \A b \in Used(c, r) : HeldIn(a, b)
           /\ \A b \in Blocks : HeldIn(c, b) => HeldIn(a, b) \/ b \in Filled(c, r)
           /\ Unshared(c)
  <1> DEFINE all == AllTable(a, r)
             more == MoreTable(a, r)
             from == FromToken(a, r)
             to == ToToken(a, r)
  <1>1. /\ c \in [table : [Req -> Seq(Blocks)], hash : [Blocks -> 0 .. Longest],
                  computed : [Req -> Nat], from : [Req -> Nat]]
        /\ c.table[r] = all /\ c.from[r] = from /\ c.computed[r] = to
        /\ c.hash = HashAfter(a, r)
        /\ \A q \in Req \ {r} : /\ c.table[q] = a.table[q] /\ c.from[q] = a.from[q]
                                /\ c.computed[q] = a.computed[q]
    BY AllocateShape
  <1>2. /\ all \in Seq(Blocks) /\ Len(all) = BlocksOf(to)
        /\ \A i, j \in DOMAIN all : all[i] = all[j] => i = j
        /\ \A i \in DOMAIN a.table[r] : i \in DOMAIN all /\ all[i] = a.table[r][i]
    BY AllFacts
  <1>3. ASSUME NEW i \in DOMAIN all
        PROVE  \/ /\ i * BlockSize > from /\ all[i] \in ToSet(more)
                  /\ ~((i - 1) * BlockSize < from)
                  /\ \A q \in Req : all[i] \notin ToSet(a.table[q])
               \/ /\ all[i] \notin ToSet(more)
                  /\ a.computed[r] # 0 /\ from = a.computed[r]
                  /\ i \in DOMAIN a.table[r] /\ all[i] = a.table[r][i]
               \/ /\ all[i] \notin ToSet(more)
                  /\ a.computed[r] = 0 /\ i * BlockSize <= from
                  /\ a.hash[all[i]] = i
    BY AllFacts
  <1>4. /\ from \in Nat /\ to \in Nat /\ from < to /\ to <= prompt[r] /\ BlocksOf(to) <= Longest
        /\ a.computed[r] # 0 => from = a.computed[r]
    BY OldFacts, ToFacts
  <1>5. r \in Req /\ a.table \in [Req -> Seq(Blocks)]
    BY DEF Ready
  <1>6. ASSUME NEW b \in Blocks
        PROVE  \/ \E i \in DOMAIN all :
                    all[i] = b /\ i * BlockSize <= to /\ c.hash[b] = i
               \/ /\ ~\E i \in DOMAIN all : all[i] = b /\ i * BlockSize <= to
                  /\ c.hash[b] = IF b \in ToSet(more) THEN 0 ELSE a.hash[b]
    BY <1>1, HashFacts
  <1>d. ASSUME NEW i \in DOMAIN all PROVE i \in Nat \ {0} /\ i * BlockSize \in Nat /\ all[i] \in Blocks
    BY <1>2, Constants, Products
  <1>e. ASSUME NEW q \in Req, NEW i \in DOMAIN a.table[q]
        PROVE  a.table[q][i] \in ToSet(a.table[q]) /\ a.table[q][i] \in Blocks
    BY <1>5 DEF ToSet
  <1> HIDE DEF all, more, from, to
  <1>7. ASSUME NEW i \in DOMAIN all, i * BlockSize > from, NEW q \in Req \ {r}
        PROVE  all[i] \notin ToSet(a.table[q])
    <2>1. CASE i \in DOMAIN a.table[r] /\ all[i] = a.table[r][i] /\ from = a.computed[r]
      BY <1>5, <1>7, <2>1 DEF Unshared
    <2>2. ~(i * BlockSize <= from)
      BY <1>4, <1>7, <1>d
    <2> QED
      BY <1>3, <2>1, <2>2
  <1>8. ASSUME NEW b \in Filled(c, r), NEW q \in Req \ {r} PROVE b \notin ToSet(c.table[q])
    <2>1. PICK i \in DOMAIN all : b = all[i] /\ i * BlockSize > from
      BY <1>1 DEF Filled
    <2> QED
      BY <1>1, <1>7, <2>1
  <1>9. ASSUME NEW b \in Used(c, r) PROVE HeldIn(a, b)
    <2>1. PICK i \in DOMAIN all : b = all[i] /\ (i - 1) * BlockSize < from
      BY <1>1 DEF Used
    <2>2. CASE i \in DOMAIN a.table[r] /\ all[i] = a.table[r][i]
      BY <1>5, <1>e, <2>1, <2>2 DEF HeldIn
    <2>3. CASE a.hash[all[i]] = i
      BY <1>d, <2>1, <2>3 DEF HeldIn
    <2> QED
      BY <1>3, <2>1, <2>2, <2>3
  <1>10. ASSUME NEW i \in DOMAIN all PROVE HeldIn(a, all[i]) \/ all[i] \in Filled(c, r)
    <2>1. CASE i \in DOMAIN a.table[r] /\ all[i] = a.table[r][i]
      BY <1>5, <1>e, <2>1 DEF HeldIn
    <2>2. CASE a.hash[all[i]] = i
      BY <1>d, <2>2 DEF HeldIn
    <2>3. CASE i * BlockSize > from
      BY <1>1, <2>3 DEF Filled
    <2> QED
      BY <1>3, <2>1, <2>2, <2>3
  <1>11. ASSUME NEW b \in Blocks, HeldIn(c, b) PROVE HeldIn(a, b) \/ b \in Filled(c, r)
    <2>1. CASE \E i \in DOMAIN all : all[i] = b
      BY <1>10, <2>1
    <2>2. CASE ~\E i \in DOMAIN all : all[i] = b
      <3>1. b \notin ToSet(c.table[r])
        BY <1>1, <2>2 DEF ToSet
      <3>2. \A q \in Req : b \in ToSet(c.table[q]) => b \in ToSet(a.table[q])
        BY <1>1, <3>1
      <3>3. c.hash[b] # 0 => a.hash[b] # 0
        BY <1>6, <2>2
      <3> QED
        BY <1>11, <3>2, <3>3 DEF HeldIn
    <2> QED
      BY <2>1, <2>2
  <1>12. ASSUME NEW i \in DOMAIN c.table[r], i * BlockSize > c.computed[r]
         PROVE  c.hash[c.table[r][i]] = 0
    <2>1. i \in DOMAIN all /\ i * BlockSize > to /\ c.table[r][i] = all[i]
      BY <1>1, <1>12
    <2>2. ASSUME NEW j \in DOMAIN all, all[j] = all[i] PROVE ~(j * BlockSize <= to)
      <3>1. j = i
        BY <1>2, <2>1, <2>2
      <3> QED
        BY <1>4, <1>d, <2>1, <3>1
    <2>3. c.hash[all[i]] = IF all[i] \in ToSet(more) THEN 0 ELSE a.hash[all[i]]
      BY <1>6, <1>d, <2>1, <2>2
    <2>4. ~(i * BlockSize <= from) /\ i * BlockSize > from
      BY <1>4, <1>d, <2>1
    <2>5. CASE all[i] \in ToSet(more)
      BY <2>1, <2>3, <2>5
    <2>6. CASE i \in DOMAIN a.table[r] /\ all[i] = a.table[r][i] /\ from = a.computed[r]
      <3>1. a.hash[all[i]] = 0
        BY <1>5, <2>4, <2>6 DEF Unshared
      <3> QED
        BY <2>1, <2>3, <3>1
    <2> QED
      BY <1>3, <2>1, <2>4, <2>5, <2>6
  <1>13. ASSUME NEW i \in DOMAIN c.table[r], i * BlockSize > c.computed[r], NEW q \in Req \ {r}
         PROVE  c.table[r][i] \notin ToSet(c.table[q])
    <2>1. i * BlockSize > c.from[r]
      BY <1>1, <1>4, <1>13, <1>d
    <2>2. c.table[r][i] \in Filled(c, r)
      BY <2>1 DEF Filled
    <2> QED
      BY <1>8, <2>2
  <1>14. ASSUME NEW q \in Req \ {r}, NEW i \in DOMAIN c.table[q], i * BlockSize > c.computed[q]
         PROVE  /\ c.hash[c.table[q][i]] = 0
                /\ \A p \in Req \ {q} : c.table[q][i] \notin ToSet(c.table[p])
    <2> DEFINE b == a.table[q][i]
    <2>1. i \in DOMAIN a.table[q] /\ i * BlockSize > a.computed[q] /\ c.table[q][i] = b
      BY <1>1, <1>14
    <2>2. a.hash[b] = 0 /\ \A p \in Req \ {q} : b \notin ToSet(a.table[p])
      BY <2>1 DEF Unshared
    <2>3. b \in Blocks /\ b \in ToSet(a.table[q])
      BY <1>e, <2>1
    <2> HIDE DEF b
    <2>4. ASSUME NEW j \in DOMAIN all PROVE all[j] # b
      <3>1. CASE \A p \in Req : all[j] \notin ToSet(a.table[p])
        BY <2>3, <3>1
      <3>2. CASE j \in DOMAIN a.table[r] /\ all[j] = a.table[r][j]
        BY <1>5, <1>e, <2>2, <3>2
      <3>3. CASE a.hash[all[j]] = j
        BY <1>d, <2>2, <3>3
      <3> QED
        BY <1>3, <3>1, <3>2, <3>3
    <2>5. b \notin ToSet(c.table[r])
      BY <1>1, <2>4 DEF ToSet
    <2>6. \A p \in Req \ {q} : b \notin ToSet(c.table[p])
      BY <1>1, <2>2, <2>5
    <2>7. c.hash[b] = 0
      BY <1>6, <2>2, <2>3, <2>4
    <2> QED
      BY <2>1, <2>6, <2>7
  <1>15. Unshared(c)
    <2> SUFFICES ASSUME NEW q \in Req, NEW i \in DOMAIN c.table[q], i * BlockSize > c.computed[q]
                 PROVE  /\ c.hash[c.table[q][i]] = 0
                        /\ \A p \in Req \ {q} : c.table[q][i] \notin ToSet(c.table[p])
      BY DEF Unshared
    <2>1. CASE q = r
      BY <1>12, <1>13, <2>1
    <2>2. CASE q # r
      BY <1>14, <2>2
    <2> QED
      BY <2>1, <2>2
  <1>16. Len(c.table[r]) = BlocksOf(c.computed[r]) /\ Len(c.table[r]) <= Longest
    BY <1>1, <1>2, <1>4
  <1>17. /\ c.from[r] < c.computed[r] /\ c.computed[r] <= prompt[r]
         /\ a.computed[r] # 0 => c.from[r] = a.computed[r]
    BY <1>1, <1>4
  <1>18. /\ \A i, j \in DOMAIN c.table[r] : c.table[r][i] = c.table[r][j] => i = j
         /\ \A i \in DOMAIN a.table[r] :
              i \in DOMAIN c.table[r] /\ c.table[r][i] = a.table[r][i]
    BY <1>1, <1>2
  <1> QED
    BY <1>8, <1>9, <1>11, <1>15, <1>16, <1>17, <1>18

-----------------------------------------------------------------------------
(* Halfway through a step: the requests of rs up to n have their blocks.    *)
(* What they fill nobody else held before, and of the others only those     *)
(* that come later in the step hold it now.                                 *)
Done(rs, n) == {q \in rs : q <= n}

Midway(rs, n, a) ==
    /\ a \in [table : [Req -> Seq(Blocks)], hash : [Blocks -> 0 .. Longest],
              computed : [Req -> Nat], from : [Req -> Nat]]
    /\ \A q \in Req \ Done(rs, n) :
        a.table[q] = table[q] /\ a.computed[q] = computed[q] /\ a.from[q] = computed[q]
    /\ \A q \in Done(rs, n) :
        /\ a.from[q] < a.computed[q] /\ a.computed[q] <= prompt[q]
        /\ Len(a.table[q]) = BlocksOf(a.computed[q])
        /\ computed[q] # 0 => a.from[q] = computed[q]
    /\ \A q \in Req :
        /\ Len(a.table[q]) <= Longest
        /\ \A i, j \in DOMAIN a.table[q] : a.table[q][i] = a.table[q][j] => i = j
        /\ \A i \in DOMAIN table[q] : i \in DOMAIN a.table[q] /\ a.table[q][i] = table[q][i]
    /\ Unshared(a)
    /\ \A q \in Done(rs, n) : \A b \in Filled(a, q) : \A r \in Req \ {q} :
        /\ b \notin ToSet(table[r])
        /\ b \in ToSet(a.table[r]) => r \in Done(rs, n) /\ q < r
    /\ \A b \in Blocks : HeldIn(a, b) => Held(b) \/ \E q \in Done(rs, n) : b \in Filled(a, q)
    /\ \A q \in Done(rs, n) : \A b \in Used(a, q) :
        Held(b) \/ \E p \in Done(rs, n) : p < q /\ b \in Filled(a, p)

(* The requests a step may take. *)
Schedulable(rs) == rs \subseteq {r \in Req : Live(r) /\ computed[r] < prompt[r]}

LEMMA RequestFacts ==
    ASSUME TypeOK, RequestOK, NEW r \in Req
    PROVE  /\ computed[r] \in Nat /\ computed[r] <= Max(Prompts) /\ flying[r] \in Nat
           /\ flying[r] <= computed[r]
           /\ table[r] \in Seq(Blocks) /\ Len(table[r]) <= Longest
           /\ DOMAIN table[r] = 1 .. Len(table[r])
           /\ prompt[r] \in Nat \ {0} /\ Max(Prompts) \in Nat /\ Longest \in Nat
           /\ prompt[r] <= Max(Prompts)
           /\ Live(r) => Len(table[r]) = BlocksOf(computed[r]) /\ computed[r] <= prompt[r]
           /\ ~Live(r) => table[r] = << >>
  <1>1. prompt \in [Req -> Prompts] /\ computed \in [Req -> 0 .. Max(Prompts)]
        /\ table \in [Req -> Seq(Blocks)] /\ flying \in [Req -> Nat] /\ flying[r] <= computed[r]
    BY DEF TypeOK
  <1>2. /\ prompt[r] \in Nat \ {0} /\ Max(Prompts) \in Nat /\ Longest \in Nat
        /\ prompt[r] <= Max(Prompts)
        /\ \A t \in Nat : t <= prompt[r] => BlocksOf(t) <= Longest
    BY <1>1, PromptFacts
  <1> DEFINE m == Max(Prompts)
  <1>m. computed[r] \in 0 .. m /\ m \in Nat
    BY <1>1, <1>2
  <1> HIDE DEF m
  <1>n. computed[r] \in Nat /\ computed[r] <= m
    BY <1>m
  <1>3. computed[r] \in Nat /\ computed[r] <= Max(Prompts)
    BY <1>n DEF m
  <1>4. Live(r) => computed[r] <= prompt[r]
    <2>1. CASE status[r] = "waiting"
      BY <1>2, <2>1 DEF RequestOK
    <2>2. CASE status[r] = "running"
      BY <1>2, <2>2 DEF RequestOK
    <2> QED
      BY <2>1, <2>2 DEF Live
  <1>5. /\ Live(r) => Len(table[r]) = BlocksOf(computed[r])
        /\ ~Live(r) => Len(table[r]) = 0
    BY DEF RequestOK
  <1>6. table[r] \in Seq(Blocks)
    BY <1>1
  <1>7. Len(table[r]) <= Longest
    <2>1. CASE Live(r)
      BY <1>2, <1>3, <1>4, <1>5, <2>1
    <2>2. CASE ~Live(r)
      BY <1>2, <1>5, <2>2
    <2> QED
      BY <2>1, <2>2
  <1>8. ~Live(r) => table[r] = << >>
    BY <1>5, <1>6
  <1>9. DOMAIN table[r] = 1 .. Len(table[r])
    BY <1>6
  <1> QED
    BY <1>1, <1>2, <1>3, <1>4, <1>5, <1>6, <1>7, <1>8, <1>9

LEMMA MidwayStart ==
    ASSUME TypeOK, RequestOK, SharedOK, NEW rs, Schedulable(rs)
    PROVE  Midway(rs, 0, Start)
  <1>1. Done(rs, 0) = {}
    <2>1. \A q \in rs : q \in Req
      BY DEF Schedulable
    <2>2. \A q \in rs : ~(q <= 0)
      BY <2>1 DEF Req
    <2> QED
      BY <2>2 DEF Done
  <1>2. /\ Start.table = table /\ Start.hash = hash /\ Start.computed = computed
        /\ Start.from = computed
    BY DEF Start
  <1>3. /\ table \in [Req -> Seq(Blocks)] /\ hash \in [Blocks -> 0 .. Longest]
        /\ computed \in [Req -> Nat]
    <2>1. /\ table \in [Req -> Seq(Blocks)] /\ hash \in [Blocks -> 0 .. Longest]
          /\ computed \in [Req -> 0 .. Max(Prompts)]
      BY DEF TypeOK, Longest
    <2>2. \A r \in Req : computed[r] \in Nat
      BY RequestFacts
    <2> QED
      BY <2>1, <2>2
  <1>4. Start \in [table : [Req -> Seq(Blocks)], hash : [Blocks -> 0 .. Longest],
                   computed : [Req -> Nat], from : [Req -> Nat]]
    BY <1>3 DEF Start
  <1>5. \A q \in Req : /\ Len(table[q]) <= Longest
                       /\ \A i, j \in DOMAIN table[q] : table[q][i] = table[q][j] => i = j
    BY RequestFacts DEF RequestOK
  <1>6. Unshared(Start)
    BY <1>2 DEF Unshared, SharedOK
  <1>7. \A b \in Blocks : HeldIn(Start, b) => Held(b)
    BY <1>2 DEF HeldIn, Held
  <1> QED
    BY <1>1, <1>2, <1>4, <1>5, <1>6, <1>7 DEF Midway

LEMMA MidwayReady ==
    ASSUME TypeOK, RequestOK, NEW rs, Schedulable(rs), NEW n \in 0 .. N - 1, NEW a,
           Midway(rs, n, a), n + 1 \in rs
    PROVE  Ready(a, n + 1) /\ a.computed[n + 1] = computed[n + 1] /\ a.table[n + 1] = table[n + 1]
  <1> DEFINE r == n + 1
  <1>1. r \in Req /\ Live(r) /\ computed[r] < prompt[r]
    BY DEF Schedulable
  <1>2. r \notin Done(rs, n)
    BY DEF Done
  <1> HIDE DEF r
  <1>3. a.table[r] = table[r] /\ a.computed[r] = computed[r]
    BY <1>1, <1>2 DEF Midway
  <1>4. Len(table[r]) = BlocksOf(computed[r])
    BY <1>1, RequestFacts
  <1>5. /\ a \in [table : [Req -> Seq(Blocks)], hash : [Blocks -> 0 .. Longest],
                  computed : [Req -> Nat], from : [Req -> Nat]]
        /\ \A q \in Req : Len(a.table[q]) <= Longest
        /\ \A i, j \in DOMAIN a.table[r] : a.table[r][i] = a.table[r][j] => i = j
    BY <1>1 DEF Midway
  <1>6. prompt \in [Req -> Prompts]
    BY DEF TypeOK
  <1>7. Ready(a, r)
    BY <1>1, <1>3, <1>4, <1>5, <1>6 DEF Ready
  <1> QED
    BY <1>3, <1>7 DEF r

LEMMA MidwayStep ==
    ASSUME TypeOK, RequestOK, NEW rs, Schedulable(rs), NEW n \in 0 .. N - 1, NEW a,
           Midway(rs, n, a)
    PROVE  Midway(rs, n + 1, AllocateOne(rs, n + 1, a))
  <1> DEFINE r == n + 1
             c == AllocateOne(rs, r, a)
  <1>0. /\ r \in Req /\ r \in Nat
        /\ \A q \in rs : q \in Nat /\ q \in Req /\ (q <= r <=> q <= n \/ q = r) /\ (q <= n => q < r)
    <2>1. \A q \in rs : q \in Req
      BY DEF Schedulable
    <2>2. \A q \in Req : q \in Nat
      BY Constants
    <2>3. r \in Req /\ r \in Nat /\ n \in Nat
      BY Constants
    <2>4. \A q \in Nat : (q <= r <=> q <= n \/ q = r) /\ (q <= n => q < r)
      BY <2>3
    <2> QED
      BY <2>1, <2>2, <2>3, <2>4
  <1>1. CASE r \notin rs
    <2>1. c = a
      BY <1>1 DEF AllocateOne
    <2>2. Done(rs, r) = Done(rs, n)
      BY <1>0, <1>1 DEF Done
    <2> HIDE DEF c
    <2>3. Midway(rs, r, a)
      BY <2>2 DEF Midway
    <2> QED
      BY <2>1, <2>3 DEF c
  <1>2. CASE r \in rs
    <2>1. c = Allocate(a, r)
      BY <1>2 DEF AllocateOne
    <2>2. Ready(a, r) /\ a.computed[r] = computed[r] /\ a.table[r] = table[r]
      BY <1>2, MidwayReady
    <2>3. Unshared(a)
      BY DEF Midway
    <2>4. Done(rs, r) = Done(rs, n) \cup {r} /\ r \notin Done(rs, n)
          /\ \A q \in Done(rs, n) : q < r /\ q \in Req /\ q # r /\ q \in Done(rs, r)
      BY <1>0, <1>2 DEF Done
    <2> HIDE DEF c, r
    <2>5. /\ c \in [table : [Req -> Seq(Blocks)], hash : [Blocks -> 0 .. Longest],
                    computed : [Req -> Nat], from : [Req -> Nat]]
          /\ \A q \in Req \ {r} : /\ c.table[q] = a.table[q] /\ c.from[q] = a.from[q]
                                  /\ c.computed[q] = a.computed[q]
      BY <2>1, <2>2, AllocateShape
    <2>6. /\ Len(c.table[r]) = BlocksOf(c.computed[r]) /\ Len(c.table[r]) <= Longest
          /\ c.from[r] < c.computed[r] /\ c.computed[r] <= prompt[r]
          /\ \A i, j \in DOMAIN c.table[r] : c.table[r][i] = c.table[r][j] => i = j
          /\ \A i \in DOMAIN a.table[r] :
               i \in DOMAIN c.table[r] /\ c.table[r][i] = a.table[r][i]
          /\ a.computed[r] # 0 => c.from[r] = a.computed[r]
          /\ \A b \in Filled(c, r) : \A q \in Req \ {r} : b \notin ToSet(c.table[q])
          /\ \A b \in Used(c, r) : HeldIn(a, b)
          /\ \A b \in Blocks : HeldIn(c, b) => HeldIn(a, b) \/ b \in Filled(c, r)
          /\ Unshared(c)
      BY <2>1, <2>2, <2>3, AllocateFacts
    <2>7. \A q \in Done(rs, n) : Filled(c, q) = Filled(a, q) /\ Used(c, q) = Used(a, q)
      BY <2>4, <2>5 DEF Filled, Used
    <2>8. \A q \in Req \ Done(rs, r) :
            c.table[q] = table[q] /\ c.computed[q] = computed[q] /\ c.from[q] = computed[q]
      BY <2>4, <2>5 DEF Midway
    <2>9. \A q \in Done(rs, r) :
            /\ c.from[q] < c.computed[q] /\ c.computed[q] <= prompt[q]
            /\ Len(c.table[q]) = BlocksOf(c.computed[q])
            /\ computed[q] # 0 => c.from[q] = computed[q]
      <3> SUFFICES ASSUME NEW q \in Done(rs, r)
                   PROVE  /\ c.from[q] < c.computed[q] /\ c.computed[q] <= prompt[q]
                          /\ Len(c.table[q]) = BlocksOf(c.computed[q])
                          /\ computed[q] # 0 => c.from[q] = computed[q]
        OBVIOUS
      <3>1. CASE q = r
        BY <2>2, <2>6, <3>1
      <3>2. CASE q \in Done(rs, n)
        BY <2>4, <2>5, <3>2 DEF Midway
      <3> QED
        BY <2>4, <3>1, <3>2
    <2>10. \A q \in Req :
             /\ Len(c.table[q]) <= Longest
             /\ \A i, j \in DOMAIN c.table[q] : c.table[q][i] = c.table[q][j] => i = j
             /\ \A i \in DOMAIN table[q] : i \in DOMAIN c.table[q] /\ c.table[q][i] = table[q][i]
      <3> SUFFICES ASSUME NEW q \in Req
                   PROVE  /\ Len(c.table[q]) <= Longest
                          /\ \A i, j \in DOMAIN c.table[q] : c.table[q][i] = c.table[q][j] => i = j
                          /\ \A i \in DOMAIN table[q] :
                               i \in DOMAIN c.table[q] /\ c.table[q][i] = table[q][i]
        OBVIOUS
      <3>1. CASE q = r
        BY <2>2, <2>6, <3>1
      <3>2. CASE q # r
        BY <2>5, <3>2 DEF Midway
      <3> QED
        BY <3>1, <3>2
    <2>11. ASSUME NEW p \in Req, NEW b \in ToSet(table[p]) PROVE b \in ToSet(c.table[p])
      BY <2>10 DEF ToSet
    <2>12. ASSUME NEW q \in Done(rs, r), NEW b \in Filled(c, q), NEW p \in Req \ {q}
           PROVE  /\ b \notin ToSet(table[p])
                  /\ b \in ToSet(c.table[p]) => p \in Done(rs, r) /\ q < p
      <3>1. CASE q = r
        <4>1. b \notin ToSet(c.table[p])
          BY <2>6, <2>12, <3>1
        <4> QED
          BY <2>11, <4>1
      <3>2. CASE q \in Done(rs, n)
        <4>1. b \in Filled(a, q)
          BY <2>7, <2>12, <3>2
        <4>2. /\ b \notin ToSet(table[p])
              /\ b \in ToSet(a.table[p]) => p \in Done(rs, n) /\ q < p
          BY <3>2, <4>1 DEF Midway
        <4>3. CASE p = r
          BY <2>4, <3>2, <4>2, <4>3
        <4>4. CASE p # r
          BY <2>4, <2>5, <4>2, <4>4
        <4> QED
          BY <4>3, <4>4
      <3> QED
        BY <2>4, <3>1, <3>2
    <2>13. ASSUME NEW b \in Blocks, HeldIn(a, b) \/ b \in Filled(c, r)
           PROVE  Held(b) \/ \E q \in Done(rs, r) : b \in Filled(c, q)
      <3>1. CASE b \in Filled(c, r)
        BY <2>4, <3>1
      <3>2. CASE HeldIn(a, b)
        <4>1. Held(b) \/ \E q \in Done(rs, n) : b \in Filled(a, q)
          BY <3>2 DEF Midway
        <4> QED
          BY <2>4, <2>7, <4>1
      <3> QED
        BY <2>13, <3>1, <3>2
    <2>14. ASSUME NEW q \in Done(rs, r), NEW b \in Used(c, q)
           PROVE  Held(b) \/ \E p \in Done(rs, r) : p < q /\ b \in Filled(c, p)
      <3>1. CASE q = r
        <4>1. HeldIn(a, b)
          BY <2>6, <2>14, <3>1
        <4>2. b \in Blocks
          <5>1. c.table[q] \in Seq(Blocks)
            BY <2>5, <3>1, <1>0 DEF r
          <5> QED
            BY <2>14, <5>1 DEF Used
        <4>3. Held(b) \/ \E p \in Done(rs, n) : b \in Filled(a, p)
          BY <4>1, <4>2 DEF Midway
        <4> QED
          BY <2>4, <2>7, <3>1, <4>3
      <3>2. CASE q \in Done(rs, n)
        <4>1. Held(b) \/ \E p \in Done(rs, n) : p < q /\ b \in Filled(a, p)
          BY <2>7, <2>14, <3>2 DEF Midway
        <4> QED
          BY <2>4, <2>7, <4>1
      <3> QED
        BY <2>4, <3>1, <3>2
    <2>15. \A b \in Blocks :
             HeldIn(c, b) => Held(b) \/ \E q \in Done(rs, r) : b \in Filled(c, q)
      BY <2>6, <2>13
    <2>16. Midway(rs, r, c)
      BY <2>5, <2>6, <2>8, <2>9, <2>10, <2>12, <2>14, <2>15 DEF Midway
    <2> QED
      BY <2>16 DEF c, r
  <1> QED
    BY <1>1, <1>2

LEMMA AllocatedFacts ==
    ASSUME TypeOK, RequestOK, SharedOK, NEW rs, Schedulable(rs)
    PROVE  Midway(rs, N, Allocated(rs))
  <1>1. PICK g : /\ g[0] = Start
                 /\ \A n \in 1 .. N : g[n] = AllocateOne(rs, n, g[n - 1])
                 /\ g[N] = Allocated(rs)
    BY AllocatedChain
  <1> DEFINE T == {n \in Nat : n <= N /\ ~Midway(rs, n, g[n])}
  <1> SUFFICES ASSUME T # {} PROVE FALSE
    BY <1>1, Constants
  <1>2. PICK m \in T : \A n \in T : m <= n
    BY LeastOf
  <1>3. m # 0
    BY <1>1, <1>2, MidwayStart
  <1>4. m - 1 \in Nat /\ m - 1 \in 0 .. N - 1 /\ m \in 1 .. N /\ (m - 1) + 1 = m /\ m - 1 \notin T
    BY <1>2, <1>3, Constants
  <1>5. Midway(rs, m - 1, g[m - 1])
    <2>1. PICK k \in Nat : k = m - 1
      BY <1>4
    <2>2. k <= N /\ k \notin T
      BY <1>4, <2>1, Constants
    <2>3. Midway(rs, k, g[k])
      BY <2>2
    <2> QED
      BY <2>1, <2>3
  <1>6. Midway(rs, m, AllocateOne(rs, m, g[m - 1]))
    BY <1>4, <1>5, MidwayStep
  <1> QED
    BY <1>1, <1>2, <1>4, <1>6

-----------------------------------------------------------------------------
(* The steps in flight, read off StepsOK. *)
LEMMA StepFacts ==
    ASSUME TypeOK, StepsOK
    PROVE  /\ Len(steps) \in Nat /\ DOMAIN steps = 1 .. Len(steps)
           /\ ran \in Nat /\ ran <= Len(steps)
           /\ \A k \in 1 .. Len(steps) :
                /\ steps[k] = [work |-> steps[k].work, failed |-> steps[k].failed,
                               causes |-> steps[k].causes]
                /\ steps[k].failed \subseteq DOMAIN steps[k].work
                /\ DOMAIN steps[k].work \subseteq Req
                /\ DOMAIN steps[k].causes = DOMAIN steps[k].work
                /\ \A r \in DOMAIN steps[k].work : WorkOK(k, r)
  <1> DEFINE R == [work : {steps[k].work : k \in DOMAIN steps}, failed : SUBSET Req,
                   causes : {steps[k].causes : k \in DOMAIN steps}]
  <1>1. steps \in Seq(R)
    BY DEF StepsOK
  <1>2. \A x \in R : x = [work |-> x.work, failed |-> x.failed, causes |-> x.causes]
    OBVIOUS
  <1> HIDE DEF R
  <1>3. Len(steps) \in Nat /\ DOMAIN steps = 1 .. Len(steps) /\ \A k \in 1 .. Len(steps) : steps[k] \in R
    BY <1>1
  <1>4. ran \in 0 .. Len(steps)
    BY DEF TypeOK
  <1>5. ran \in Nat /\ ran <= Len(steps)
    BY <1>3, <1>4
  <1> QED
    BY <1>2, <1>3, <1>5 DEF StepsOK

(* What the worker has still to do, one pair of a step and a request each.  *)
LEMMA PendingIs ==
    ASSUME TypeOK, StepsOK
    PROVE  /\ \A e \in Pending : /\ e = <<e[1], e[2]>> /\ e[1] \in ran + 1 .. Len(steps)
                                 /\ e[1] \in Nat \ {0} /\ e[2] \in Req
                                 /\ e[1] \in 1 .. Len(steps) /\ e[2] \in DOMAIN steps[e[1]].work
           /\ \A k \in ran + 1 .. Len(steps) : \A r \in DOMAIN steps[k].work : <<k, r>> \in Pending
  <1>1. /\ Len(steps) \in Nat /\ ran \in Nat
        /\ \A k \in 1 .. Len(steps) : DOMAIN steps[k].work \subseteq Req
    BY StepFacts
  <1>2. \A k \in ran + 1 .. Len(steps) : k \in 1 .. Len(steps) /\ k \in Nat \ {0}
    BY <1>1
  <1> QED
    BY <1>1, <1>2 DEF Pending

LEMMA WorkFacts ==
    ASSUME TypeOK, StepsOK, NEW k \in 1 .. Len(steps), NEW r \in DOMAIN steps[k].work,
           NEW w, w = steps[k].work[r]
    PROVE  /\ r \in Req /\ w.from \in Nat /\ w.to \in Nat /\ w.from < w.to /\ w.to <= computed[r]
           /\ computed[r] \in Nat /\ computed[r] # 0
           /\ w.table \in Seq(Blocks) /\ DOMAIN w.table = 1 .. Len(w.table)
           /\ Len(w.table) = BlocksOf(w.to) /\ status[r] # "waiting"
           /\ Live(r) => \A i \in DOMAIN w.table : i \in DOMAIN table[r] /\ w.table[i] = table[r][i]
  <1>1. DOMAIN steps[k].work \subseteq Req /\ WorkOK(k, r)
    BY StepFacts
  <1>2. computed \in [Req -> 0 .. Max(Prompts)] /\ prompt \in [Req -> Prompts]
    BY DEF TypeOK
  <1>3. r \in Req /\ Max(Prompts) \in Nat
    BY <1>1, <1>2, PromptFacts
  <1>4. computed[r] \in Nat
    <2> DEFINE m == Max(Prompts)
    <2>1. m \in Nat /\ computed[r] \in 0 .. m
      BY <1>2, <1>3
    <2> HIDE DEF m
    <2> QED
      BY <2>1
  <1>5. /\ w.from \in 0 .. w.to - 1 /\ w.to \in 0 .. computed[r]
        /\ w.table \in Seq(Blocks) /\ Len(w.table) = BlocksOf(w.to) /\ status[r] # "waiting"
        /\ Live(r) => \A i \in DOMAIN w.table : i \in DOMAIN table[r] /\ w.table[i] = table[r][i]
    BY <1>1 DEF WorkOK
  <1>6. w.from \in Nat /\ w.to \in Nat /\ w.from < w.to /\ w.to <= computed[r] /\ computed[r] # 0
    BY <1>4, <1>5
  <1>7. DOMAIN w.table = 1 .. Len(w.table)
    BY <1>5
  <1> QED
    BY <1>3, <1>4, <1>5, <1>6, <1>7

(* The blocks of a step in flight are still the request's, if it lives. *)
LEMMA WorkTables ==
    ASSUME TypeOK, StepsOK, NEW k \in 1 .. Len(steps), NEW r \in DOMAIN steps[k].work
    PROVE  /\ Writes(steps[k].work[r]) \subseteq ToSet(steps[k].work[r].table)
           /\ Reads(steps[k].work[r]) \subseteq ToSet(steps[k].work[r].table)
           /\ ToSet(steps[k].work[r].table) \subseteq Blocks
           /\ Live(r) => /\ ToSet(steps[k].work[r].table) \subseteq ToSet(table[r])
                         /\ status[r] = "running"
  <1>1. PICK w : w = steps[k].work[r]
    OBVIOUS
  <1>2. WorkOK(k, r)
    BY StepFacts
  <1>3. /\ w.table \in Seq(Blocks) /\ status[r] # "waiting"
        /\ Live(r) => \A i \in DOMAIN w.table : i \in DOMAIN table[r] /\ w.table[i] = table[r][i]
    BY <1>1, <1>2 DEF WorkOK
  <1>4. Live(r) => status[r] = "running"
    BY <1>3 DEF Live
  <1>5. Live(r) => ToSet(w.table) \subseteq ToSet(table[r])
    BY <1>3 DEF ToSet
  <1>6. Writes(w) \subseteq ToSet(w.table) /\ Reads(w) \subseteq ToSet(w.table)
    BY DEF Writes, Reads, ToSet
  <1>7. ToSet(w.table) \subseteq Blocks
    BY <1>3 DEF ToSet
  <1> QED
    BY <1>1, <1>4, <1>5, <1>6, <1>7

(* The same of an element of Pending. *)
LEMMA EventFacts ==
    ASSUME TypeOK, StepsOK, NEW e \in Pending
    PROVE  /\ Writes(Work(e)) \subseteq ToSet(Work(e).table)
           /\ Reads(Work(e)) \subseteq ToSet(Work(e).table)
           /\ ToSet(Work(e).table) \subseteq Blocks
           /\ Live(e[2]) => /\ ToSet(Work(e).table) \subseteq ToSet(table[e[2]])
                            /\ status[e[2]] = "running"
  <1>1. e[1] \in 1 .. Len(steps) /\ e[2] \in DOMAIN steps[e[1]].work
    BY PendingIs
  <1>2. PICK k \in 1 .. Len(steps) : k = e[1]
    BY <1>1
  <1>3. PICK r \in DOMAIN steps[k].work : r = e[2]
    BY <1>1, <1>2
  <1>4. Work(e) = steps[k].work[r]
    BY <1>2, <1>3 DEF Work
  <1> QED
    BY <1>3, <1>4, WorkTables

-----------------------------------------------------------------------------
(* Schedule. *)
NewStep(rs, a) ==
    [work |-> [r \in rs |-> [from |-> a.from[r], to |-> a.computed[r], table |-> a.table[r]]],
     failed |-> {}, causes |-> [r \in rs |-> {}]]

Scheduled(rs, a) ==
    /\ Len(steps) < InFlight /\ Schedulable(rs) /\ Midway(rs, N, a)
    /\ table' = a.table /\ hash' = a.hash /\ computed' = a.computed
    /\ status' = [r \in Req |-> IF r \in rs THEN "running" ELSE status[r]]
    /\ flying' = [r \in Req |-> flying[r] + a.computed[r] - a.from[r]]
    /\ steps' = Append(steps, NewStep(rs, a))
    /\ UNCHANGED <<prompt, ran, cause, served, missed, fails, aborts>>

LEMMA ScheduleIs ==
    ASSUME TypeOK, RequestOK, SharedOK, Schedule
    PROVE  \E rs, a : Scheduled(rs, a)
  <1>1. PICK rs \in (SUBSET {r \in Req : Live(r) /\ computed[r] < prompt[r]}) \ {{}} :
          \E a \in {Allocated(rs)} :
            /\ table' = a.table /\ hash' = a.hash /\ computed' = a.computed
            /\ status' = [r \in Req |-> IF r \in rs THEN "running" ELSE status[r]]
            /\ flying' = [r \in Req |-> flying[r] + a.computed[r] - a.from[r]]
            /\ steps' = Append(steps, NewStep(rs, a))
    BY DEF Schedule, NewStep
  <1>2. Schedulable(rs)
    BY DEF Schedulable
  <1>3. Midway(rs, N, Allocated(rs))
    BY <1>2, AllocatedFacts
  <1>4. /\ Len(steps) < InFlight
        /\ UNCHANGED <<prompt, ran, cause, served, missed, fails, aborts>>
    BY DEF Schedule
  <1>5. Scheduled(rs, Allocated(rs))
    BY <1>1, <1>2, <1>3, <1>4 DEF Scheduled
  <1> QED
    BY <1>5

LEMMA ScheduledFacts ==
    ASSUME TypeOK, RequestOK, StepsOK, NEW rs, NEW a, Scheduled(rs, a), NEW L, L = Len(steps) + 1
    PROVE  /\ rs \subseteq Req /\ Done(rs, N) = rs
           /\ \A r \in rs : Live(r) /\ status'[r] = "running"
           /\ \A r \in Req \ rs : status'[r] = status[r]
           /\ \A r \in Req : Live(r)' <=> Live(r)
           /\ L \in Nat /\ Len(steps') = L /\ DOMAIN steps' = 1 .. L
           /\ \A k \in 1 .. Len(steps) : steps'[k] = steps[k]
           /\ steps'[L] = NewStep(rs, a) /\ DOMAIN steps'[L].work = rs
           /\ \A r \in rs : /\ steps'[L].work[r].from = a.from[r]
                            /\ steps'[L].work[r].to = a.computed[r]
                            /\ steps'[L].work[r].table = a.table[r]
                            /\ Writes(steps'[L].work[r]) = Filled(a, r)
                            /\ Reads(steps'[L].work[r]) = Used(a, r)
           /\ \A r \in Req : /\ \A i \in DOMAIN table[r] :
                                  i \in DOMAIN table'[r] /\ table'[r][i] = table[r][i]
                             /\ ToSet(table[r]) \subseteq ToSet(table'[r])
  <1>1. /\ rs \subseteq Req /\ \A r \in rs : Live(r)
    BY DEF Scheduled, Schedulable
  <1>2. Done(rs, N) = rs
    <2>1. \A r \in Req : r <= N
      BY Constants
    <2> QED
      BY <1>1, <2>1 DEF Done
  <1>3. /\ status' = [r \in Req |-> IF r \in rs THEN "running" ELSE status[r]]
        /\ steps' = Append(steps, NewStep(rs, a))
        /\ table' = a.table /\ Midway(rs, N, a)
    BY DEF Scheduled
  <1>4. /\ Len(steps) \in Nat /\ DOMAIN steps = 1 .. Len(steps)
        /\ \A k \in 1 .. Len(steps) :
            steps[k] = [work |-> steps[k].work, failed |-> steps[k].failed,
                        causes |-> steps[k].causes]
    BY StepFacts
  <1>5. /\ \A r \in rs : status'[r] = "running"
        /\ \A r \in Req \ rs : status'[r] = status[r]
    BY <1>1, <1>3
  <1>6. \A r \in Req : Live(r)' <=> Live(r)
    BY <1>1, <1>5 DEF Live
  <1>7. L \in Nat /\ Len(steps') = L /\ DOMAIN steps' = 1 .. L /\ steps'[L] = NewStep(rs, a)
        /\ \A k \in 1 .. Len(steps) : steps'[k] = steps[k]
    <2> DEFINE x == NewStep(rs, a)
               S == {steps[k] : k \in DOMAIN steps} \cup {x}
    <2> HIDE DEF x
    <2>1. steps \in Seq(S)
      <3>1. \E U : steps \in Seq(U)
        BY DEF StepsOK
      <3> QED
        BY <3>1, <1>4
    <2>2. steps' = Append(steps, x)
      BY <1>3 DEF x
    <2> HIDE DEF S
    <2> QED
      BY <2>1, <2>2, <1>4 DEF x
  <1>8. /\ steps'[L].work = [r \in rs |-> [from |-> a.from[r], to |-> a.computed[r],
                                         table |-> a.table[r]]]
    BY <1>7 DEF NewStep
  <1>9. ASSUME NEW r \in rs
        PROVE  /\ steps'[L].work[r].from = a.from[r]
               /\ steps'[L].work[r].to = a.computed[r]
               /\ steps'[L].work[r].table = a.table[r]
               /\ Writes(steps'[L].work[r]) = Filled(a, r)
               /\ Reads(steps'[L].work[r]) = Used(a, r)
    <2>1. /\ steps'[L].work[r].from = a.from[r]
          /\ steps'[L].work[r].to = a.computed[r]
          /\ steps'[L].work[r].table = a.table[r]
      BY <1>8
    <2> QED
      BY <2>1 DEF Writes, Reads, Filled, Used
  <1>10. ASSUME NEW r \in Req
         PROVE  /\ \A i \in DOMAIN table[r] : i \in DOMAIN table'[r] /\ table'[r][i] = table[r][i]
                /\ ToSet(table[r]) \subseteq ToSet(table'[r])
    <2>1. \A i \in DOMAIN table[r] : i \in DOMAIN table'[r] /\ table'[r][i] = table[r][i]
      BY <1>3 DEF Midway
    <2> QED
      BY <2>1 DEF ToSet
  <1>11. DOMAIN steps'[L].work = rs
    BY <1>8
  <1> QED
    BY <1>1, <1>2, <1>5, <1>6, <1>7, <1>9, <1>10, <1>11

(* What a step does to a request it takes, and to another one. *)
LEMMA ScheduledRequest ==
    ASSUME TypeOK, RequestOK, StepsOK, NEW rs, NEW a, Scheduled(rs, a), NEW r \in Req
    PROVE  /\ computed'[r] = a.computed[r] /\ table'[r] = a.table[r] /\ table'[r] \in Seq(Blocks)
           /\ flying'[r] \in Nat /\ flying'[r] <= computed'[r]
           /\ computed'[r] \in Nat /\ computed'[r] <= Max(Prompts)
           /\ computed[r] <= computed'[r]
           /\ r \in rs => /\ a.from[r] \in Nat /\ a.from[r] < computed'[r] /\ computed'[r] <= prompt[r]
                          /\ Len(table'[r]) = BlocksOf(computed'[r])
                          /\ computed[r] # 0 => a.from[r] = computed[r]
                          /\ computed'[r] - flying'[r] = a.from[r] - flying[r]
           /\ r \notin rs => /\ computed'[r] = computed[r] /\ table'[r] = table[r]
                             /\ flying'[r] = flying[r]
  <1>1. /\ Done(rs, N) = rs /\ rs \subseteq Req
    BY ScheduledFacts
  <1>2. /\ Midway(rs, N, a) /\ computed' = a.computed /\ table' = a.table
        /\ flying' = [q \in Req |-> flying[q] + a.computed[q] - a.from[q]]
    BY DEF Scheduled
  <1>3. a \in [table : [Req -> Seq(Blocks)], hash : [Blocks -> 0 .. Longest],
               computed : [Req -> Nat], from : [Req -> Nat]]
    BY <1>2 DEF Midway
  <1>4. a.table[r] \in Seq(Blocks) /\ a.computed[r] \in Nat /\ a.from[r] \in Nat
    BY <1>3
  <1>5. r \notin rs => a.table[r] = table[r] /\ a.computed[r] = computed[r] /\ a.from[r] = computed[r]
    BY <1>1, <1>2 DEF Midway
  <1>6. r \in rs => /\ a.from[r] < a.computed[r] /\ a.computed[r] <= prompt[r]
                    /\ Len(a.table[r]) = BlocksOf(a.computed[r])
                    /\ computed[r] # 0 => a.from[r] = computed[r]
    BY <1>1, <1>2 DEF Midway
  <1>7. /\ computed[r] \in Nat /\ computed[r] <= Max(Prompts) /\ flying[r] \in Nat
        /\ flying[r] <= computed[r] /\ prompt[r] \in Nat /\ Max(Prompts) \in Nat
        /\ prompt[r] <= Max(Prompts)
    BY RequestFacts
  <1>8. flying'[r] = flying[r] + a.computed[r] - a.from[r]
    BY <1>2
  <1> DEFINE m == Max(Prompts)
             c == a.computed[r]
             f == a.from[r]
             n == computed[r]
             g == flying[r]
             p == prompt[r]
  <1>9. /\ c \in Nat /\ f \in Nat /\ n \in Nat /\ g \in Nat /\ p \in Nat /\ m \in Nat
        /\ g <= n /\ n <= m /\ p <= m /\ flying'[r] = g + c - f
        /\ r \notin rs => c = n /\ f = n
        /\ r \in rs => f < c /\ c <= p /\ (n # 0 => f = n)
    BY <1>4, <1>5, <1>6, <1>7, <1>8
  <1> HIDE DEF m, c, f, n, g, p
  <1>10. /\ flying'[r] \in Nat /\ flying'[r] <= c /\ c <= m /\ n <= c
         /\ c - flying'[r] = f - g
         /\ r \notin rs => flying'[r] = g
    BY <1>9
  <1> QED
    BY <1>2, <1>4, <1>5, <1>6, <1>10 DEF m, c, f, n, g, p

LEMMA ScheduleTypes ==
    ASSUME TypeOK, RequestOK, StepsOK, NEW rs, NEW a, Scheduled(rs, a)
    PROVE  TypeOK'
  <1>1. /\ prompt' = prompt /\ ran' = ran /\ cause' = cause /\ served' = served
        /\ missed' = missed /\ fails' = fails /\ aborts' = aborts
        /\ Midway(rs, N, a) /\ table' = a.table /\ hash' = a.hash /\ computed' = a.computed
        /\ status' = [r \in Req |-> IF r \in rs THEN "running" ELSE status[r]]
        /\ flying' = [r \in Req |-> flying[r] + a.computed[r] - a.from[r]]
        /\ Len(steps) < InFlight
    BY DEF Scheduled
  <1>2. a \in [table : [Req -> Seq(Blocks)], hash : [Blocks -> 0 .. Longest],
               computed : [Req -> Nat], from : [Req -> Nat]]
    BY <1>1 DEF Midway
  <1>3. /\ computed' \in [Req -> Nat] /\ table' \in [Req -> Seq(Blocks)]
        /\ hash' \in [Blocks -> 0 .. BlocksOf(Max(Prompts))]
    BY <1>1, <1>2 DEF Longest
  <1>4. computed' \in [Req -> 0 .. Max(Prompts)]
    <2> DEFINE m == Max(Prompts)
    <2>1. \A r \in Req : computed'[r] \in Nat /\ computed'[r] <= m /\ m \in Nat
      BY ScheduledRequest, RequestFacts
    <2> HIDE DEF m
    <2>2. \A r \in Req : computed'[r] \in 0 .. m
      BY <2>1
    <2>3. computed' \in [Req -> 0 .. m]
      BY <1>3, <2>2
    <2> QED
      BY <2>3 DEF m
  <1>5. flying' \in [Req -> Nat]
    <2>1. \A r \in Req : flying'[r] \in Nat
      BY ScheduledRequest
    <2> QED
      BY <1>1, <2>1
  <1>6. status' \in [Req -> {"waiting", "running", "served", "error", "aborted"}]
    BY <1>1 DEF TypeOK
  <1>7. ASSUME NEW r \in Req, status'[r] = "running"
        PROVE  Len(table'[r]) * BlockSize >= computed'[r]
    <2>1. CASE r \in rs
      <3>1. Len(table'[r]) = BlocksOf(computed'[r]) /\ computed'[r] \in Nat
        BY <2>1, ScheduledRequest
      <3>2. BlocksOf(computed'[r]) * BlockSize >= computed'[r]
        BY <3>1, BlockCount
      <3> QED
        BY <3>1, <3>2
    <2>2. CASE r \notin rs
      <3>1. status[r] = "running" /\ computed'[r] = computed[r] /\ table'[r] = table[r]
        BY <1>1, <1>7, <2>2, ScheduledRequest
      <3>2. Len(table[r]) * BlockSize >= computed[r]
        BY <3>1 DEF TypeOK
      <3> QED
        BY <3>1, <3>2
    <2> QED
      BY <2>1, <2>2
  <1>8. \A r \in Req : flying'[r] <= computed'[r]
    BY ScheduledRequest
  <1>9. Len(steps') <= InFlight /\ ran' \in 0 .. Len(steps')
    <2>1. /\ Len(steps) \in Nat /\ ran \in Nat /\ ran <= Len(steps)
          /\ Len(steps') = Len(steps) + 1
      BY StepFacts, ScheduledFacts
    <2> QED
      BY <1>1, <2>1, Constants
  <1>10. /\ prompt' \in [Req -> Prompts] /\ cause' \in [Blocks -> Req \cup {0, -1}]
         /\ served' \in [Req -> SUBSET (Req \cup {-1})] /\ missed' \subseteq Req
         /\ fails' \in 0 .. MaxFails /\ aborts' \in 0 .. MaxAborts
    BY <1>1 DEF TypeOK
  <1> QED
    BY <1>3, <1>4, <1>5, <1>6, <1>7, <1>8, <1>9, <1>10 DEF TypeOK

LEMMA ScheduleRequests ==
    ASSUME TypeOK, RequestOK, StepsOK, NEW rs, NEW a, Scheduled(rs, a)
    PROVE  RequestOK'
  <1> SUFFICES ASSUME NEW r \in Req
               PROVE  /\ status'[r] = "waiting" => computed'[r] = 0
                      /\ status'[r] = "running" => computed'[r] \in 1 .. prompt'[r]
                      /\ Len(table'[r]) = IF Live(r)' THEN BlocksOf(computed'[r]) ELSE 0
                      /\ \A i, j \in DOMAIN table'[r] : table'[r][i] = table'[r][j] => i = j
    BY DEF RequestOK
  <1>1. /\ Live(r)' <=> Live(r)
        /\ r \in rs => status'[r] = "running" /\ Live(r)
        /\ r \notin rs => status'[r] = status[r]
    BY ScheduledFacts
  <1>2. prompt' = prompt /\ Midway(rs, N, a) /\ table' = a.table
    BY DEF Scheduled
  <1>3. \A i, j \in DOMAIN table'[r] : table'[r][i] = table'[r][j] => i = j
    BY <1>2 DEF Midway
  <1>4. prompt[r] \in Nat
    BY RequestFacts
  <1>5. CASE r \in rs
    <2>1. /\ a.from[r] \in Nat /\ a.from[r] < computed'[r] /\ computed'[r] <= prompt[r]
          /\ computed'[r] \in Nat
          /\ Len(table'[r]) = BlocksOf(computed'[r])
      BY <1>5, ScheduledRequest
    <2>2. computed'[r] \in 1 .. prompt[r]
      BY <1>4, <2>1
    <2> QED
      BY <1>1, <1>2, <1>3, <1>5, <2>1, <2>2
  <1>6. CASE r \notin rs
    <2>1. computed'[r] = computed[r] /\ table'[r] = table[r]
      BY <1>6, ScheduledRequest
    <2> QED
      BY <1>1, <1>2, <1>3, <1>6, <2>1 DEF RequestOK
  <1> QED
    BY <1>5, <1>6

(* WorkOK with its variables as parameters, for the state after a step. *)
StartsIn(s, c, r, p, t) ==
    \/ /\ \A k \in DOMAIN s : r \in DOMAIN s[k].work => k <= p
       /\ t = c[r]
    \/ \E k \in DOMAIN s :
        /\ k > p /\ r \in DOMAIN s[k].work /\ t = s[k].work[r].from
        /\ \A j \in DOMAIN s : r \in DOMAIN s[j].work => j <= p \/ k <= j

WorkAt(s, c, h, st, k, r) ==
    LET w == s[k].work[r]
        live == st[r] \in {"waiting", "running"}
    IN  /\ w.from \in 0 .. w.to - 1 /\ w.to \in 0 .. c[r]
        /\ w.table \in Seq(Blocks) /\ Len(w.table) = BlocksOf(w.to)
        /\ st[r] # "waiting"
        /\ live => \A i \in DOMAIN w.table : i \in DOMAIN h[r] /\ w.table[i] = h[r][i]
        /\ live => StartsIn(s, c, r, k, w.to)
        /\ \A j \in 1 .. k - 1 : r \in DOMAIN s[j].work => s[j].work[r].to <= w.from
        /\ s[k].causes[r] \subseteq Req \cup {-1}

LEMMA WorkAtIs ==
    ASSUME NEW k, NEW r
    PROVE  /\ WorkOK(k, r) <=> WorkAt(steps, computed, table, status, k, r)
           /\ WorkOK(k, r)' <=> WorkAt(steps', computed', table', status', k, r)
  BY DEF WorkOK, WorkAt, StartsAt, StartsIn, Live

LEMMA StepSeq ==
    ASSUME NEW s, NEW U, s \in Seq(U),
           \A k \in 1 .. Len(s) : /\ s[k] = [work |-> s[k].work, failed |-> s[k].failed,
                                             causes |-> s[k].causes]
                                  /\ s[k].failed \subseteq Req
    PROVE  s \in Seq([work : {s[k].work : k \in DOMAIN s}, failed : SUBSET Req,
                      causes : {s[k].causes : k \in DOMAIN s}])
  <1> DEFINE W == {s[k].work : k \in DOMAIN s}
             C == {s[k].causes : k \in DOMAIN s}
             R == [work : W, failed : SUBSET Req, causes : C]
  <1>1. Len(s) \in Nat /\ DOMAIN s = 1 .. Len(s)
    OBVIOUS
  <1>2. ASSUME NEW k \in 1 .. Len(s) PROVE s[k] \in R
    <2>1. s[k].work \in W /\ s[k].causes \in C
      BY <1>1
    <2> HIDE DEF W, C
    <2>2. [work |-> s[k].work, failed |-> s[k].failed, causes |-> s[k].causes] \in R
      BY <2>1
    <2> HIDE DEF R
    <2> QED
      BY <2>2
  <1> HIDE DEF W, C, R
  <1>3. s \in [1 .. Len(s) -> R]
    BY <1>1, <1>2
  <1> HIDE DEF R
  <1>4. s \in Seq(R)
    BY <1>1, <1>3
  <1> QED
    BY <1>4 DEF R, W, C

LEMMA ScheduleStarts ==
    ASSUME TypeOK, RequestOK, StepsOK, NEW rs, NEW a, Scheduled(rs, a),
           NEW r \in Req, NEW p \in 0 .. Len(steps), NEW t, StartsIn(steps, computed, r, p, t),
           r \notin rs \/ a.from[r] = computed[r]
    PROVE  StartsIn(steps', computed', r, p, t)
  <1> DEFINE L == Len(steps) + 1
  <1>1. /\ L \in Nat /\ DOMAIN steps = 1 .. Len(steps) /\ DOMAIN steps' = 1 .. L
        /\ Len(steps) \in Nat
        /\ \A k \in 1 .. Len(steps) : steps'[k] = steps[k]
        /\ DOMAIN steps'[L].work = rs
        /\ r \in rs => steps'[L].work[r].from = a.from[r]
    BY ScheduledFacts, StepFacts
  <1>2. /\ \A k \in 1 .. L : k \in 1 .. Len(steps) \/ k = L
        /\ \A k \in 1 .. Len(steps) : k \in 1 .. L /\ k <= L
        /\ L \in 1 .. L /\ L > p
    BY <1>1
  <1>3. CASE r \notin rs
    <2>1. computed'[r] = computed[r]
      BY <1>3, ScheduledRequest
    <2>2. \A k \in 1 .. L : r \in DOMAIN steps'[k].work => k \in 1 .. Len(steps)
      BY <1>1, <1>2, <1>3
    <2> HIDE DEF L
    <2>3. CASE /\ \A k \in DOMAIN steps : r \in DOMAIN steps[k].work => k <= p
               /\ t = computed[r]
      BY <1>1, <2>1, <2>2, <2>3 DEF StartsIn
    <2>4. ASSUME NEW k \in DOMAIN steps, k > p, r \in DOMAIN steps[k].work,
                 t = steps[k].work[r].from,
                 \A j \in DOMAIN steps : r \in DOMAIN steps[j].work => j <= p \/ k <= j
          PROVE  StartsIn(steps', computed', r, p, t)
      <3>1. k \in DOMAIN steps' /\ steps'[k] = steps[k]
        BY <1>1, <1>2
      <3>2. \A j \in DOMAIN steps' : r \in DOMAIN steps'[j].work => j <= p \/ k <= j
        BY <1>1, <2>2, <2>4
      <3> QED
        BY <2>4, <3>1, <3>2 DEF StartsIn
    <2> QED
      BY <2>3, <2>4 DEF StartsIn
  <1>4. CASE r \in rs
    <2> HIDE DEF L
    <2>1. CASE /\ \A k \in DOMAIN steps : r \in DOMAIN steps[k].work => k <= p
               /\ t = computed[r]
      <3>1. \A j \in DOMAIN steps' : r \in DOMAIN steps'[j].work => j <= p \/ L <= j
        BY <1>1, <1>2, <2>1
      <3>2. /\ L \in DOMAIN steps' /\ L > p /\ r \in DOMAIN steps'[L].work
            /\ t = steps'[L].work[r].from
        BY <1>1, <1>2, <1>4, <2>1
      <3> QED
        BY <3>1, <3>2 DEF StartsIn
    <2>2. ASSUME NEW k \in DOMAIN steps, k > p, r \in DOMAIN steps[k].work,
                 t = steps[k].work[r].from,
                 \A j \in DOMAIN steps : r \in DOMAIN steps[j].work => j <= p \/ k <= j
          PROVE  StartsIn(steps', computed', r, p, t)
      <3>1. k \in DOMAIN steps' /\ steps'[k] = steps[k]
        BY <1>1, <1>2
      <3>2. \A j \in DOMAIN steps' : r \in DOMAIN steps'[j].work => j <= p \/ k <= j
        BY <1>1, <1>2, <2>2
      <3> QED
        BY <2>2, <3>1, <3>2 DEF StartsIn
    <2> QED
      BY <2>1, <2>2 DEF StartsIn
  <1> QED
    BY <1>3, <1>4

LEMMA ScheduleSteps ==
    ASSUME TypeOK, RequestOK, StepsOK, NEW rs, NEW a, Scheduled(rs, a)
    PROVE  StepsOK'
  <1> DEFINE L == Len(steps) + 1
  <1>1. /\ L \in Nat /\ Len(steps) \in Nat
        /\ DOMAIN steps = 1 .. Len(steps) /\ DOMAIN steps' = 1 .. L /\ Len(steps') = L
        /\ \A k \in 1 .. Len(steps) : steps'[k] = steps[k]
        /\ steps'[L] = NewStep(rs, a) /\ DOMAIN steps'[L].work = rs /\ rs \subseteq Req
    BY ScheduledFacts, StepFacts
  <1>2. /\ \A k \in 1 .. L : k \in 1 .. Len(steps) \/ k = L
        /\ \A k \in 1 .. Len(steps) : k \in 1 .. L /\ k < L
        /\ L \in 1 .. L
    BY <1>1
  <1>3. \A r \in rs : /\ Live(r) /\ status'[r] = "running"
                      /\ steps'[L].work[r].from = a.from[r]
                      /\ steps'[L].work[r].to = a.computed[r]
                      /\ steps'[L].work[r].table = a.table[r]
    BY ScheduledFacts
  <1>4. /\ steps'[L] = [work |-> steps'[L].work, failed |-> steps'[L].failed,
                        causes |-> steps'[L].causes]
        /\ steps'[L].failed = {} /\ DOMAIN steps'[L].causes = rs
        /\ \A r \in rs : steps'[L].causes[r] = {}
    BY <1>1 DEF NewStep
  <1>5. \A k \in 1 .. Len(steps) :
            /\ steps[k] = [work |-> steps[k].work, failed |-> steps[k].failed,
                           causes |-> steps[k].causes]
            /\ steps[k].failed \subseteq DOMAIN steps[k].work
            /\ DOMAIN steps[k].work \subseteq Req
            /\ DOMAIN steps[k].causes = DOMAIN steps[k].work
            /\ \A r \in DOMAIN steps[k].work : WorkAt(steps, computed, table, status, k, r)
    BY StepFacts, WorkAtIs
  <1> HIDE DEF L
  <1>6. \A k \in 1 .. L :
            /\ steps'[k] = [work |-> steps'[k].work, failed |-> steps'[k].failed,
                            causes |-> steps'[k].causes]
            /\ steps'[k].failed \subseteq DOMAIN steps'[k].work
            /\ DOMAIN steps'[k].work \subseteq Req
            /\ DOMAIN steps'[k].causes = DOMAIN steps'[k].work
    <2> SUFFICES ASSUME NEW k \in 1 .. L
                 PROVE  /\ steps'[k] = [work |-> steps'[k].work, failed |-> steps'[k].failed,
                                        causes |-> steps'[k].causes]
                        /\ steps'[k].failed \subseteq DOMAIN steps'[k].work
                        /\ DOMAIN steps'[k].work \subseteq Req
                        /\ DOMAIN steps'[k].causes = DOMAIN steps'[k].work
      OBVIOUS
    <2>1. CASE k = L
      BY <1>1, <1>4, <2>1
    <2>2. CASE k \in 1 .. Len(steps)
      <3>1. steps'[k] = steps[k]
        BY <1>1, <2>2
      <3> QED
        BY <1>5, <2>2, <3>1
    <2> QED
      BY <1>2, <2>1, <2>2
  <1>7. \E U : steps' \in Seq(U)
    <2> DEFINE x == NewStep(rs, a)
               S == {steps[k] : k \in DOMAIN steps} \cup {x}
    <2> HIDE DEF x
    <2>1. steps \in Seq(S)
      <3>1. \E U : steps \in Seq(U)
        BY DEF StepsOK
      <3> QED
        BY <3>1, <1>1
    <2>2. steps' = Append(steps, x)
      BY DEF x, Scheduled
    <2>3. x \in S
      OBVIOUS
    <2> HIDE DEF S
    <2>4. steps' \in Seq(S)
      BY <2>1, <2>2, <2>3
    <2> QED
      BY <2>4
  <1>8. steps' \in Seq([work : {steps'[k].work : k \in DOMAIN steps'}, failed : SUBSET Req,
                        causes : {steps'[k].causes : k \in DOMAIN steps'}])
    <2>1. \A k \in 1 .. Len(steps') :
            /\ steps'[k] = [work |-> steps'[k].work, failed |-> steps'[k].failed,
                            causes |-> steps'[k].causes]
            /\ steps'[k].failed \subseteq Req
      BY <1>1, <1>6
    <2> QED
      BY <1>7, <2>1, StepSeq
  <1>9. ASSUME NEW k \in 1 .. Len(steps), NEW r \in DOMAIN steps[k].work
        PROVE  WorkAt(steps', computed', table', status', k, r)
    <2>1. PICK w : w = steps[k].work[r]
      OBVIOUS
    <2>2. /\ r \in Req /\ w.from \in Nat /\ w.to \in Nat /\ w.from < w.to /\ w.to <= computed[r]
          /\ computed[r] \in Nat /\ computed[r] # 0 /\ status[r] # "waiting"
      BY <2>1, WorkFacts
    <2>3. WorkAt(steps, computed, table, status, k, r)
      BY <1>5
    <2>4. steps'[k] = steps[k] /\ steps'[k].work[r] = w
      BY <1>1, <2>1
    <2>5. /\ w.from \in 0 .. w.to - 1 /\ w.to \in 0 .. computed'[r]
      <3>1. computed'[r] \in Nat /\ computed[r] <= computed'[r]
        BY <2>2, ScheduledRequest
      <3> QED
        BY <2>2, <3>1
    <2>6. /\ status'[r] # "waiting"
          /\ status'[r] \in {"waiting", "running"} <=> status[r] \in {"waiting", "running"}
      <3>1. /\ r \in rs => status'[r] = "running" /\ Live(r)
            /\ r \notin rs => status'[r] = status[r]
        BY <2>2, ScheduledFacts
      <3> QED
        BY <2>2, <3>1 DEF Live
    <2>7. \A i \in DOMAIN table[r] : i \in DOMAIN table'[r] /\ table'[r][i] = table[r][i]
      BY <2>2, ScheduledFacts
    <2>8. r \notin rs \/ a.from[r] = computed[r]
      BY <2>2, ScheduledRequest
    <2>9. k \in 0 .. Len(steps)
      OBVIOUS
    <2>10. StartsIn(steps, computed, r, k, w.to) => StartsIn(steps', computed', r, k, w.to)
      BY <2>2, <2>8, <2>9, ScheduleStarts
    <2>11. \A j \in 1 .. k - 1 : steps'[j] = steps[j]
      BY <1>1
    <2> HIDE DEF L
    <2>12. /\ w.table \in Seq(Blocks) /\ Len(w.table) = BlocksOf(w.to)
           /\ status[r] \in {"waiting", "running"} =>
                \A i \in DOMAIN w.table : i \in DOMAIN table[r] /\ w.table[i] = table[r][i]
           /\ status[r] \in {"waiting", "running"} => StartsIn(steps, computed, r, k, w.to)
           /\ \A j \in 1 .. k - 1 : r \in DOMAIN steps[j].work => steps[j].work[r].to <= w.from
           /\ steps[k].causes[r] \subseteq Req \cup {-1}
      BY <2>1, <2>3 DEF WorkAt
    <2>13. \A j \in 1 .. k - 1 : r \in DOMAIN steps'[j].work => steps'[j].work[r].to <= w.from
      BY <2>11, <2>12
    <2>14. status'[r] \in {"waiting", "running"} =>
             /\ \A i \in DOMAIN w.table : i \in DOMAIN table'[r] /\ w.table[i] = table'[r][i]
             /\ StartsIn(steps', computed', r, k, w.to)
      BY <2>6, <2>7, <2>10, <2>12
    <2> QED
      BY <2>4, <2>5, <2>6, <2>12, <2>13, <2>14 DEF WorkAt
  <1>10. ASSUME NEW r \in rs PROVE WorkAt(steps', computed', table', status', L, r)
    <2>1. PICK w : w = steps'[L].work[r]
      OBVIOUS
    <2>2. w.from = a.from[r] /\ w.to = a.computed[r] /\ w.table = a.table[r]
      BY <1>3, <2>1
    <2>3. /\ computed'[r] = a.computed[r] /\ table'[r] = a.table[r] /\ table'[r] \in Seq(Blocks)
          /\ a.from[r] \in Nat /\ a.from[r] < computed'[r] /\ computed'[r] \in Nat
          /\ Len(table'[r]) = BlocksOf(computed'[r])
          /\ computed[r] # 0 => a.from[r] = computed[r]
      BY <1>1, ScheduledRequest
    <2>4. w.from \in 0 .. w.to - 1 /\ w.to \in 0 .. computed'[r]
      BY <2>2, <2>3
    <2>5. status'[r] # "waiting"
      BY <1>3
    <2>6. StartsIn(steps', computed', r, L, w.to)
      BY <1>1, <1>2, <2>2, <2>3 DEF StartsIn
    <2>7. ASSUME NEW j \in 1 .. L - 1, r \in DOMAIN steps'[j].work
          PROVE  steps'[j].work[r].to <= w.from
      <3>1. j \in 1 .. Len(steps)
        BY <2>7 DEF L
      <3>2. steps'[j] = steps[j] /\ r \in DOMAIN steps[j].work
        BY <1>1, <2>7, <3>1
      <3>3. PICK v : v = steps[j].work[r]
        OBVIOUS
      <3>4. v.to <= computed[r] /\ computed[r] # 0
        BY <3>1, <3>2, <3>3, WorkFacts
      <3> QED
        BY <2>2, <2>3, <3>2, <3>3, <3>4
    <2>8. steps'[L].causes[r] \subseteq Req \cup {-1}
      BY <1>4
    <2>9. \A i \in DOMAIN w.table : i \in DOMAIN table'[r] /\ w.table[i] = table'[r][i]
      BY <2>2, <2>3
    <2> QED
      BY <2>1, <2>2, <2>3, <2>4, <2>5, <2>6, <2>7, <2>8, <2>9 DEF WorkAt
  <1>11. ASSUME NEW k \in 1 .. L, NEW r \in DOMAIN steps'[k].work PROVE WorkOK(k, r)'
    <2>1. WorkAt(steps', computed', table', status', k, r)
      <3>1. CASE k = L
        BY <1>1, <1>10, <1>11, <3>1
      <3>2. CASE k \in 1 .. Len(steps)
        BY <1>1, <1>9, <1>11, <3>2
      <3> QED
        BY <1>2, <3>1, <3>2
    <2> QED
      BY <2>1, WorkAtIs
  <1>12. ASSUME NEW r \in Req, Live(r)' PROVE StartsAt(r, 0, computed[r] - flying[r])'
    <2>1. PICK t : t = computed'[r] - flying'[r]
      OBVIOUS
    <2>2. Live(r)
      BY <1>12, ScheduledFacts
    <2>3. StartsIn(steps, computed, r, 0, computed[r] - flying[r])
      BY <2>2 DEF StepsOK, StartsAt, StartsIn
    <2>4. /\ computed[r] \in Nat /\ flying[r] \in Nat /\ flying[r] <= computed[r]
      BY RequestFacts
    <2>5. StartsIn(steps', computed', r, 0, t)
      <3>1. CASE r \notin rs
        <4>1. t = computed[r] - flying[r]
          BY <2>1, <3>1, ScheduledRequest
        <4>2. 0 \in 0 .. Len(steps)
          BY <1>1
        <4> QED
          BY <2>3, <3>1, <4>1, <4>2, ScheduleStarts
      <3>2. CASE r \in rs /\ a.from[r] = computed[r]
        <4>1. t = computed[r] - flying[r]
          BY <2>1, <3>2, ScheduledRequest
        <4>2. 0 \in 0 .. Len(steps)
          BY <1>1
        <4> QED
          BY <2>3, <3>2, <4>1, <4>2, ScheduleStarts
      <3>3. CASE r \in rs /\ computed[r] = 0
        <4>1. t = a.from[r]
          <5>1. t = a.from[r] - flying[r] /\ a.from[r] \in Nat
            BY <2>1, <3>3, ScheduledRequest
          <5> QED
            BY <2>4, <3>3, <5>1
        <4>2. \A k \in 1 .. Len(steps) : r \notin DOMAIN steps[k].work
          BY <3>3, WorkFacts
        <4>3. \A j \in DOMAIN steps' : r \in DOMAIN steps'[j].work => j = L
          BY <1>1, <1>2, <4>2
        <4>4. L \in DOMAIN steps' /\ L > 0 /\ r \in DOMAIN steps'[L].work
              /\ t = steps'[L].work[r].from
          BY <1>1, <1>2, <1>3, <3>3, <4>1
        <4>5. \A j \in DOMAIN steps' : r \in DOMAIN steps'[j].work => j <= 0 \/ L <= j
          BY <1>1, <4>3
        <4> QED
          BY <4>4, <4>5 DEF StartsIn
      <3> QED
        BY <3>1, <3>2, <3>3, ScheduledRequest
    <2> QED
      BY <2>1, <2>5 DEF StartsAt, StartsIn
  <1> QED
    BY <1>1, <1>6, <1>8, <1>11, <1>12 DEF StepsOK

LEMMA ScheduleShared ==
    ASSUME TypeOK, RequestOK, StepsOK, NEW rs, NEW a, Scheduled(rs, a)
    PROVE  SharedOK'
  <1>1. Unshared(a) /\ table' = a.table /\ hash' = a.hash /\ computed' = a.computed
    BY DEF Scheduled, Midway
  <1> QED
    BY <1>1 DEF Unshared, SharedOK

LEMMA ScheduledPending ==
    ASSUME TypeOK, RequestOK, StepsOK, NEW rs, NEW a, Scheduled(rs, a), NEW L, L = Len(steps) + 1
    PROVE  /\ \A e \in Pending : /\ e \in Pending' /\ Work(e)' = Work(e) /\ e[1] < L
                                 /\ e[1] \in Nat \ {0} /\ e[2] \in Req
           /\ \A r \in rs : /\ <<L, r>> \in Pending'
                            /\ ToSet(Work(<<L, r>>)'.table) = ToSet(a.table[r])
                            /\ Writes(Work(<<L, r>>)') = Filled(a, r)
                            /\ Reads(Work(<<L, r>>)') = Used(a, r)
           /\ \A e \in Pending' : e \in Pending \/ \E r \in rs : e = <<L, r>>
  <1>1. /\ L \in Nat /\ Len(steps) \in Nat /\ Len(steps') = L
        /\ \A k \in 1 .. Len(steps) : steps'[k] = steps[k]
        /\ DOMAIN steps'[L].work = rs /\ rs \subseteq Req
        /\ ran \in Nat /\ ran <= Len(steps) /\ ran' = ran
    BY ScheduledFacts, StepFacts DEF Scheduled
  <1>2. \A r \in rs : /\ steps'[L].work[r].table = a.table[r]
                      /\ Writes(steps'[L].work[r]) = Filled(a, r)
                      /\ Reads(steps'[L].work[r]) = Used(a, r)
    BY ScheduledFacts
  <1>3. Pending' = {e \in (ran + 1 .. L) \X Req : e[2] \in DOMAIN steps'[e[1]].work}
    BY <1>1 DEF Pending
  <1>4. ASSUME NEW e \in Pending
        PROVE  /\ e \in Pending' /\ Work(e)' = Work(e) /\ e[1] < L
               /\ e[1] \in Nat \ {0} /\ e[2] \in Req
    <2>1. /\ e = <<e[1], e[2]>> /\ e[1] \in ran + 1 .. Len(steps)
          /\ e[1] \in Nat \ {0} /\ e[2] \in Req
          /\ e[1] \in 1 .. Len(steps) /\ e[2] \in DOMAIN steps[e[1]].work
      BY PendingIs
    <2>2. steps'[e[1]] = steps[e[1]] /\ e[1] \in ran + 1 .. L /\ e[1] < L
      BY <1>1, <2>1
    <2> QED
      BY <1>3, <2>1, <2>2 DEF Work
  <1>5. ASSUME NEW r \in rs
        PROVE  /\ <<L, r>> \in Pending'
               /\ ToSet(Work(<<L, r>>)'.table) = ToSet(a.table[r])
               /\ Writes(Work(<<L, r>>)') = Filled(a, r)
               /\ Reads(Work(<<L, r>>)') = Used(a, r)
    <2>1. L \in ran + 1 .. L /\ r \in Req
      BY <1>1
    <2>2. Work(<<L, r>>)' = steps'[L].work[r]
      BY DEF Work
    <2> QED
      BY <1>1, <1>2, <1>3, <2>1, <2>2
  <1>6. ASSUME NEW e \in Pending' PROVE e \in Pending \/ \E r \in rs : e = <<L, r>>
    <2>1. e[1] \in ran + 1 .. L /\ e[2] \in Req /\ e = <<e[1], e[2]>> /\ e[2] \in DOMAIN steps'[e[1]].work
      BY <1>3
    <2>2. CASE e[1] = L
      BY <1>1, <2>1, <2>2
    <2>3. CASE e[1] # L
      <3>1. e[1] \in 1 .. Len(steps) /\ e[1] \in ran + 1 .. Len(steps)
        BY <1>1, <2>1, <2>3
      <3>2. e[2] \in DOMAIN steps[e[1]].work
        BY <1>1, <2>1, <3>1
      <3>3. <<e[1], e[2]>> \in Pending
        BY <3>1, <3>2, PendingIs
      <3> QED
        BY <2>1, <3>3
    <2> QED
      BY <2>2, <2>3
  <1> QED
    BY <1>4, <1>5, <1>6

LEMMA ScheduleOrder ==
    ASSUME TypeOK, RequestOK, StepsOK, OrderOK, NEW rs, NEW a, Scheduled(rs, a)
    PROVE  OrderOK'
  <1> SUFFICES ASSUME NEW e \in Pending', NEW f \in Pending', Live(e[2])', f[2] # e[2],
                      ToSet(Work(e)'.table) \cap Writes(Work(f)') # {}
               PROVE  Precedes(f, e)
    BY DEF OrderOK
  <1>0. PICK L : L = Len(steps) + 1
    OBVIOUS
  <1>1. /\ \A d \in Pending : /\ d \in Pending' /\ Work(d)' = Work(d) /\ d[1] < L
                              /\ d[1] \in Nat \ {0} /\ d[2] \in Req
        /\ \A r \in rs : /\ <<L, r>> \in Pending'
                         /\ ToSet(Work(<<L, r>>)'.table) = ToSet(a.table[r])
                         /\ Writes(Work(<<L, r>>)') = Filled(a, r)
                         /\ Reads(Work(<<L, r>>)') = Used(a, r)
        /\ \A d \in Pending' : d \in Pending \/ \E r \in rs : d = <<L, r>>
    BY <1>0, ScheduledPending
  <1>2. PICK b \in ToSet(Work(e)'.table) : b \in Writes(Work(f)')
    OBVIOUS
  <1>3. rs \subseteq Req /\ Done(rs, N) = rs /\ \A r \in Req : Live(r)' <=> Live(r)
    BY ScheduledFacts
  <1>4. \A q \in rs : \A d \in Filled(a, q) : \A r \in Req \ {q} :
            /\ d \notin ToSet(table[r])
            /\ d \in ToSet(a.table[r]) => r \in rs /\ q < r
    BY <1>3 DEF Scheduled, Midway
  <1>5. CASE e \in Pending /\ f \in Pending
    <2>1. Live(e[2]) /\ ToSet(Work(e).table) \cap Writes(Work(f)) # {}
      BY <1>1, <1>3, <1>5
    <2> QED
      BY <1>5, <2>1 DEF OrderOK
  <1>6. ASSUME NEW q \in rs, f = <<L, q>>, e \in Pending PROVE FALSE
    <2>0. b \in Filled(a, q) /\ e[2] \in Req /\ e[2] # q
      BY <1>1, <1>2, <1>6
    <2>1. b \in Filled(a, q) /\ e[2] \in Req /\ e[2] # q /\ Live(e[2])
      BY <1>3, <2>0
    <2>2. e[1] \in 1 .. Len(steps) /\ e[2] \in DOMAIN steps[e[1]].work
      BY <1>6, PendingIs
    <2>3. PICK w : w = steps[e[1]].work[e[2]]
      OBVIOUS
    <2>4. ToSet(w.table) \subseteq ToSet(table[e[2]])
      BY <1>6, <2>1, <2>3, EventFacts DEF Work
    <2>5. b \in ToSet(w.table)
      BY <1>1, <1>2, <1>6, <2>3 DEF Work
    <2> QED
      BY <1>4, <2>1, <2>4, <2>5
  <1>7. ASSUME NEW r \in rs, e = <<L, r>>, f \in Pending PROVE Precedes(f, e)
    BY <1>1, <1>7 DEF Precedes
  <1>8. ASSUME NEW r \in rs, e = <<L, r>>, NEW q \in rs, f = <<L, q>> PROVE Precedes(f, e)
    <2>0. b \in Filled(a, q) /\ b \in ToSet(a.table[r])
      BY <1>1, <1>2, <1>8
    <2>1. b \in Filled(a, q) /\ b \in ToSet(a.table[r]) /\ r # q /\ r \in Req
      BY <1>3, <1>8, <2>0
    <2>2. q < r
      BY <1>4, <2>1
    <2> QED
      BY <1>8, <2>2 DEF Precedes
  <1> QED
    BY <1>1, <1>5, <1>6, <1>7, <1>8

LEMMA ScheduleExcused ==
    ASSUME TypeOK, RequestOK, StepsOK, NEW rs, NEW a, Scheduled(rs, a),
           NEW c, NEW b, NEW k \in 0 .. Len(steps), Excused(c, b, k)
    PROVE  Excused(c, b, k)'
  <1>1. CASE c \in missed
    BY <1>1 DEF Excused, Scheduled
  <1>2. ASSUME NEW j \in 1 .. k, c \in steps[j].failed,
               Live(c) => b \in BlocksFrom(c, steps[j].work[c].from)
        PROVE  Excused(c, b, k)'
    <2>1. j \in 1 .. Len(steps) /\ c \in Req
      <3>1. j \in 1 .. Len(steps)
        BY StepFacts
      <3> QED
        BY <1>2, <3>1, StepFacts
    <2>2. steps'[j] = steps[j] /\ (Live(c)' <=> Live(c))
      BY <2>1, ScheduledFacts
    <2>3. \A i \in DOMAIN table[c] : i \in DOMAIN table'[c] /\ table'[c][i] = table[c][i]
      BY <2>1, ScheduledFacts
    <2>4. PICK t : t = steps[j].work[c].from
      OBVIOUS
    <2>5. BlocksFrom(c, t) \subseteq BlocksFrom(c, t)'
      BY <2>3 DEF BlocksFrom
    <2>6. Live(c)' => b \in BlocksFrom(c, t)'
      BY <1>2, <2>2, <2>4, <2>5
    <2>7. Live(c)' => b \in BlocksFrom(c, steps[j].work[c].from)'
      BY <2>2, <2>4, <2>6 DEF BlocksFrom
    <2> QED
      BY <1>2, <2>2, <2>7 DEF Excused
  <1> QED
    BY <1>1, <1>2 DEF Excused

LEMMA ScheduleDropped ==
    ASSUME TypeOK, RequestOK, StepsOK, NEW rs, NEW a, Scheduled(rs, a),
           NEW b \in Blocks, NEW e, e \in Pending \/ e = Now, Dropped(Pending, b, e)
    PROVE  Dropped(Pending, b, e)'
  <1>0. PICK L : L = Len(steps) + 1
    OBVIOUS
  <1>1. /\ \A d \in Pending : /\ d \in Pending' /\ Work(d)' = Work(d) /\ d[1] < L
                              /\ d[1] \in Nat \ {0} /\ d[2] \in Req
        /\ \A r \in rs : /\ <<L, r>> \in Pending'
                         /\ Writes(Work(<<L, r>>)') = Filled(a, r)
                         /\ Reads(Work(<<L, r>>)') = Used(a, r)
        /\ \A d \in Pending' : d \in Pending \/ \E r \in rs : d = <<L, r>>
    BY <1>0, ScheduledPending
  <1>2. e[1] < L /\ L \in Nat
    BY <1>0, <1>1, StepFacts DEF Now
  <1>3. /\ Done(rs, N) = rs /\ rs \subseteq Req /\ \A r \in Req : Live(r)' <=> Live(r)
    BY ScheduledFacts
  <1>4. /\ HeldIn(a, b) => Held(b) \/ \E q \in rs : b \in Filled(a, q)
        /\ \A q \in rs : b \in Used(a, q) => Held(b) \/ \E p \in rs : p < q /\ b \in Filled(a, p)
    BY <1>3 DEF Scheduled, Midway
  <1>5. Held(b)' => HeldIn(a, b)
    BY DEF Scheduled, Held, HeldIn
  <1>6. /\ Held(b) => \E f \in Pending : Precedes(e, f) /\ b \in Writes(Work(f))
        /\ \A g \in Pending : Live(g[2]) /\ b \in Reads(Work(g)) =>
             \E f \in Pending : Precedes(e, f) /\ Precedes(f, g) /\ b \in Writes(Work(f))
    BY DEF Dropped
  <1>7. \A r \in rs : Precedes(e, <<L, r>>)
    BY <1>2 DEF Precedes
  <1>8. ASSUME Held(b)' PROVE \E f \in Pending' : Precedes(e, f) /\ b \in Writes(Work(f)')
    <2>1. CASE Held(b)
      <3>1. PICK f \in Pending : Precedes(e, f) /\ b \in Writes(Work(f))
        BY <1>6, <2>1
      <3>2. f \in Pending' /\ Work(f)' = Work(f)
        BY <1>1
      <3> QED
        BY <3>1, <3>2
    <2>2. ASSUME NEW q \in rs, b \in Filled(a, q)
          PROVE  \E f \in Pending' : Precedes(e, f) /\ b \in Writes(Work(f)')
      <3>1. PICK f : f = <<L, q>>
        OBVIOUS
      <3>2. f \in Pending' /\ b \in Writes(Work(f)') /\ Precedes(e, f)
        BY <1>1, <1>7, <2>2, <3>1
      <3> QED
        BY <3>2
    <2> QED
      BY <1>4, <1>5, <1>8, <2>1, <2>2
  <1>9. ASSUME NEW g \in Pending', Live(g[2])', b \in Reads(Work(g)')
        PROVE  \E f \in Pending' : Precedes(e, f) /\ Precedes(f, g) /\ b \in Writes(Work(f)')
    <2>1. CASE g \in Pending
      <3>1. Live(g[2]) /\ b \in Reads(Work(g))
        BY <1>1, <1>3, <1>9, <2>1
      <3>2. PICK f \in Pending : Precedes(e, f) /\ Precedes(f, g) /\ b \in Writes(Work(f))
        BY <1>6, <2>1, <3>1
      <3>3. f \in Pending' /\ Work(f)' = Work(f)
        BY <1>1
      <3> QED
        BY <3>2, <3>3
    <2>2. ASSUME NEW q \in rs, g = <<L, q>>
          PROVE  \E f \in Pending' : Precedes(e, f) /\ Precedes(f, g) /\ b \in Writes(Work(f)')
      <3>1. b \in Used(a, q)
        BY <1>1, <1>9, <2>2
      <3>2. CASE Held(b)
        <4>1. PICK f \in Pending : Precedes(e, f) /\ b \in Writes(Work(f))
          BY <1>6, <3>2
        <4>2. f \in Pending' /\ Work(f)' = Work(f) /\ f[1] < L
          BY <1>1
        <4>3. Precedes(f, g)
          BY <2>2, <4>2 DEF Precedes
        <4> QED
          BY <4>1, <4>2, <4>3
      <3>3. ASSUME NEW p \in rs, p < q, b \in Filled(a, p)
            PROVE  \E f \in Pending' : Precedes(e, f) /\ Precedes(f, g) /\ b \in Writes(Work(f)')
        <4>1. PICK f : f = <<L, p>>
          OBVIOUS
        <4>2. f \in Pending' /\ b \in Writes(Work(f)') /\ Precedes(e, f)
          BY <1>1, <1>7, <3>3, <4>1
        <4>3. Precedes(f, g)
          BY <2>2, <3>3, <4>1 DEF Precedes
        <4> QED
          BY <4>2, <4>3
      <3> QED
        BY <1>4, <3>1, <3>2, <3>3
    <2> QED
      BY <1>1, <1>9, <2>1, <2>2
  <1> QED
    BY <1>8, <1>9 DEF Dropped

LEMMA ScheduleSwept ==
    ASSUME TypeOK, RequestOK, StepsOK, NEW rs, NEW a, Scheduled(rs, a),
           NEW c \in Req, NEW b \in Blocks, Swept(Pending, c, b)
    PROVE  Swept(Pending, c, b)'
  <1>0. PICK L : L = Len(steps) + 1
    OBVIOUS
  <1>1. c \notin rs /\ status'[c] = "error"
    <2>1. status[c] = "error"
      BY DEF Swept
    <2>2. ~Live(c)
      BY <2>1 DEF Live
    <2> QED
      BY <2>1, <2>2, ScheduledFacts
  <1>2. Dropped(Pending, b, Now)'
    <2>1. Dropped(Pending, b, Now)
      BY DEF Swept
    <2>2. PICK e : e = Now
      OBVIOUS
    <2>3. Dropped(Pending, b, e)'
      BY <2>1, <2>2, ScheduleDropped
    <2> QED
      BY <2>2, <2>3 DEF Now
  <1>3. ASSUME NEW e \in Pending', e[2] = c, NEW d \in Writes(Work(e)')
        PROVE  Dropped(Pending, d, e)'
    <2>1. e \in Pending /\ Work(e)' = Work(e)
      BY <1>0, <1>1, <1>3, ScheduledPending
    <2>2. Dropped(Pending, d, e) /\ d \in Blocks
      BY <1>3, <2>1, EventFacts DEF Swept
    <2> QED
      BY <2>1, <2>2, ScheduleDropped
  <1> QED
    BY <1>1, <1>2, <1>3 DEF Swept

LEMMA ScheduleCauses ==
    ASSUME TypeOK, RequestOK, StepsOK, CauseOK(Pending, cause), CausesOK,
           NEW rs, NEW a, Scheduled(rs, a)
    PROVE  CauseOK(Pending, cause)' /\ CausesOK'
  <1>1. ran' = ran /\ cause' = cause
    BY DEF Scheduled
  <1>2. ASSUME NEW b \in Blocks, cause'[b] \in Req
        PROVE  Excused(cause[b], b, ran)' \/ Swept(Pending, cause[b], b)'
    <2>1. PICK c, k : c = cause[b] /\ k = ran
      OBVIOUS
    <2>2. c \in Req /\ k \in 0 .. Len(steps) /\ c = cause'[b] /\ k = ran'
      BY <1>1, <1>2, <2>1, StepFacts
    <2>3. Excused(c, b, k) \/ Swept(Pending, c, b)
      BY <2>1, <2>2 DEF CauseOK
    <2>4. Excused(c, b, k)' \/ Swept(Pending, c, b)'
      BY <2>2, <2>3, ScheduleExcused, ScheduleSwept
    <2>5. Excused(c, b, k)' => Excused(cause[b], b, ran)'
      BY <2>2 DEF Excused
    <2>6. Swept(Pending, c, b)' => Swept(Pending, cause[b], b)'
      BY <2>2 DEF Swept
    <2> QED
      BY <2>4, <2>5, <2>6
  <1>3. ASSUME NEW k \in 1 .. ran', NEW r \in DOMAIN steps'[k].work, Live(r)',
               NEW c \in steps'[k].causes[r] \cap Req
        PROVE  \E b \in ToSet(table'[r]) : Excused(c, b, k)'
    <2>1. k \in 1 .. Len(steps) /\ k \in 0 .. Len(steps) /\ k \in 1 .. ran
      BY <1>1, StepFacts
    <2>2. steps'[k] = steps[k] /\ r \in DOMAIN steps[k].work /\ r \in Req
      BY <1>3, <2>1, ScheduledFacts, StepFacts
    <2>3. Live(r) /\ ToSet(table[r]) \subseteq ToSet(table'[r])
      BY <1>3, <2>2, ScheduledFacts
    <2>4. PICK b \in ToSet(table[r]) : Excused(c, b, k)
      BY <1>3, <2>1, <2>2, <2>3 DEF CausesOK
    <2>5. Excused(c, b, k)'
      BY <2>1, <2>4, ScheduleExcused
    <2> QED
      BY <2>3, <2>4, <2>5
  <1> QED
    BY <1>2, <1>3 DEF CauseOK, CausesOK

-----------------------------------------------------------------------------
(* WorkerStep: the worker executes step R. *)
ExecutedAt(R, at) ==
    /\ R = ran + 1 /\ ran < Len(steps)
    /\ \A r \in DOMAIN steps[R].work : at[r] \in steps[R].work[r].from .. steps[R].work[r].to
    /\ fails + Cardinality(FailedRequests(steps[R].work, at)) <= MaxFails
    /\ Execute(at)

LEMMA WorkerStepIs ==
    ASSUME WorkerStep
    PROVE  \E R, at : ExecutedAt(R, at)
  <1>1. PICK at \in [DOMAIN steps[ran + 1].work -> 0 .. Max(Prompts)] :
          /\ \A r \in DOMAIN steps[ran + 1].work :
               at[r] \in steps[ran + 1].work[r].from .. steps[ran + 1].work[r].to
          /\ fails + Cardinality(FailedRequests(steps[ran + 1].work, at)) <= MaxFails
          /\ Execute(at)
    BY DEF WorkerStep
  <1>2. PICK R : R = ran + 1
    OBVIOUS
  <1>3. ran < Len(steps)
    BY DEF WorkerStep
  <1>4. ExecutedAt(R, at)
    BY <1>1, <1>2, <1>3 DEF ExecutedAt
  <1> QED
    BY <1>4

LEMMA OtherSteps ==
    ASSUME TypeOK, StepsOK, NEW R, NEW at, ExecutedAt(R, at)
    PROVE  \A k \in 1 .. Len(steps) : k # R => steps'[k] = steps[k]
  <1> DEFINE F == FailedRequests(steps[R].work, at)
  <1>1. PICK C : steps' = [steps EXCEPT ![ran + 1].failed = F, ![ran + 1].causes = C]
    BY DEF ExecutedAt, Execute
  <1> HIDE DEF F
  <1>2. R = ran + 1
    BY DEF ExecutedAt
  <1>3. DOMAIN steps = 1 .. Len(steps)
    BY StepFacts
  <1> QED
    BY <1>1, <1>2, <1>3

LEMMA ExecutedFacts ==
    ASSUME TypeOK, StepsOK, NEW R, NEW at, ExecutedAt(R, at)
    PROVE  /\ R \in Nat \ {0} /\ R = ran + 1 /\ R \in 1 .. Len(steps) /\ ran' = R
           /\ Len(steps') = Len(steps) /\ DOMAIN steps' = 1 .. Len(steps)
           /\ \A k \in 1 .. Len(steps) : steps'[k].work = steps[k].work
           /\ \A k \in 1 .. ran : k \in 1 .. Len(steps) /\ steps'[k] = steps[k]
           /\ steps'[R].failed = FailedRequests(steps[R].work, at)
           /\ steps'[R].causes = [r \in DOMAIN steps[R].work |->
                                   {cause'[b] : b \in ToSet(steps[R].work[r].table)} \ {0}]
           /\ steps'[R] = [work |-> steps'[R].work, failed |-> steps'[R].failed,
                           causes |-> steps'[R].causes]
           /\ cause' = Computed(steps[R].work, at)
           /\ fails' = fails + Cardinality(FailedRequests(steps[R].work, at))
           /\ prompt' = prompt /\ status' = status /\ computed' = computed /\ flying' = flying
           /\ table' = table /\ hash' = hash /\ served' = served /\ missed' = missed
           /\ aborts' = aborts
           /\ \E U : steps' \in Seq(U)
  <1>1. /\ Len(steps) \in Nat /\ DOMAIN steps = 1 .. Len(steps) /\ ran \in Nat
        /\ \A k \in 1 .. Len(steps) :
             steps[k] = [work |-> steps[k].work, failed |-> steps[k].failed,
                         causes |-> steps[k].causes]
    BY StepFacts
  <1>2. R = ran + 1 /\ R \in 1 .. Len(steps) /\ R \in Nat \ {0}
    BY <1>1 DEF ExecutedAt
  <1> DEFINE work == steps[R].work
             F == FailedRequests(work, at)
             C == [r \in DOMAIN work |-> {cause'[b] : b \in ToSet(work[r].table)} \ {0}]
  <1>3. PICK after \in {Computed(work, at)} :
          /\ cause' = after
          /\ steps' = [steps EXCEPT ![R].failed = F,
                           ![R].causes = [r \in DOMAIN work |->
                              {after[b] : b \in ToSet(work[r].table)} \ {0}]]
          /\ ran' = R /\ fails' = fails + Cardinality(F)
          /\ UNCHANGED <<prompt, status, computed, flying, table, hash, served, missed, aborts>>
    BY <1>2 DEF ExecutedAt, Execute
  <1>4. steps' = [steps EXCEPT ![R].failed = F, ![R].causes = C]
    BY <1>3
  <1> HIDE DEF F, C
  <1>5. /\ steps' = [steps EXCEPT ![R] = [work |-> work, failed |-> F, causes |-> C]]
    <2>1. PICK x : x = steps[R]
      OBVIOUS
    <2>2. x = [work |-> x.work, failed |-> x.failed, causes |-> x.causes]
      BY <1>1, <1>2, <2>1
    <2>3. PICK y : y = [x EXCEPT !.failed = F, !.causes = C]
      OBVIOUS
    <2>4. y = [work |-> x.work, failed |-> F, causes |-> C]
      BY <2>2, <2>3
    <2>5. steps' = [steps EXCEPT ![R] = y]
      BY <1>1, <1>2, <1>4, <2>1, <2>3
    <2> QED
      BY <2>1, <2>4, <2>5
  <1>6. /\ DOMAIN steps' = 1 .. Len(steps) /\ Len(steps') = Len(steps)
        /\ \A k \in 1 .. Len(steps) : k # R => steps'[k] = steps[k]
        /\ steps'[R] = [work |-> work, failed |-> F, causes |-> C]
        /\ \E U : steps' \in Seq(U)
    <2> DEFINE x == [work |-> work, failed |-> F, causes |-> C]
               S == {steps[k] : k \in DOMAIN steps} \cup {x}
    <2> HIDE DEF x
    <2>1. steps \in Seq(S)
      <3>1. \E U : steps \in Seq(U)
        BY DEF StepsOK
      <3> QED
        BY <3>1, <1>1
    <2>2. steps' = [steps EXCEPT ![R] = x] /\ x \in S
      BY <1>5 DEF x
    <2> HIDE DEF S
    <2>3. steps' \in Seq(S) /\ Len(steps') = Len(steps)
      BY <1>2, <2>1, <2>2
    <2>4. /\ DOMAIN steps' = 1 .. Len(steps)
          /\ \A k \in 1 .. Len(steps) : k # R => steps'[k] = steps[k]
          /\ steps'[R] = x
      BY <1>1, <1>2, <2>2
    <2> QED
      BY <2>3, <2>4 DEF x
  <1>7. \A k \in 1 .. Len(steps) : steps'[k].work = steps[k].work
    BY <1>6
  <1>8. \A k \in 1 .. ran : k \in 1 .. Len(steps) /\ k # R
    BY <1>1, <1>2
  <1>9. cause' = Computed(work, at)
    BY <1>3
  <1>10. /\ steps'[R].failed = F /\ steps'[R].causes = C
         /\ steps'[R] = [work |-> steps'[R].work, failed |-> steps'[R].failed,
                         causes |-> steps'[R].causes]
    BY <1>6
  <1> QED
    BY <1>2, <1>3, <1>6, <1>7, <1>8, <1>9, <1>10 DEF F, C

(* What is still to come when the worker is halfway through step ran + 1:   *)
(* it has computed for the requests up to n.                                *)
Coming(n) == {e \in Pending : e[1] > ran + 1 \/ e[2] > n}

LEMMA ComingFacts ==
    ASSUME TypeOK, StepsOK, NEW R, R = ran + 1, NEW n \in 0 .. N - 1
    PROVE  /\ \A e \in Coming(n) : e \in Pending /\ Precedes(Now, e)
           /\ n + 1 \in DOMAIN steps[R].work /\ R <= Len(steps) =>
                /\ <<R, n + 1>> \in Coming(n)
                /\ Work(<<R, n + 1>>) = steps[R].work[n + 1]
                /\ Coming(n + 1) = Coming(n) \ {<<R, n + 1>>}
                /\ \A e \in Coming(n) : ~Precedes(e, <<R, n + 1>>)
           /\ n + 1 \notin DOMAIN steps[R].work => Coming(n + 1) = Coming(n)
  <1>1. /\ \A e \in Pending : /\ e = <<e[1], e[2]>> /\ e[1] \in ran + 1 .. Len(steps)
                              /\ e[1] \in Nat \ {0} /\ e[2] \in Req
                              /\ e[1] \in 1 .. Len(steps) /\ e[2] \in DOMAIN steps[e[1]].work
        /\ \A k \in ran + 1 .. Len(steps) : \A r \in DOMAIN steps[k].work : <<k, r>> \in Pending
    BY PendingIs
  <1>2. ran \in Nat /\ Len(steps) \in Nat /\ R \in Nat \ {0} /\ n \in Nat
    BY StepFacts, Constants
  <1>3. \A e \in Coming(n) : e \in Pending /\ Precedes(Now, e)
    BY <1>1 DEF Coming, Precedes, Now
  <1>4. \A e \in Pending : /\ e[1] \in Nat /\ e[2] \in Nat /\ e[1] >= R /\ (e[1] > R \/ e[1] = R)
    <2>1. \A q \in Req : q \in Nat
      BY Constants
    <2> QED
      BY <1>1, <1>2, <2>1
  <1>5. ASSUME n + 1 \in DOMAIN steps[R].work, R <= Len(steps)
        PROVE  /\ <<R, n + 1>> \in Coming(n)
               /\ Work(<<R, n + 1>>) = steps[R].work[n + 1]
               /\ Coming(n + 1) = Coming(n) \ {<<R, n + 1>>}
               /\ \A e \in Coming(n) : ~Precedes(e, <<R, n + 1>>)
    <2>1. <<R, n + 1>> \in Pending
      BY <1>1, <1>2, <1>5
    <2>2. <<R, n + 1>> \in Coming(n)
      BY <1>2, <2>1 DEF Coming
    <2>3. Work(<<R, n + 1>>) = steps[R].work[n + 1]
      BY DEF Work
    <2>4. ASSUME NEW e \in Pending
          PROVE  /\ e \in Coming(n + 1) <=> e \in Coming(n) /\ e # <<R, n + 1>>
                 /\ e \in Coming(n) => ~Precedes(e, <<R, n + 1>>)
      <3>1. e \in Coming(n + 1) <=> e[1] > R \/ e[2] > n + 1
        BY DEF Coming
      <3>2. e \in Coming(n) <=> e[1] > R \/ e[2] > n
        BY DEF Coming
      <3>3. e = <<R, n + 1>> <=> e[1] = R /\ e[2] = n + 1
        BY <1>1
      <3>4. Precedes(e, <<R, n + 1>>) <=> e[1] < R \/ (e[1] = R /\ e[2] < n + 1)
        BY DEF Precedes
      <3>5. PICK i, j : i = e[1] /\ j = e[2] /\ i \in Nat /\ j \in Nat /\ i >= R
        BY <1>4
      <3> QED
        BY <1>2, <3>1, <3>2, <3>3, <3>4, <3>5
    <2>5. \A e : (e \in Coming(n) => e \in Pending) /\ (e \in Coming(n + 1) => e \in Pending)
      BY DEF Coming
    <2>6. Coming(n + 1) = Coming(n) \ {<<R, n + 1>>}
      BY <2>4, <2>5
    <2>7. \A e \in Coming(n) : ~Precedes(e, <<R, n + 1>>)
      BY <2>4, <2>5
    <2> QED
      BY <2>2, <2>3, <2>6, <2>7
  <1>6. ASSUME n + 1 \notin DOMAIN steps[R].work PROVE Coming(n + 1) = Coming(n)
    <2>1. ASSUME NEW e \in Pending PROVE e \in Coming(n + 1) <=> e \in Coming(n)
      <3>1. e \in Coming(n + 1) <=> e[1] > R \/ e[2] > n + 1
        BY DEF Coming
      <3>2. e \in Coming(n) <=> e[1] > R \/ e[2] > n
        BY DEF Coming
      <3>3. ~(e[1] = R /\ e[2] = n + 1)
        BY <1>1, <1>6
      <3>4. PICK i, j : i = e[1] /\ j = e[2] /\ i \in Nat /\ j \in Nat /\ i >= R
        BY <1>4
      <3> QED
        BY <1>2, <3>1, <3>2, <3>3, <3>4
    <2>2. \A e : (e \in Coming(n) => e \in Pending) /\ (e \in Coming(n + 1) => e \in Pending)
      BY DEF Coming
    <2> QED
      BY <2>1, <2>2
  <1> QED
    BY <1>3, <1>5, <1>6

LEMMA ComputeFacts ==
    ASSUME NEW x \in [Blocks -> Req \cup {0, -1}], NEW r \in Req, NEW w, NEW t,
           NEW y, y = Compute(x, r, w, t)
    PROVE  /\ y \in [Blocks -> Req \cup {0, -1}]
           /\ \A b \in Blocks :
                \/ b \notin Writes(w) /\ y[b] = x[b]
                \/ b \in Writes(w) /\ y[b] \in {0, -1}
                \/ /\ b \in Writes(w) /\ y[b] = r
                   /\ \E j \in DOMAIN w.table : w.table[j] = b /\ t < w.to /\ j * BlockSize > t
                \/ /\ b \in Writes(w) /\ y[b] = r
                   /\ \E d \in Reads(w) : x[d] = r
  <1> DEFINE under == {x[w.table[i]] : i \in {j \in DOMAIN w.table : (j - 1) * BlockSize < w.from}}
             fill(i) == IF (t < w.to /\ i * BlockSize > t) \/ r \in under THEN r
                        ELSE IF under \subseteq {0} THEN 0 ELSE -1
             written(b) == \E i \in DOMAIN w.table : w.table[i] = b /\ i * BlockSize > w.from
             at(b) == CHOOSE i \in DOMAIN w.table : w.table[i] = b
  <1>1. y = [b \in Blocks |-> IF written(b) THEN fill(at(b)) ELSE x[b]]
    BY DEF Compute
  <1>2. \A b : written(b) <=> b \in Writes(w)
    BY DEF Writes
  <1>3. ASSUME NEW b, written(b) PROVE at(b) \in DOMAIN w.table /\ w.table[at(b)] = b
    BY <1>3
  <1>4. r \in under => \E d \in Reads(w) : x[d] = r
    BY DEF Reads
  <1> HIDE DEF written, at, under
  <1>5. ASSUME NEW b \in Blocks
        PROVE  /\ y[b] \in Req \cup {0, -1}
               /\ \/ b \notin Writes(w) /\ y[b] = x[b]
                  \/ b \in Writes(w) /\ y[b] \in {0, -1}
                  \/ /\ b \in Writes(w) /\ y[b] = r
                     /\ \E j \in DOMAIN w.table : w.table[j] = b /\ t < w.to /\ j * BlockSize > t
                  \/ /\ b \in Writes(w) /\ y[b] = r
                     /\ \E d \in Reads(w) : x[d] = r
    <2>1. CASE ~written(b)
      BY <1>1, <1>2, <2>1
    <2>2. CASE written(b)
      <3>1. y[b] = fill(at(b)) /\ b \in Writes(w)
        BY <1>1, <1>2, <2>2
      <3>2. PICK j \in DOMAIN w.table : j = at(b) /\ w.table[j] = b
        BY <1>3, <2>2
      <3>3. y[b] = IF (t < w.to /\ j * BlockSize > t) \/ r \in under THEN r
                   ELSE IF under \subseteq {0} THEN 0 ELSE -1
        BY <3>1, <3>2
      <3>4. CASE t < w.to /\ j * BlockSize > t
        BY <3>1, <3>2, <3>3, <3>4
      <3>5. CASE r \in under
        BY <1>4, <3>1, <3>3, <3>5
      <3>6. CASE ~(t < w.to /\ j * BlockSize > t) /\ r \notin under
        BY <3>1, <3>3, <3>6
      <3> QED
        BY <3>4, <3>5, <3>6
    <2> QED
      BY <2>1, <2>2
  <1>6. y \in [Blocks -> Req \cup {0, -1}]
    BY <1>1, <1>5
  <1> QED
    BY <1>5, <1>6

-----------------------------------------------------------------------------
(* Halfway through executing a step: x is the KV's state when the worker    *)
(* has computed for the requests up to n.                                   *)
Halfway(R, n, x) ==
    /\ x \in [Blocks -> Req \cup {0, -1}]
    /\ \A b \in Blocks : x[b] \in Req => Excused(x[b], b, R)' \/ Swept(Coming(n), x[b], b)
    /\ \A r \in DOMAIN steps[R].work : r <= n /\ Live(r) =>
        \A b \in ToSet(steps[R].work[r].table) : x[b] \in Req => Excused(x[b], b, R)'

(* An excuse stands after the step. *)
LEMMA ExecutedExcuse ==
    ASSUME TypeOK, StepsOK, NEW R, NEW at, ExecutedAt(R, at),
           NEW c, NEW b, NEW k \in 0 .. ran, Excused(c, b, k)
    PROVE  Excused(c, b, k)'
  <1>1. CASE c \in missed
    BY <1>1, ExecutedFacts DEF Excused
  <1>2. ASSUME NEW j \in 1 .. k, c \in steps[j].failed,
               Live(c) => b \in BlocksFrom(c, steps[j].work[c].from)
        PROVE  Excused(c, b, k)'
    <2>1. j \in 1 .. ran
      BY StepFacts
    <2>2. steps'[j] = steps[j] /\ status' = status /\ table' = table
      BY <2>1, ExecutedFacts
    <2>3. Live(c)' => b \in BlocksFrom(c, steps[j].work[c].from)'
      BY <1>2, <2>2 DEF Live, BlocksFrom
    <2> QED
      BY <1>2, <2>2, <2>3 DEF Excused
  <1> QED
    BY <1>1, <1>2 DEF Excused

LEMMA ExcuseLater ==
    ASSUME NEW c, NEW b, NEW k \in Nat, NEW m \in Nat, k <= m
    PROVE  Excused(c, b, k)' => Excused(c, b, m)'
  <1>1. 1 .. k \subseteq 1 .. m
    OBVIOUS
  <1> QED
    BY <1>1 DEF Excused

LEMMA HalfwayStart ==
    ASSUME TypeOK, StepsOK, CauseOK(Pending, cause), NEW R, NEW at, ExecutedAt(R, at),
           NEW x, x = cause
    PROVE  Halfway(R, 0, x)
  <1>1. R \in Nat \ {0} /\ R = ran + 1 /\ ran \in Nat /\ ran \in 0 .. ran
        /\ R \in 1 .. Len(steps)
    <2>1. R \in Nat \ {0} /\ R = ran + 1 /\ R \in 1 .. Len(steps)
      BY ExecutedFacts
    <2>2. ran \in Nat
      BY StepFacts
    <2> QED
      BY <2>1, <2>2
  <1>2. Coming(0) = Pending
    <2>1. \A e \in Pending : e[2] > 0
      BY PendingIs, Constants
    <2> QED
      BY <2>1 DEF Coming
  <1>3. x \in [Blocks -> Req \cup {0, -1}]
    BY DEF TypeOK
  <1>4. ASSUME NEW b \in Blocks, x[b] \in Req
        PROVE  Excused(x[b], b, R)' \/ Swept(Coming(0), x[b], b)
    <2>1. PICK c : c = x[b]
      OBVIOUS
    <2>2. PICK k : k = ran
      OBVIOUS
    <2>3. Excused(c, b, k) \/ Swept(Pending, c, b)
      BY <1>4, <2>1, <2>2 DEF CauseOK
    <2>4. Excused(c, b, k) => Excused(c, b, R)'
      <3>1. Excused(c, b, k) => Excused(c, b, k)'
        BY <1>1, <2>2, ExecutedExcuse
      <3>2. k \in Nat /\ R \in Nat /\ k <= R
        BY <1>1, <2>2
      <3> QED
        BY <3>1, <3>2, ExcuseLater
    <2> QED
      BY <1>2, <2>1, <2>3, <2>4
  <1>5. \A r \in DOMAIN steps[R].work : ~(r <= 0)
    <2>1. DOMAIN steps[R].work \subseteq Req
      BY <1>1, StepFacts
    <2>2. \A r \in Req : ~(r <= 0)
      BY Constants
    <2> QED
      BY <2>1, <2>2
  <1> QED
    BY <1>3, <1>4, <1>5 DEF Halfway

(* Dropped looks at what comes after an event only, so it does not mind     *)
(* that an earlier event is over.                                           *)
LEMMA DroppedLater ==
    ASSUME NEW E, NEW D, D \subseteq E, NEW b, NEW e, Dropped(E, b, e),
           \A f \in E \ D : ~Precedes(e, f) \/ b \notin Writes(Work(f))
    PROVE  Dropped(D, b, e)
  <1>1. \A f \in E : Precedes(e, f) /\ b \in Writes(Work(f)) => f \in D
    OBVIOUS
  <1>2. Held(b) => \E f \in D : Precedes(e, f) /\ b \in Writes(Work(f))
    BY <1>1 DEF Dropped
  <1>3. ASSUME NEW g \in D, Live(g[2]), b \in Reads(Work(g))
        PROVE  \E f \in D : Precedes(e, f) /\ Precedes(f, g) /\ b \in Writes(Work(f))
    <2>1. g \in E
      OBVIOUS
    <2>2. PICK f \in E : Precedes(e, f) /\ Precedes(f, g) /\ b \in Writes(Work(f))
      BY <1>3, <2>1 DEF Dropped
    <2> QED
      BY <1>1, <2>2
  <1> QED
    BY <1>2, <1>3 DEF Dropped

(* When the worker computes for the first request still to come, nothing    *)
(* changes for what is dropped: where the request writes, the block's       *)
(* contents are gone, and what it writes itself is dropped if it was swept. *)
LEMMA SweptStep ==
    ASSUME TypeOK, StepsOK, NEW R, R = ran + 1, R <= Len(steps), NEW n \in 0 .. N - 1,
           n + 1 \in DOMAIN steps[R].work, NEW w, w = steps[R].work[n + 1],
           NEW c, NEW b, Swept(Coming(n), c, b)
    PROVE  /\ b \notin Writes(w) => Swept(Coming(n + 1), c, b)
           /\ c = n + 1 => \A d \in Writes(w) : Swept(Coming(n + 1), c, d)
           /\ ~(Live(n + 1) /\ b \in Reads(w))
  <1>0. PICK o : o = <<R, n + 1>>
    OBVIOUS
  <1>1. /\ o \in Coming(n) /\ Work(o) = w /\ Coming(n + 1) = Coming(n) \ {o}
        /\ \A e \in Coming(n) : ~Precedes(e, o) /\ Precedes(Now, e)
        /\ o[2] = n + 1
    BY <1>0, ComingFacts
  <1>2. /\ status[c] = "error" /\ Dropped(Coming(n), b, Now)
        /\ \A e \in Coming(n) : e[2] = c => \A d \in Writes(Work(e)) : Dropped(Coming(n), d, e)
    BY DEF Swept
  <1>3. \A f \in Coming(n) \ Coming(n + 1) : f = o
    BY <1>1
  <1>4. Coming(n + 1) \subseteq Coming(n)
    BY <1>1
  <1>5. ASSUME NEW e \in Coming(n), NEW d, Dropped(Coming(n), d, e)
        PROVE  Dropped(Coming(n + 1), d, e)
    <2>1. \A f \in Coming(n) \ Coming(n + 1) : ~Precedes(e, f)
      BY <1>1, <1>3
    <2> QED
      BY <1>4, <1>5, <2>1, DroppedLater
  <1>6. \A e \in Coming(n + 1) : e[2] = c => \A d \in Writes(Work(e)) : Dropped(Coming(n + 1), d, e)
    BY <1>2, <1>4, <1>5
  <1>7. ASSUME b \notin Writes(w) PROVE Swept(Coming(n + 1), c, b)
    <2>1. \A f \in Coming(n) \ Coming(n + 1) : b \notin Writes(Work(f))
      BY <1>1, <1>3, <1>7
    <2>2. Dropped(Coming(n + 1), b, Now)
      BY <1>2, <1>4, <2>1, DroppedLater
    <2> QED
      BY <1>2, <1>6, <2>2 DEF Swept
  <1>8. ASSUME c = n + 1, NEW d \in Writes(w) PROVE Swept(Coming(n + 1), c, d)
    <2>1. Dropped(Coming(n + 1), d, o)
      BY <1>1, <1>2, <1>5, <1>8
    <2>2. \A e \in Coming(n + 1) : Precedes(Now, e)
      BY <1>1
    <2>3. Dropped(Coming(n + 1), d, Now)
      <3>1. Held(d) => \E f \in Coming(n + 1) : Precedes(Now, f) /\ d \in Writes(Work(f))
        BY <2>1, <2>2 DEF Dropped
      <3>2. \A g \in Coming(n + 1) : Live(g[2]) /\ d \in Reads(Work(g)) =>
              \E f \in Coming(n + 1) : Precedes(Now, f) /\ Precedes(f, g) /\ d \in Writes(Work(f))
        BY <2>1, <2>2 DEF Dropped
      <3> QED
        BY <3>1, <3>2 DEF Dropped
    <2> QED
      BY <1>2, <1>6, <2>3 DEF Swept
  <1>9. ASSUME Live(n + 1), b \in Reads(w) PROVE FALSE
    <2>1. o \in Coming(n) /\ Live(o[2]) /\ b \in Reads(Work(o))
      BY <1>1, <1>9
    <2>2. PICK f \in Coming(n) : Precedes(f, o)
      BY <1>2, <2>1 DEF Dropped
    <2> QED
      BY <1>1, <2>2
  <1> QED
    BY <1>7, <1>8, <1>9

(* The request's own failure is in the step's output, and an excuse for     *)
(* what it read from is one for what it writes.                             *)
LEMMA OwnExcuse ==
    ASSUME TypeOK, RequestOK, StepsOK, NEW R, NEW at, ExecutedAt(R, at),
           NEW r \in DOMAIN steps[R].work, NEW w, w = steps[R].work[r],
           NEW b \in Writes(w)
    PROVE  /\ at[r] < w.to => Excused(r, b, R)'
           /\ \A d : Excused(r, d, R)' => Excused(r, b, R)'
  <1>1. /\ R \in Nat \ {0} /\ R = ran + 1 /\ R \in 1 .. Len(steps)
        /\ status' = status /\ table' = table /\ missed' = missed
    BY ExecutedFacts
  <1>2. /\ \A k \in 1 .. Len(steps) : steps'[k].work = steps[k].work
        /\ steps'[R].failed = FailedRequests(steps[R].work, at)
    BY ExecutedFacts
  <1>o. \A k \in 1 .. Len(steps) : k # R => steps'[k] = steps[k]
    BY OtherSteps
  <1>3. /\ r \in Req /\ w.from \in Nat
        /\ Live(r) => \A i \in DOMAIN w.table : i \in DOMAIN table[r] /\ w.table[i] = table[r][i]
        /\ \A j \in 1 .. R - 1 : r \in DOMAIN steps[j].work =>
             /\ steps[j].work[r].to <= w.from
             /\ steps[j].work[r].from \in Nat /\ steps[j].work[r].from < w.from
    <2>1. WorkOK(R, r) /\ r \in Req
      BY <1>1, StepFacts
    <2>2. w.from \in Nat
      BY <1>1, WorkFacts
    <2>3. ASSUME NEW j \in 1 .. R - 1, r \in DOMAIN steps[j].work
          PROVE  /\ steps[j].work[r].to <= w.from
                 /\ steps[j].work[r].from \in Nat /\ steps[j].work[r].from < w.from
      <3>1. PICK v : v = steps[j].work[r]
        OBVIOUS
      <3>2. v.to <= w.from
        BY <2>1, <2>3, <3>1 DEF WorkOK
      <3>3. j \in 1 .. Len(steps)
        BY <1>1, StepFacts
      <3>4. v.from \in Nat /\ v.to \in Nat /\ v.from < v.to
        BY <2>3, <3>1, <3>3, WorkFacts
      <3> QED
        BY <2>2, <3>1, <3>2, <3>4
    <2> QED
      BY <2>1, <2>2, <2>3 DEF WorkOK
  <1>4. PICK i \in DOMAIN w.table : b = w.table[i] /\ i * BlockSize > w.from
    BY DEF Writes
  <1>5. i \in Nat /\ i * BlockSize \in Nat
    <2>1. i \in Nat
      <3>1. DOMAIN w.table = 1 .. Len(w.table) /\ w.table \in Seq(Blocks)
        BY <1>1, WorkFacts
      <3> QED
        BY <3>1
    <2> QED
      BY <2>1, Constants, Products
  <1>6. ASSUME NEW t \in Nat, t <= w.from, Live(r) PROVE b \in BlocksFrom(r, t)
    <2>1. i * BlockSize > t
      BY <1>3, <1>4, <1>5, <1>6
    <2>2. i > t \div BlockSize
      BY <1>5, <2>1, PastToken
    <2>3. i \in DOMAIN table[r] /\ b = table[r][i]
      BY <1>3, <1>4, <1>6
    <2> QED
      BY <2>2, <2>3 DEF BlocksFrom
  <1>7. ASSUME NEW j \in 1 .. R, r \in steps'[j].failed PROVE Excused(r, b, R)'
    <2>1. j \in 1 .. Len(steps) /\ r \in DOMAIN steps[j].work /\ steps'[j].work = steps[j].work
      <3>1. j \in 1 .. Len(steps)
        BY <1>1, StepFacts
      <3>2. CASE j = R
        BY <1>2, <3>1, <3>2
      <3>3. CASE j # R
        <4>1. steps'[j] = steps[j]
          BY <1>o, <3>1, <3>3
        <4> QED
          BY <1>7, <3>1, <4>1, StepFacts
      <3> QED
        BY <3>2, <3>3
    <2>2. PICK t : t = steps[j].work[r].from
      OBVIOUS
    <2>3. t \in Nat /\ t <= w.from
      <3>1. CASE j = R
        BY <1>3, <2>2, <3>1
      <3>2. CASE j # R
        <4>1. j \in 1 .. R - 1
          BY <1>1, <3>2
        <4> QED
          BY <1>3, <2>1, <2>2, <4>1
      <3> QED
        BY <3>1, <3>2
    <2>4. Live(r)' => b \in BlocksFrom(r, t)'
      BY <1>1, <1>6, <2>3 DEF Live, BlocksFrom
    <2>5. Live(r)' => b \in BlocksFrom(r, steps[j].work[r].from)'
      BY <2>1, <2>2, <2>4 DEF BlocksFrom
    <2> QED
      BY <1>7, <2>5 DEF Excused
  <1>8. ASSUME at[r] < w.to PROVE Excused(r, b, R)'
    <2>1. R \in 1 .. R /\ r \in steps'[R].failed
      BY <1>1, <1>2, <1>8 DEF FailedRequests
    <2> QED
      BY <1>7, <2>1
  <1>9. ASSUME NEW d, Excused(r, d, R)' PROVE Excused(r, b, R)'
    <2>1. CASE r \in missed'
      BY <2>1 DEF Excused
    <2>2. CASE \E j \in 1 .. R : r \in steps'[j].failed
      BY <1>7, <2>2
    <2> QED
      BY <1>9, <2>1, <2>2 DEF Excused
  <1> QED
    BY <1>8, <1>9

LEMMA HalfwayStep ==
    ASSUME TypeOK, RequestOK, StepsOK, OrderOK, NEW R, NEW at, ExecutedAt(R, at),
           NEW n \in 0 .. N - 1, NEW x, Halfway(R, n, x),
           NEW y, y = ComputeOne(steps[R].work, at, n + 1, x)
    PROVE  Halfway(R, n + 1, y)
  <1>1. PICK r : r = n + 1
    OBVIOUS
  <1>2. /\ R \in Nat \ {0} /\ R = ran + 1 /\ R \in 1 .. Len(steps)
    BY ExecutedFacts
  <1>3. /\ r \in Req /\ DOMAIN steps[R].work \subseteq Req
        /\ \A q \in Req : q \in Nat /\ (q <= r <=> q <= n \/ q = r) /\ (q <= n => q < r)
    <2>1. \A q \in Nat : (q <= r <=> q <= n \/ q = r) /\ (q <= n => q < r)
      BY <1>1, Constants
    <2>2. r \in Req
      BY <1>1, Constants
    <2> QED
      BY <1>2, <2>1, <2>2, StepFacts, Constants
  <1>4. /\ x \in [Blocks -> Req \cup {0, -1}]
        /\ \A b \in Blocks : x[b] \in Req => Excused(x[b], b, R)' \/ Swept(Coming(n), x[b], b)
        /\ \A q \in DOMAIN steps[R].work : q <= n /\ Live(q) =>
            \A b \in ToSet(steps[R].work[q].table) : x[b] \in Req => Excused(x[b], b, R)'
    BY DEF Halfway
  <1>5. CASE r \notin DOMAIN steps[R].work
    <2>1. y = x
      BY <1>1, <1>5 DEF ComputeOne
    <2>2. Coming(r) = Coming(n)
      BY <1>1, <1>2, <1>5, ComingFacts
    <2>3. \A q \in DOMAIN steps[R].work : q <= r => q <= n
      BY <1>3, <1>5
    <2>4. Halfway(R, r, x)
      BY <1>4, <2>2, <2>3 DEF Halfway
    <2> QED
      BY <1>1, <2>1, <2>4
  <1>6. CASE r \in DOMAIN steps[R].work
    <2>1. PICK w : w = steps[R].work[r]
      OBVIOUS
    <2>2. PICK t : t = at[r]
      OBVIOUS
    <2>3. y = Compute(x, r, w, t)
      BY <1>1, <1>6, <2>1, <2>2 DEF ComputeOne
    <2>4. /\ y \in [Blocks -> Req \cup {0, -1}]
          /\ \A b \in Blocks :
               \/ b \notin Writes(w) /\ y[b] = x[b]
               \/ b \in Writes(w) /\ y[b] \in {0, -1}
               \/ /\ b \in Writes(w) /\ y[b] = r
                  /\ \E j \in DOMAIN w.table : w.table[j] = b /\ t < w.to /\ j * BlockSize > t
               \/ /\ b \in Writes(w) /\ y[b] = r
                  /\ \E d \in Reads(w) : x[d] = r
      BY <1>3, <1>4, <2>3, ComputeFacts
    <2>5. /\ Writes(w) \subseteq ToSet(w.table) /\ Reads(w) \subseteq ToSet(w.table)
          /\ ToSet(w.table) \subseteq Blocks
      BY <1>2, <1>6, <2>1, WorkTables
    <2>6. ASSUME NEW b \in Writes(w)
          PROVE  /\ t < w.to => Excused(r, b, R)'
                 /\ \A d : Excused(r, d, R)' => Excused(r, b, R)'
      BY <1>6, <2>1, <2>2, <2>6, OwnExcuse
    <2>7. ASSUME NEW c, NEW b, Swept(Coming(n), c, b)
          PROVE  /\ b \notin Writes(w) => Swept(Coming(r), c, b)
                 /\ c = r => \A d \in Writes(w) : Swept(Coming(r), c, d)
                 /\ ~(Live(r) /\ b \in Reads(w))
      <3>1. R <= Len(steps) /\ n + 1 \in DOMAIN steps[R].work /\ w = steps[R].work[n + 1]
        BY <1>1, <1>2, <1>6, <2>1, StepFacts
      <3> QED
        BY <1>1, <1>2, <2>7, <3>1, SweptStep
    <2>8. ASSUME NEW b \in Blocks, y[b] \in Req, b \in Writes(w)
          PROVE  y[b] = r /\ (Excused(r, b, R)' \/ Swept(Coming(r), r, b))
      <3>1. y[b] \notin {0, -1}
        BY <2>8, Constants
      <3>2. CASE y[b] = r /\ t < w.to
        BY <2>6, <2>8, <3>2
      <3>3. ASSUME NEW d \in Reads(w), x[d] = r, y[b] = r
            PROVE  y[b] = r /\ (Excused(r, b, R)' \/ Swept(Coming(r), r, b))
        <4>1. Excused(r, d, R)' \/ Swept(Coming(n), r, d)
          BY <1>3, <1>4, <2>5, <3>3
        <4>2. Excused(r, d, R)' => Excused(r, b, R)'
          BY <2>6, <2>8
        <4>3. Swept(Coming(n), r, d) => Swept(Coming(r), r, b)
          BY <2>7, <2>8
        <4> QED
          BY <3>3, <4>1, <4>2, <4>3
      <3> QED
        BY <2>4, <2>8, <3>1, <3>2, <3>3
    <2>9. ASSUME NEW b \in Blocks, y[b] \in Req
          PROVE  Excused(y[b], b, R)' \/ Swept(Coming(r), y[b], b)
      <3>1. CASE b \in Writes(w)
        BY <2>8, <2>9, <3>1
      <3>2. CASE b \notin Writes(w)
        <4>1. PICK c : c = x[b] /\ c = y[b] /\ c \in Req
          BY <2>4, <2>9, <3>2
        <4>2. Excused(c, b, R)' \/ Swept(Coming(n), c, b)
          BY <1>4, <4>1
        <4>3. Swept(Coming(n), c, b) => Swept(Coming(r), c, b)
          BY <2>7, <3>2
        <4> QED
          BY <4>1, <4>2, <4>3
      <3> QED
        BY <3>1, <3>2
    <2>10. ASSUME NEW q \in DOMAIN steps[R].work, q <= r, Live(q),
                  NEW b \in ToSet(steps[R].work[q].table), y[b] \in Req
           PROVE  Excused(y[b], b, R)'
      <3>0. b \in Blocks
        BY <1>2, <2>10, WorkTables
      <3>1. CASE q = r /\ b \in Writes(w)
        <4>1. y[b] = r /\ (Excused(r, b, R)' \/ Swept(Coming(r), r, b))
          BY <2>8, <2>10, <3>0, <3>1
        <4>2. ~Swept(Coming(r), r, b)
          BY <2>10, <3>1 DEF Swept, Live
        <4> QED
          BY <4>1, <4>2
      <3>2. CASE q = r /\ b \notin Writes(w)
        <4>1. PICK c : c = x[b] /\ c = y[b] /\ c \in Req
          BY <2>4, <2>10, <3>0, <3>2
        <4>2. Excused(c, b, R)' \/ Swept(Coming(n), c, b)
          BY <1>4, <3>0, <4>1
        <4>3. b \in Reads(w)
          <5>1. PICK i \in DOMAIN w.table : b = w.table[i]
            BY <2>1, <2>10, <3>2 DEF ToSet
          <5>2. ~(i * BlockSize > w.from)
            BY <3>2, <5>1 DEF Writes
          <5>3. DOMAIN w.table = 1 .. Len(w.table) /\ w.table \in Seq(Blocks) /\ w.from \in Nat
            BY <1>2, <1>6, <2>1, WorkFacts
          <5>4. i - 1 \in Nat /\ (i - 1) + 1 = i
            BY <5>1, <5>3
          <5>5. ((i - 1) + 1) * BlockSize = (i - 1) * BlockSize + BlockSize
                /\ (i - 1) * BlockSize \in Nat
            BY <5>4, Constants, Products
          <5>6. (i - 1) * BlockSize < w.from
            <6>1. PICK u, v : u = (i - 1) * BlockSize /\ v = i * BlockSize
              OBVIOUS
            <6>2. v = u + BlockSize /\ u \in Nat /\ ~(v > w.from)
              BY <5>2, <5>4, <5>5, <6>1
            <6>3. u < w.from
              BY <5>3, <6>2, Constants
            <6> QED
              BY <6>1, <6>3
          <5> QED
            BY <5>1, <5>6 DEF Reads
        <4>4. ~Swept(Coming(n), c, b)
          BY <2>7, <2>10, <3>2, <4>3
        <4> QED
          BY <4>1, <4>2, <4>4
      <3>3. CASE q # r
        <4>1. q <= n /\ q < r /\ q \in Req
          BY <1>3, <2>10, <3>3
        <4>2. b \notin Writes(w)
          <5> SUFFICES ASSUME b \in Writes(w) PROVE FALSE
            OBVIOUS
          <5>1. PICK e, f : e = <<R, q>> /\ f = <<R, r>>
            OBVIOUS
          <5>2. R \in ran + 1 .. Len(steps)
            BY <1>2, StepFacts
          <5>3. e \in Pending /\ f \in Pending
            BY <1>6, <2>10, <5>1, <5>2, PendingIs
          <5>4. Work(e) = steps[R].work[q] /\ Work(f) = w /\ e[2] = q /\ f[2] = r
            BY <2>1, <5>1 DEF Work
          <5>5. ToSet(Work(e).table) \cap Writes(Work(f)) # {}
            BY <2>10, <5>4
          <5>6. Precedes(f, e)
            BY <2>10, <3>3, <5>3, <5>4, <5>5 DEF OrderOK
          <5> QED
            BY <1>2, <1>3, <4>1, <5>1, <5>6 DEF Precedes
        <4>3. y[b] = x[b]
          BY <2>4, <3>0, <4>2
        <4> QED
          BY <1>4, <2>10, <4>1, <4>3
      <3> QED
        BY <3>1, <3>2, <3>3
    <2>11. Halfway(R, r, y)
      BY <2>4, <2>9, <2>10 DEF Halfway
    <2> QED
      BY <1>1, <2>11
  <1> QED
    BY <1>5, <1>6

LEMMA HalfwayEnd ==
    ASSUME TypeOK, RequestOK, StepsOK, OrderOK, CauseOK(Pending, cause),
           NEW R, NEW at, ExecutedAt(R, at), NEW x, x = Computed(steps[R].work, at)
    PROVE  Halfway(R, N, x)
  <1>1. PICK g : /\ g[0] = cause
                 /\ \A n \in 1 .. N : g[n] = ComputeOne(steps[R].work, at, n, g[n - 1])
                 /\ g[N] = Computed(steps[R].work, at)
    BY ComputedChain
  <1> DEFINE T == {n \in Nat : n <= N /\ ~Halfway(R, n, g[n])}
  <1> SUFFICES ASSUME T # {} PROVE FALSE
    BY <1>1, Constants
  <1>2. PICK m \in T : \A n \in T : m <= n
    BY LeastOf
  <1>3. m # 0
    BY <1>1, <1>2, HalfwayStart
  <1>4. m - 1 \in Nat /\ m - 1 \in 0 .. N - 1 /\ m \in 1 .. N /\ (m - 1) + 1 = m /\ m - 1 \notin T
    BY <1>2, <1>3, Constants
  <1>5. Halfway(R, m - 1, g[m - 1])
    <2>1. PICK k \in Nat : k = m - 1
      BY <1>4
    <2>2. k <= N /\ k \notin T
      BY <1>4, <2>1, Constants
    <2>3. Halfway(R, k, g[k])
      BY <2>2
    <2> QED
      BY <2>1, <2>3
  <1>6. Halfway(R, m, g[m])
    <2>1. PICK k, u, v : k = m - 1 /\ u = g[k] /\ v = g[m]
      OBVIOUS
    <2>2. k \in 0 .. N - 1 /\ Halfway(R, k, u) /\ k + 1 = m
      BY <1>4, <1>5, <2>1
    <2>3. v = ComputeOne(steps[R].work, at, k + 1, u)
      BY <1>1, <1>4, <2>1, <2>2
    <2>4. Halfway(R, k + 1, v)
      BY <2>2, <2>3, HalfwayStep
    <2> QED
      BY <2>1, <2>2, <2>4
  <1> QED
    BY <1>2, <1>6

LEMMA ExecutedPending ==
    ASSUME TypeOK, StepsOK, NEW R, NEW at, ExecutedAt(R, at)
    PROVE  /\ \A e : e \in Pending' <=> e \in Coming(N)
           /\ \A e \in Coming(N) : e \in Pending
           /\ \A e \in Pending : Work(e)' = Work(e)
           /\ \A r \in Req : Live(r)' <=> Live(r)
           /\ \A b \in Blocks : Held(b)' <=> Held(b)
  <1>1. /\ \A e \in Pending : /\ e = <<e[1], e[2]>> /\ e[1] \in ran + 1 .. Len(steps)
                              /\ e[1] \in Nat \ {0} /\ e[2] \in Req
                              /\ e[1] \in 1 .. Len(steps) /\ e[2] \in DOMAIN steps[e[1]].work
        /\ \A k \in ran + 1 .. Len(steps) : \A r \in DOMAIN steps[k].work : <<k, r>> \in Pending
    BY PendingIs
  <1>2. R = ran + 1 /\ ran' = R /\ Len(steps') = Len(steps) /\ ran \in Nat /\ Len(steps) \in Nat
    BY ExecutedFacts, StepFacts
  <1>3. \A k \in 1 .. Len(steps) : steps'[k].work = steps[k].work
    BY ExecutedFacts
  <1>4. status' = status /\ table' = table /\ hash' = hash
    BY ExecutedFacts
  <1>5. Pending' = {e \in (R + 1 .. Len(steps)) \X Req : e[2] \in DOMAIN steps'[e[1]].work}
    BY <1>2 DEF Pending
  <1>6. \A e \in Coming(N) : e \in Pending /\ e[1] > R
    <2>1. \A r \in Req : ~(r > N)
      BY Constants
    <2> QED
      BY <1>1, <1>2, <2>1 DEF Coming
  <1>7. ASSUME NEW e \in Coming(N) PROVE e \in Pending'
    <2>1. /\ e = <<e[1], e[2]>> /\ e[1] \in R + 1 .. Len(steps) /\ e[2] \in Req
          /\ e[2] \in DOMAIN steps'[e[1]].work
      BY <1>1, <1>2, <1>3, <1>6
    <2> QED
      BY <1>5, <2>1
  <1>8. ASSUME NEW e \in Pending' PROVE e \in Coming(N)
    <2>1. PICK k, r : k = e[1] /\ r = e[2]
      OBVIOUS
    <2>2. e = <<k, r>> /\ k \in R + 1 .. Len(steps) /\ r \in DOMAIN steps'[k].work
      BY <1>5, <2>1
    <2>3. k \in ran + 1 .. Len(steps) /\ k \in 1 .. Len(steps) /\ k > ran + 1
      BY <1>2, <2>2
    <2>4. r \in DOMAIN steps[k].work
      BY <1>3, <2>2, <2>3
    <2>5. e \in Pending
      BY <1>1, <2>2, <2>3, <2>4
    <2> QED
      BY <2>1, <2>3, <2>5 DEF Coming
  <1>9. \A e \in Pending : Work(e)' = Work(e)
    BY <1>1, <1>3 DEF Work
  <1>10. \A r \in Req : Live(r)' <=> Live(r)
    BY <1>4 DEF Live
  <1>11. \A b \in Blocks : Held(b)' <=> Held(b)
    BY <1>4 DEF Held
  <1> QED
    BY <1>6, <1>7, <1>8, <1>9, <1>10, <1>11

LEMMA ExecutedDropped ==
    ASSUME TypeOK, StepsOK, NEW R, NEW at, ExecutedAt(R, at),
           NEW b \in Blocks, NEW e, Dropped(Coming(N), b, e)
    PROVE  Dropped(Pending, b, e)'
  <1>1. /\ \A d : d \in Pending' <=> d \in Coming(N)
        /\ \A d \in Coming(N) : d \in Pending
        /\ \A d \in Pending : Work(d)' = Work(d)
        /\ \A r \in Req : Live(r)' <=> Live(r)
        /\ Held(b)' <=> Held(b)
    BY ExecutedPending
  <1>2. \A d \in Pending : d[2] \in Req
    BY PendingIs
  <1>3. Held(b)' => \E f \in Pending' : Precedes(e, f) /\ b \in Writes(Work(f)')
    BY <1>1 DEF Dropped
  <1>4. ASSUME NEW g \in Pending', Live(g[2])', b \in Reads(Work(g)')
        PROVE  \E f \in Pending' : Precedes(e, f) /\ Precedes(f, g) /\ b \in Writes(Work(f)')
    <2>1. g \in Coming(N) /\ Live(g[2]) /\ b \in Reads(Work(g))
      BY <1>1, <1>2, <1>4
    <2>2. PICK f \in Coming(N) : Precedes(e, f) /\ Precedes(f, g) /\ b \in Writes(Work(f))
      BY <2>1 DEF Dropped
    <2> QED
      BY <1>1, <2>2
  <1> QED
    BY <1>3, <1>4 DEF Dropped

LEMMA ExecutedSwept ==
    ASSUME TypeOK, StepsOK, NEW R, NEW at, ExecutedAt(R, at),
           NEW c \in Req, NEW b \in Blocks, Swept(Coming(N), c, b)
    PROVE  Swept(Pending, c, b)'
  <1>1. /\ \A d : d \in Pending' <=> d \in Coming(N)
        /\ \A d \in Coming(N) : d \in Pending
        /\ \A d \in Pending : Work(d)' = Work(d)
    BY ExecutedPending
  <1>2. status'[c] = "error"
    BY ExecutedFacts DEF Swept
  <1>3. Dropped(Pending, b, Now)'
    <2>1. PICK e : e = Now
      OBVIOUS
    <2>2. Dropped(Coming(N), b, e)
      BY <2>1 DEF Swept
    <2>3. Dropped(Pending, b, e)'
      BY <2>2, ExecutedDropped
    <2> QED
      BY <2>1, <2>3 DEF Now
  <1>4. ASSUME NEW e \in Pending', e[2] = c, NEW d \in Writes(Work(e)')
        PROVE  Dropped(Pending, d, e)'
    <2>1. e \in Coming(N) /\ e \in Pending /\ d \in Writes(Work(e))
      BY <1>1, <1>4
    <2>2. Dropped(Coming(N), d, e) /\ d \in Blocks
      BY <1>4, <2>1, EventFacts DEF Swept
    <2> QED
      BY <2>2, ExecutedDropped
  <1> QED
    BY <1>2, <1>3, <1>4 DEF Swept

LEMMA ExecutedTypes ==
    ASSUME TypeOK, StepsOK, NEW R, NEW at, ExecutedAt(R, at),
           cause' \in [Blocks -> Req \cup {0, -1}]
    PROVE  TypeOK'
  <1>1. /\ R \in Nat \ {0} /\ R \in 1 .. Len(steps) /\ ran' = R /\ Len(steps') = Len(steps)
        /\ Len(steps) \in Nat
    BY ExecutedFacts, StepFacts
  <1>2. /\ prompt' = prompt /\ status' = status /\ computed' = computed /\ flying' = flying
        /\ table' = table /\ hash' = hash /\ served' = served /\ missed' = missed
        /\ aborts' = aborts
    BY ExecutedFacts
  <1>3. fails' \in 0 .. MaxFails
    <2> DEFINE F == FailedRequests(steps[R].work, at)
    <2>1. F \subseteq Req
      BY <1>1, StepFacts DEF FailedRequests
    <2>2. IsFiniteSet(Req)
      BY Constants, FS_Interval
    <2>3. Cardinality(F) \in Nat
      BY <2>1, <2>2, FS_Subset, FS_CardinalityType
    <2>4. fails' = fails + Cardinality(F) /\ fails + Cardinality(F) <= MaxFails
      BY ExecutedFacts DEF ExecutedAt
    <2>5. fails \in 0 .. MaxFails
      BY DEF TypeOK
    <2> HIDE DEF F
    <2> QED
      BY <2>3, <2>4, <2>5, Constants
  <1>4. ran' \in 0 .. Len(steps') /\ Len(steps') <= InFlight
    BY <1>1 DEF TypeOK
  <1> QED
    BY <1>2, <1>3, <1>4 DEF TypeOK

LEMMA ExecutedSteps ==
    ASSUME TypeOK, StepsOK, NEW R, NEW at, ExecutedAt(R, at),
           cause' \in [Blocks -> Req \cup {0, -1}]
    PROVE  StepsOK'
  <1>1. /\ R \in 1 .. Len(steps) /\ Len(steps') = Len(steps) /\ DOMAIN steps' = 1 .. Len(steps)
        /\ \E U : steps' \in Seq(U)
    BY ExecutedFacts, Zenon
  <1>2. /\ status' = status /\ computed' = computed /\ flying' = flying /\ table' = table
    BY ExecutedFacts
  <1>d. \A k \in 1 .. Len(steps) : steps'[k].work = steps[k].work
    BY ExecutedFacts, Zenon
  <1>e. \A k \in 1 .. Len(steps) : k # R => steps'[k] = steps[k]
    BY OtherSteps
  <1>3. /\ \A k \in 1 .. Len(steps) : steps'[k].work = steps[k].work
        /\ \A k \in 1 .. Len(steps) : k # R => steps'[k] = steps[k]
    BY <1>d, <1>e
  <1>a. steps'[R].failed = FailedRequests(steps[R].work, at)
    BY ExecutedFacts
  <1>b. steps'[R].causes = [r \in DOMAIN steps[R].work |->
                              {cause'[b] : b \in ToSet(steps[R].work[r].table)} \ {0}]
    BY ExecutedFacts, Zenon
  <1>c. steps'[R] = [work |-> steps'[R].work, failed |-> steps'[R].failed,
                     causes |-> steps'[R].causes]
    BY ExecutedFacts, Zenon
  <1>4. /\ steps'[R].failed = FailedRequests(steps[R].work, at)
        /\ steps'[R].causes = [r \in DOMAIN steps[R].work |->
                                {cause'[b] : b \in ToSet(steps[R].work[r].table)} \ {0}]
        /\ steps'[R] = [work |-> steps'[R].work, failed |-> steps'[R].failed,
                        causes |-> steps'[R].causes]
    BY <1>a, <1>b, <1>c, Zenon
  <1>5. /\ DOMAIN steps = 1 .. Len(steps) /\ Len(steps) \in Nat
        /\ \A k \in 1 .. Len(steps) :
            /\ steps[k] = [work |-> steps[k].work, failed |-> steps[k].failed,
                           causes |-> steps[k].causes]
            /\ steps[k].failed \subseteq DOMAIN steps[k].work
            /\ DOMAIN steps[k].work \subseteq Req
            /\ DOMAIN steps[k].causes = DOMAIN steps[k].work
            /\ \A r \in DOMAIN steps[k].work : WorkAt(steps, computed, table, status, k, r)
    BY StepFacts, WorkAtIs
  <1>6. ASSUME NEW k \in 1 .. Len(steps)
        PROVE  /\ steps'[k] = [work |-> steps'[k].work, failed |-> steps'[k].failed,
                               causes |-> steps'[k].causes]
               /\ steps'[k].failed \subseteq DOMAIN steps'[k].work
               /\ DOMAIN steps'[k].work \subseteq Req
               /\ DOMAIN steps'[k].causes = DOMAIN steps'[k].work
               /\ \A r \in DOMAIN steps'[k].work : steps'[k].causes[r] \subseteq Req \cup {-1}
    <2>1. CASE k # R
      <3>1. steps'[k] = steps[k]
        BY <1>3, <2>1
      <3>2. \A r \in DOMAIN steps[k].work : steps[k].causes[r] \subseteq Req \cup {-1}
        BY <1>5 DEF WorkAt
      <3> QED
        BY <1>5, <3>1, <3>2
    <2>2. CASE k = R
      <3>1. steps'[R].work = steps[R].work
        BY <1>1, <1>3
      <3>2. steps'[R].failed \subseteq DOMAIN steps[R].work
        BY <1>4 DEF FailedRequests
      <3>3. DOMAIN steps'[R].causes = DOMAIN steps[R].work
        BY <1>4
      <3>4. ASSUME NEW r \in DOMAIN steps[R].work
            PROVE  steps'[R].causes[r] \subseteq Req \cup {-1}
        <4>1. ToSet(steps[R].work[r].table) \subseteq Blocks
          BY <1>1, WorkTables
        <4>2. steps'[R].causes[r] = {cause'[b] : b \in ToSet(steps[R].work[r].table)} \ {0}
          BY <1>4
        <4> QED
          BY <4>1, <4>2
      <3> QED
        BY <1>4, <1>5, <2>2, <3>1, <3>2, <3>3, <3>4
    <2> QED
      BY <2>1, <2>2
  <1>7. ASSUME NEW r, NEW p, NEW t
        PROVE  StartsIn(steps, computed, r, p, t) <=> StartsIn(steps', computed', r, p, t)
    BY <1>1, <1>2, <1>3, <1>5 DEF StartsIn
  <1>8. ASSUME NEW k \in 1 .. Len(steps), NEW r \in DOMAIN steps'[k].work PROVE WorkOK(k, r)'
    <2>1. r \in DOMAIN steps[k].work /\ steps'[k].work = steps[k].work
      BY <1>3, <1>8
    <2>2. WorkAt(steps, computed, table, status, k, r)
      BY <1>5, <2>1
    <2>3. \A j \in 1 .. k - 1 : steps'[j].work = steps[j].work
      BY <1>3, <1>5
    <2>4. WorkAt(steps', computed', table', status', k, r)
      BY <1>2, <1>6, <1>7, <1>8, <2>1, <2>2, <2>3 DEF WorkAt
    <2> QED
      BY <2>4, WorkAtIs
  <1>9. ASSUME NEW r \in Req, Live(r)' PROVE StartsAt(r, 0, computed[r] - flying[r])'
    <2>1. PICK t : t = computed'[r] - flying'[r]
      OBVIOUS
    <2>2. Live(r) /\ t = computed[r] - flying[r]
      BY <1>2, <1>9, <2>1 DEF Live
    <2>3. StartsIn(steps, computed, r, 0, t)
      BY <2>2 DEF StepsOK, StartsAt, StartsIn
    <2>4. StartsIn(steps', computed', r, 0, t)
      BY <1>7, <2>3
    <2> QED
      BY <2>1, <2>4 DEF StartsAt, StartsIn
  <1>10. steps' \in Seq([work : {steps'[k].work : k \in DOMAIN steps'}, failed : SUBSET Req,
                         causes : {steps'[k].causes : k \in DOMAIN steps'}])
    <2>1. \A k \in 1 .. Len(steps') :
            /\ steps'[k] = [work |-> steps'[k].work, failed |-> steps'[k].failed,
                            causes |-> steps'[k].causes]
            /\ steps'[k].failed \subseteq Req
      <3>1. \A k \in 1 .. Len(steps') : k \in 1 .. Len(steps)
        BY <1>1
      <3> QED
        BY <1>6, <3>1
    <2> QED
      BY <1>1, <2>1, StepSeq
  <1> QED
    BY <1>1, <1>6, <1>8, <1>9, <1>10 DEF StepsOK

LEMMA ExecutedOrder ==
    ASSUME TypeOK, StepsOK, OrderOK, NEW R, NEW at, ExecutedAt(R, at)
    PROVE  OrderOK'
  <1>1. /\ \A d \in Pending' : d \in Pending /\ Work(d)' = Work(d) /\ d[2] \in Req
        /\ \A r \in Req : Live(r)' <=> Live(r)
    BY ExecutedPending, PendingIs
  <1> SUFFICES ASSUME NEW e \in Pending', NEW f \in Pending', Live(e[2])', f[2] # e[2],
                      ToSet(Work(e)'.table) \cap Writes(Work(f)') # {}
               PROVE  Precedes(f, e)
    BY DEF OrderOK
  <1>2. Live(e[2]) /\ ToSet(Work(e).table) \cap Writes(Work(f)) # {}
    BY <1>1
  <1> QED
    BY <1>1, <1>2 DEF OrderOK

LEMMA ExecutedCauses ==
    ASSUME TypeOK, RequestOK, StepsOK, OrderOK, CauseOK(Pending, cause), CausesOK,
           NEW R, NEW at, ExecutedAt(R, at)
    PROVE  /\ cause' \in [Blocks -> Req \cup {0, -1}]
           /\ CauseOK(Pending, cause)' /\ CausesOK'
  <1>1. PICK x : x = Computed(steps[R].work, at)
    OBVIOUS
  <1>2. Halfway(R, N, x)
    BY <1>1, HalfwayEnd
  <1>3. cause' = x /\ ran' = R /\ R = ran + 1 /\ R \in 1 .. Len(steps) /\ table' = table
    BY <1>1, ExecutedFacts
  <1>4. x \in [Blocks -> Req \cup {0, -1}]
    BY <1>2 DEF Halfway
  <1>5. ASSUME NEW b \in Blocks, cause'[b] \in Req
        PROVE  Excused(cause[b], b, ran)' \/ Swept(Pending, cause[b], b)'
    <2>1. PICK c : c = x[b] /\ c = cause'[b] /\ c \in Req
      BY <1>3, <1>5
    <2>2. Excused(c, b, R)' \/ Swept(Coming(N), c, b)
      BY <1>2, <2>1 DEF Halfway
    <2>3. Swept(Coming(N), c, b) => Swept(Pending, c, b)'
      BY <2>1, ExecutedSwept
    <2>4. Excused(c, b, R)' => Excused(cause[b], b, ran)'
      BY <1>3, <2>1 DEF Excused
    <2>5. Swept(Pending, c, b)' => Swept(Pending, cause[b], b)'
      BY <2>1 DEF Swept
    <2> QED
      BY <2>2, <2>3, <2>4, <2>5
  <1>6. ASSUME NEW k \in 1 .. ran', NEW r \in DOMAIN steps'[k].work, Live(r)',
               NEW c \in steps'[k].causes[r] \cap Req
        PROVE  \E b \in ToSet(table'[r]) : Excused(c, b, k)'
    <2>1. k \in 1 .. Len(steps) /\ (k = R \/ (k \in 1 .. ran /\ k \in 0 .. ran))
      <3>1. ran \in Nat /\ Len(steps) \in Nat
        BY StepFacts
      <3>2. k \in 1 .. ran + 1 /\ R = ran + 1 /\ R <= Len(steps)
        BY <1>3, <3>1
      <3>3. k \in Nat /\ 1 <= k /\ (k <= ran \/ k = ran + 1)
        BY <3>1, <3>2
      <3>4. k \in 1 .. Len(steps)
        BY <3>1, <3>2, <3>3
      <3>5. k # R => k \in 1 .. ran /\ k \in 0 .. ran
        BY <3>1, <3>2, <3>3
      <3> QED
        BY <3>4, <3>5, Zenon
    <2>2. r \in DOMAIN steps[k].work
      BY <1>6, <2>1, ExecutedFacts
    <2>3. r \in Req
      BY <2>1, <2>2, StepFacts
    <2>4. Live(r)
      BY <1>6, <2>3, ExecutedPending
    <2>5. CASE k = R
      <3>1. steps'[R].causes = [q \in DOMAIN steps[R].work |->
                                 {cause'[b] : b \in ToSet(steps[R].work[q].table)} \ {0}]
        BY ExecutedFacts, Zenon
      <3>2. PICK b \in ToSet(steps[R].work[r].table) : c = cause'[b]
        BY <1>6, <2>2, <2>5, <3>1
      <3>3. b \in ToSet(table[r])
        BY <2>1, <2>2, <2>4, <2>5, <3>2, WorkTables
      <3>4. r <= N
        BY <2>3, Constants
      <3>5. x[b] = c
        BY <1>3, <3>2
      <3>6. Excused(x[b], b, R)'
        BY <1>2, <1>6, <2>2, <2>4, <2>5, <3>2, <3>4, <3>5 DEF Halfway
      <3> QED
        BY <1>3, <2>5, <3>3, <3>5, <3>6
    <2>6. CASE k \in 1 .. ran /\ k \in 0 .. ran
      <3>1. steps'[k] = steps[k]
        BY <2>6, ExecutedFacts
      <3>2. PICK b \in ToSet(table[r]) : Excused(c, b, k)
        BY <1>6, <2>2, <2>4, <2>6, <3>1 DEF CausesOK
      <3>3. Excused(c, b, k)'
        BY <2>6, <3>2, ExecutedExcuse
      <3> QED
        BY <1>3, <3>2, <3>3
    <2> QED
      BY <2>1, <2>5, <2>6
  <1>7. cause' \in [Blocks -> Req \cup {0, -1}]
    BY <1>3, <1>4
  <1> QED
    BY <1>5, <1>6, <1>7 DEF CauseOK, CausesOK

-----------------------------------------------------------------------------
(* Update: the output of the oldest step is processed. *)
Failing == steps[1].failed
Bad == Affected(Failing)
Kept == {r \in DOMAIN steps[1].work : Live(r)} \ Bad
Ends == {r \in Kept : steps[1].work[r].to = prompt[r]}

LEMMA UpdateFacts ==
    ASSUME TypeOK, StepsOK, Update
    PROVE  /\ ran \in Nat \ {0} /\ Len(steps) \in Nat \ {0} /\ ran <= Len(steps)
           /\ 1 \in 1 .. Len(steps) /\ 1 \in 1 .. ran
           /\ ran' = ran - 1 /\ Len(steps') = Len(steps) - 1
           /\ DOMAIN steps' = 1 .. Len(steps) - 1
           /\ \A k \in 1 .. Len(steps) - 1 : k + 1 \in 1 .. Len(steps) /\ steps'[k] = steps[k + 1]
           /\ \E U : steps \in Seq(U) /\ steps' \in Seq(U) /\ steps' = Tail(steps)
  <1>1. /\ Len(steps) \in Nat /\ ran \in Nat /\ ran <= Len(steps)
    BY StepFacts
  <1>2. PICK U : steps \in Seq(U)
    BY DEF StepsOK
  <1>3. steps' = Tail(steps) /\ ran' = ran - 1 /\ ran > 0
    BY DEF Update
  <1>4. ran \in Nat \ {0} /\ Len(steps) \in Nat \ {0} /\ 1 \in 1 .. Len(steps) /\ 1 \in 1 .. ran
    BY <1>1, <1>3
  <1>5. steps # <<>>
    BY <1>2, <1>4
  <1>6. steps' \in Seq(U) /\ Len(steps') = Len(steps) - 1
    BY <1>2, <1>3, <1>5
  <1>7. \A k \in 1 .. Len(steps) - 1 : k + 1 \in 1 .. Len(steps) /\ steps'[k] = steps[k + 1]
    BY <1>2, <1>3, <1>4, <1>5
  <1>8. DOMAIN steps' = 1 .. Len(steps) - 1
    BY <1>6
  <1> QED
    BY <1>1, <1>2, <1>3, <1>4, <1>6, <1>7, <1>8

LEMMA UpdatedRequest ==
    ASSUME TypeOK, StepsOK, Update, NEW r \in Req
    PROVE  /\ status'[r] = IF r \in Bad THEN "error" ELSE IF r \in Ends THEN "served" ELSE status[r]
           /\ table'[r] = IF r \in Bad \cup Ends THEN <<>> ELSE table[r]
           /\ flying'[r] = IF r \in Bad \cup Ends THEN 0
                           ELSE IF r \in Kept
                           THEN flying[r] - (steps[1].work[r].to - steps[1].work[r].from)
                           ELSE flying[r]
           /\ served'[r] = IF r \in Ends THEN steps[1].causes[r] ELSE served[r]
  BY DEF Update, Bad, Failing, Kept, Ends

LEMMA UpdatedRest ==
    ASSUME TypeOK, StepsOK, Update
    PROVE  /\ prompt' = prompt /\ computed' = computed /\ cause' = cause
           /\ fails' = fails /\ aborts' = aborts
           /\ \A b \in Blocks : hash'[b] = IF b \in Reused(Failing) THEN 0 ELSE hash[b]
           /\ hash' = [b \in Blocks |-> IF b \in Reused(Failing) THEN 0 ELSE hash[b]]
           /\ missed' = missed \cup {r \in Failing : ~Live(r)}
           /\ DOMAIN status' = Req /\ DOMAIN table' = Req /\ DOMAIN flying' = Req
           /\ DOMAIN served' = Req
  BY DEF Update, Failing

LEMMA Domains ==
    ASSUME TypeOK, StepsOK, Update
    PROVE  /\ status' = [r \in Req |-> status'[r]] /\ table' = [r \in Req |-> table'[r]]
           /\ flying' = [r \in Req |-> flying'[r]] /\ served' = [r \in Req |-> served'[r]]
  BY DEF Update

(* Who fails, is served, or lives on. *)
LEMMA UpdateSets ==
    ASSUME TypeOK, StepsOK, Update
    PROVE  /\ \A r \in Bad : r \in Req /\ Live(r)
           /\ \A r \in Kept : r \in Req /\ Live(r) /\ r \in DOMAIN steps[1].work /\ r \notin Bad
           /\ \A r \in Ends : r \in Kept
           /\ \A r \in DOMAIN steps[1].work : Live(r) /\ r \notin Bad => r \in Kept
           /\ \A r \in Failing : r \in Req
  <1>1. DOMAIN steps[1].work \subseteq Req /\ Failing \subseteq Req
    BY UpdateFacts, StepFacts DEF Failing
  <1>2. Bad \subseteq Req /\ \A r \in Bad : Live(r)
    BY <1>1 DEF Bad, Affected, Running, Live
  <1> QED
    BY <1>1, <1>2 DEF Kept, Ends

LEMMA UpdatedLife ==
    ASSUME TypeOK, RequestOK, StepsOK, Update, NEW r \in Req
    PROVE  /\ Live(r)' => /\ Live(r) /\ r \notin Bad /\ r \notin Ends
                          /\ status'[r] = status[r] /\ table'[r] = table[r]
           /\ ~Live(r)' => table'[r] = <<>> /\ status'[r] \notin {"waiting", "running"}
           /\ Live(r) /\ r \notin Bad /\ r \notin Ends => Live(r)'
           /\ status[r] = "error" => status'[r] = "error"
           /\ status'[r] \in {"waiting", "running", "served", "error", "aborted"}
  <1>1. status[r] \in {"waiting", "running", "served", "error", "aborted"} /\ table[r] \in Seq(Blocks)
    BY DEF TypeOK
  <1>2. /\ r \in Bad => Live(r)
        /\ r \in Ends => Live(r) /\ r \notin Bad
    BY UpdateSets
  <1>3. ~Live(r) => table[r] = <<>>
    <2>1. ~Live(r) => Len(table[r]) = 0
      BY DEF RequestOK
    <2> QED
      BY <1>1, <2>1, EmptySeq
  <1>4. /\ status'[r] = IF r \in Bad THEN "error" ELSE IF r \in Ends THEN "served" ELSE status[r]
        /\ table'[r] = IF r \in Bad \cup Ends THEN <<>> ELSE table[r]
    BY UpdatedRequest
  <1> QED
    BY <1>1, <1>2, <1>3, <1>4 DEF Live

(* Of a live request of the oldest step, everything from that step on is in *)
(* flight: its first token in flight is the step's.                         *)
LEMMA FirstTokenIs ==
    ASSUME TypeOK, StepsOK, Len(steps) > 0,
           NEW r \in DOMAIN steps[1].work, Live(r), NEW w, w = steps[1].work[r]
    PROVE  /\ FirstToken(r) = w.from /\ w.from = computed[r] - flying[r]
           /\ w.from \in Nat /\ w.to \in Nat /\ w.from < w.to /\ w.to <= computed[r]
           /\ computed[r] \in Nat /\ flying[r] \in Nat
  <1>1. DOMAIN steps = 1 .. Len(steps) /\ Len(steps) \in Nat /\ 1 \in 1 .. Len(steps)
    BY StepFacts
  <1>2. /\ r \in Req /\ w.from \in Nat /\ w.to \in Nat /\ w.from < w.to /\ w.to <= computed[r]
        /\ computed[r] \in Nat
    BY <1>1, WorkFacts
  <1>3. PICK t : t = computed[r] - flying[r]
    OBVIOUS
  <1>4. StartsAt(r, 0, t)
    BY <1>2, <1>3 DEF StepsOK
  <1>5. ~(\A k \in DOMAIN steps : r \in DOMAIN steps[k].work => k <= 0)
    BY <1>1
  <1>6. PICK k \in DOMAIN steps :
          /\ k > 0 /\ r \in DOMAIN steps[k].work /\ t = steps[k].work[r].from
          /\ \A j \in DOMAIN steps : r \in DOMAIN steps[j].work => j <= 0 \/ k <= j
    BY <1>4, <1>5 DEF StartsAt
  <1>7. k = 1
    BY <1>1, <1>6
  <1>8. t = w.from
    BY <1>6, <1>7
  <1>9. flying[r] \in Nat
    BY <1>2 DEF TypeOK
  <1>10. \A x \in Nat : Max({0, x}) = x
    <2> SUFFICES ASSUME NEW x \in Nat PROVE Max({0, x}) = x
      OBVIOUS
    <2> DEFINE T == {0, x}
    <2>1. T \subseteq 0 .. x /\ T # {} /\ x \in T /\ \A y \in T : y \in Nat /\ y <= x
      OBVIOUS
    <2> HIDE DEF T
    <2>2. Max(T) \in T /\ \A y \in T : y <= Max(T)
      BY <2>1, MaxFacts
    <2> QED
      BY <2>1, <2>2 DEF T
  <1>11. FirstToken(r) = w.from
    BY <1>2, <1>3, <1>8, <1>10 DEF FirstToken
  <1> QED
    BY <1>2, <1>3, <1>8, <1>9, <1>11

LEMMA UpdateTypes ==
    ASSUME TypeOK, RequestOK, StepsOK, Update
    PROVE  TypeOK'
  <1>1. /\ status' = [r \in Req |-> status'[r]] /\ table' = [r \in Req |-> table'[r]]
        /\ flying' = [r \in Req |-> flying'[r]] /\ served' = [r \in Req |-> served'[r]]
    BY Domains
  <1>2. ASSUME NEW r \in Req
        PROVE  /\ status'[r] \in {"waiting", "running", "served", "error", "aborted"}
               /\ table'[r] \in Seq(Blocks)
               /\ status'[r] = "running" => Len(table'[r]) * BlockSize >= computed[r]
    <2>1. table[r] \in Seq(Blocks) /\ (status[r] = "running" => Len(table[r]) * BlockSize >= computed[r])
      BY DEF TypeOK
    <2>2. <<>> \in Seq(Blocks)
      OBVIOUS
    <2>3. table'[r] \in Seq(Blocks)
      BY <2>1, <2>2, UpdatedRequest
    <2>4. status'[r] = "running" => Live(r)'
      BY DEF Live
    <2>5. /\ status'[r] \in {"waiting", "running", "served", "error", "aborted"}
          /\ Live(r)' => status'[r] = status[r] /\ table'[r] = table[r]
      BY UpdatedLife
    <2> QED
      BY <2>1, <2>3, <2>4, <2>5
  <1>3. ASSUME NEW r \in Req PROVE flying'[r] \in Nat /\ flying'[r] <= computed[r]
    <2>1. flying[r] \in Nat /\ flying[r] <= computed[r] /\ computed[r] \in 0 .. Max(Prompts)
      BY DEF TypeOK
    <2>2. computed[r] \in Nat
      BY <2>1, PromptFacts, RequestFacts
    <2>3. CASE r \in Bad \cup Ends
      BY <2>2, <2>3, UpdatedRequest
    <2>4. CASE r \notin Bad \cup Ends /\ r \in Kept
      <3>1. PICK w : w = steps[1].work[r]
        OBVIOUS
      <3>2. Live(r) /\ r \in DOMAIN steps[1].work /\ Len(steps) > 0
        BY <2>4, UpdateSets, UpdateFacts
      <3>3. /\ w.from = computed[r] - flying[r] /\ w.from \in Nat /\ w.to \in Nat
            /\ w.from < w.to /\ w.to <= computed[r]
        BY <3>1, <3>2, FirstTokenIs
      <3>4. flying'[r] = flying[r] - (w.to - w.from)
        BY <2>4, <3>1, UpdatedRequest
      <3> QED
        BY <2>1, <2>2, <3>3, <3>4
    <2>5. CASE r \notin Bad \cup Ends /\ r \notin Kept
      BY <2>1, <2>5, UpdatedRequest
    <2> QED
      BY <2>3, <2>4, <2>5
  <1>4. hash' \in [Blocks -> 0 .. BlocksOf(Max(Prompts))]
    <2>1. PICK m : m = BlocksOf(Max(Prompts))
      OBVIOUS
    <2>2. hash \in [Blocks -> 0 .. m]
      BY <2>1 DEF TypeOK
    <2>3. 0 \in 0 .. m
      <3>1. Max(Prompts) \in Nat
        <4>1. prompt \in [Req -> Prompts] /\ 1 \in Req
          BY Constants DEF TypeOK
        <4> QED
          BY <4>1, PromptFacts
      <3>2. m \in Nat
        BY <2>1, <3>1, BlockCount
      <3> QED
        BY <3>2
    <2>4. hash' = [b \in Blocks |-> IF b \in Reused(Failing) THEN 0 ELSE hash[b]]
      BY UpdatedRest
    <2> QED
      BY <2>1, <2>2, <2>3, <2>4
  <1>5. Len(steps') <= InFlight /\ ran' \in 0 .. Len(steps')
    <2>1. Len(steps) <= InFlight /\ InFlight \in Nat
      BY Constants DEF TypeOK
    <2> QED
      BY <2>1, UpdateFacts
  <1>6. ASSUME NEW r \in Req PROVE served'[r] \subseteq Req \cup {-1}
    <2>1. CASE r \in Ends
      <3>1. r \in DOMAIN steps[1].work /\ 1 \in 1 .. Len(steps)
        BY <2>1, UpdateSets, UpdateFacts
      <3>2. steps[1].causes[r] \subseteq Req \cup {-1}
        BY <3>1, StepFacts DEF WorkOK
      <3> QED
        BY <2>1, <3>2, UpdatedRequest
    <2>2. CASE r \notin Ends
      <3>1. served[r] \subseteq Req \cup {-1}
        BY DEF TypeOK
      <3> QED
        BY <2>2, <3>1, UpdatedRequest
    <2> QED
      BY <2>1, <2>2
  <1>7. missed' \subseteq Req
    <2>1. missed \subseteq Req
      BY DEF TypeOK
    <2> QED
      BY <2>1, UpdatedRest, UpdateSets
  <1>8. /\ prompt' = prompt /\ computed' = computed /\ cause' = cause
        /\ fails' = fails /\ aborts' = aborts
    BY UpdatedRest
  <1>9. /\ status' \in [Req -> {"waiting", "running", "served", "error", "aborted"}]
        /\ flying' \in [Req -> Nat] /\ table' \in [Req -> Seq(Blocks)]
        /\ served' \in [Req -> SUBSET (Req \cup {-1})]
    BY <1>1, <1>2, <1>3, <1>6
  <1>10. \A r \in Req : /\ flying'[r] <= computed'[r]
                        /\ status'[r] = "running" => Len(table'[r]) * BlockSize >= computed'[r]
    BY <1>2, <1>3, <1>8
  <1> QED
    BY <1>4, <1>5, <1>7, <1>8, <1>9, <1>10 DEF TypeOK

LEMMA UpdateRequests ==
    ASSUME TypeOK, RequestOK, StepsOK, Update
    PROVE  RequestOK'
  <1> SUFFICES ASSUME NEW r \in Req
               PROVE  /\ status'[r] = "waiting" => computed'[r] = 0
                      /\ status'[r] = "running" => computed'[r] \in 1 .. prompt'[r]
                      /\ Len(table'[r]) = IF Live(r)' THEN BlocksOf(computed'[r]) ELSE 0
                      /\ \A i, j \in DOMAIN table'[r] : table'[r][i] = table'[r][j] => i = j
    BY DEF RequestOK
  <1>1. computed' = computed /\ prompt' = prompt
    BY UpdatedRest
  <1>2. CASE Live(r)'
    <2>1. Live(r) /\ status'[r] = status[r] /\ table'[r] = table[r]
      BY <1>2, UpdatedLife
    <2> QED
      BY <1>1, <1>2, <2>1 DEF RequestOK
  <1>3. CASE ~Live(r)'
    <2>1. table'[r] = <<>> /\ status'[r] \notin {"waiting", "running"}
      BY <1>3, UpdatedLife
    <2> QED
      BY <1>3, <2>1
  <1> QED
    BY <1>2, <1>3

(* Without its oldest step, everything moves up by one. *)
LEMMA ShiftStarts ==
    ASSUME NEW U, NEW s \in Seq(U), Len(s) > 0, NEW u, u = Tail(s),
           NEW c, NEW r, NEW p \in Nat, NEW t, StartsIn(s, c, r, p + 1, t)
    PROVE  StartsIn(u, c, r, p, t)
  <1>1. /\ Len(s) \in Nat /\ DOMAIN s = 1 .. Len(s) /\ u \in Seq(U) /\ Len(u) = Len(s) - 1
        /\ \A k \in 1 .. Len(u) : u[k] = s[k + 1]
    OBVIOUS
  <1>2. DOMAIN u = 1 .. Len(u)
    BY <1>1
  <1>3. \A k \in DOMAIN u : k \in Nat /\ k + 1 \in DOMAIN s /\ u[k] = s[k + 1]
    BY <1>1, <1>2
  <1>4. CASE (\A k \in DOMAIN s : r \in DOMAIN s[k].work => k <= p + 1) /\ t = c[r]
    <2>1. ASSUME NEW k \in DOMAIN u, r \in DOMAIN u[k].work PROVE k <= p
      <3>1. k \in Nat /\ k + 1 \in DOMAIN s /\ r \in DOMAIN s[k + 1].work
        BY <1>3, <2>1
      <3>2. k + 1 <= p + 1
        BY <1>4, <3>1
      <3> QED
        BY <3>1, <3>2
    <2> QED
      BY <1>4, <2>1 DEF StartsIn
  <1>5. CASE \E k \in DOMAIN s :
               /\ k > p + 1 /\ r \in DOMAIN s[k].work /\ t = s[k].work[r].from
               /\ \A j \in DOMAIN s : r \in DOMAIN s[j].work => j <= p + 1 \/ k <= j
    <2>1. PICK k \in DOMAIN s :
            /\ k > p + 1 /\ r \in DOMAIN s[k].work /\ t = s[k].work[r].from
            /\ \A j \in DOMAIN s : r \in DOMAIN s[j].work => j <= p + 1 \/ k <= j
      BY <1>5
    <2>2. PICK m : m = k - 1
      OBVIOUS
    <2>3. m \in DOMAIN u /\ m > p /\ m \in Nat /\ k = m + 1
      BY <1>1, <1>2, <2>1, <2>2
    <2>4. u[m] = s[k]
      BY <1>3, <2>3
    <2>5. ASSUME NEW j \in DOMAIN u, r \in DOMAIN u[j].work PROVE j <= p \/ m <= j
      <3>1. j \in Nat /\ j + 1 \in DOMAIN s /\ r \in DOMAIN s[j + 1].work
        BY <1>3, <2>5
      <3>2. j + 1 <= p + 1 \/ k <= j + 1
        BY <2>1, <3>1
      <3> QED
        BY <2>3, <3>1, <3>2
    <2> QED
      BY <2>1, <2>3, <2>4, <2>5 DEF StartsIn
  <1> QED
    BY <1>4, <1>5 DEF StartsIn

LEMMA UpdateStarts ==
    ASSUME TypeOK, StepsOK, Update, NEW r, NEW p \in Nat, NEW t,
           StartsIn(steps, computed, r, p + 1, t)
    PROVE  StartsIn(steps', computed', r, p, t)
  <1>1. PICK U : steps \in Seq(U) /\ steps' = Tail(steps)
    BY UpdateFacts
  <1>2. Len(steps) > 0
    BY UpdateFacts
  <1>3. PICK s, u, c : s = steps /\ u = steps' /\ c = computed
    OBVIOUS
  <1>4. StartsIn(u, c, r, p, t)
    BY <1>1, <1>2, <1>3, ShiftStarts
  <1>5. computed' = computed
    BY UpdatedRest
  <1> QED
    BY <1>3, <1>4, <1>5

LEMMA UpdateSteps ==
    ASSUME TypeOK, RequestOK, StepsOK, Update
    PROVE  StepsOK'
  <1>1. /\ Len(steps) \in Nat \ {0} /\ Len(steps') = Len(steps) - 1
        /\ DOMAIN steps' = 1 .. Len(steps) - 1
        /\ \A k \in 1 .. Len(steps) - 1 : k + 1 \in 1 .. Len(steps) /\ steps'[k] = steps[k + 1]
    BY UpdateFacts
  <1>2. DOMAIN steps = 1 .. Len(steps)
    BY StepFacts
  <1>3. computed' = computed
    BY UpdatedRest
  <1>4. ASSUME NEW k \in 1 .. Len(steps) - 1
        PROVE  /\ steps'[k] = [work |-> steps'[k].work, failed |-> steps'[k].failed,
                               causes |-> steps'[k].causes]
               /\ steps'[k].failed \subseteq DOMAIN steps'[k].work
               /\ DOMAIN steps'[k].work \subseteq Req
               /\ DOMAIN steps'[k].causes = DOMAIN steps'[k].work
    <2>1. PICK j \in 1 .. Len(steps) : j = k + 1 /\ steps'[k] = steps[j]
      BY <1>1
    <2>2. PICK x : x = steps[j] /\ x = steps'[k]
      BY <2>1
    <2>3. /\ x = [work |-> x.work, failed |-> x.failed, causes |-> x.causes]
          /\ x.failed \subseteq DOMAIN x.work
          /\ DOMAIN x.work \subseteq Req
          /\ DOMAIN x.causes = DOMAIN x.work
      BY <2>2, StepFacts
    <2> QED
      BY <2>2, <2>3
  <1>5. ASSUME NEW k \in 1 .. Len(steps) - 1, NEW r \in DOMAIN steps'[k].work PROVE WorkOK(k, r)'
    <2>1. PICK j \in 1 .. Len(steps) : j = k + 1 /\ steps'[k] = steps[j]
      BY <1>1
    <2>2. PICK w : w = steps[j].work[r] /\ w = steps'[k].work[r]
      BY <2>1
    <2>3. r \in DOMAIN steps[j].work /\ r \in Req /\ k \in Nat
      <3>1. r \in DOMAIN steps[j].work /\ k \in Nat
        BY <1>1, <1>5, <2>1
      <3>2. DOMAIN steps[j].work \subseteq Req
        BY StepFacts
      <3> QED
        BY <3>1, <3>2
    <2>4. WorkAt(steps, computed, table, status, j, r)
      BY <2>1, <2>3, StepFacts, WorkAtIs
    <2>5. /\ w.from \in 0 .. w.to - 1 /\ w.to \in 0 .. computed[r]
          /\ w.table \in Seq(Blocks) /\ Len(w.table) = BlocksOf(w.to)
          /\ status[r] # "waiting" /\ steps[j].causes[r] \subseteq Req \cup {-1}
      BY <2>2, <2>4 DEF WorkAt
    <2>6. status'[r] # "waiting"
      BY <2>3, <2>5, UpdatedRequest
    <2>7. ASSUME Live(r)' PROVE \A i \in DOMAIN w.table : i \in DOMAIN table'[r] /\ w.table[i] = table'[r][i]
      <3>1. Live(r) /\ table'[r] = table[r]
        BY <2>3, <2>7, UpdatedLife
      <3> QED
        BY <2>2, <2>4, <3>1 DEF WorkAt, Live
    <2>8. ASSUME Live(r)' PROVE StartsIn(steps', computed', r, k, w.to)
      <3>1. Live(r)
        BY <2>3, <2>8, UpdatedLife
      <3>2. StartsIn(steps, computed, r, k + 1, w.to)
        BY <2>1, <2>2, <2>4, <3>1 DEF WorkAt, Live
      <3> QED
        BY <2>3, <3>2, UpdateStarts
    <2>9. ASSUME NEW i \in 1 .. k - 1, r \in DOMAIN steps'[i].work
          PROVE  steps'[i].work[r].to <= w.from
      <3>1. i \in 1 .. Len(steps) - 1 /\ i + 1 \in 1 .. j - 1
        BY <1>1, <2>1
      <3>2. steps'[i] = steps[i + 1]
        BY <1>1, <3>1
      <3> QED
        BY <2>2, <2>4, <2>9, <3>1, <3>2 DEF WorkAt
    <2>10. WorkAt(steps', computed', table', status', k, r)
      BY <1>3, <2>1, <2>2, <2>5, <2>6, <2>7, <2>8, <2>9 DEF WorkAt, Live
    <2> QED
      BY <2>10, WorkAtIs
  <1>6. ASSUME NEW r \in Req, Live(r)' PROVE StartsAt(r, 0, computed[r] - flying[r])'
    <2>1. PICK t : t = computed'[r] - flying'[r]
      OBVIOUS
    <2>2. Live(r) /\ r \notin Bad /\ r \notin Ends
      BY <1>6, UpdatedLife
    <2>3. StartsIn(steps, computed, r, 1, t)
      <3>1. CASE r \in DOMAIN steps[1].work
        <4>1. r \in Kept
          BY <2>2, <3>1, UpdateSets
        <4>2. PICK w : w = steps[1].work[r]
          OBVIOUS
        <4>3. /\ w.from = computed[r] - flying[r] /\ w.from \in Nat /\ w.to \in Nat
              /\ computed[r] \in Nat /\ flying[r] \in Nat
          BY <1>1, <2>2, <3>1, <4>2, FirstTokenIs
        <4>4. flying'[r] = flying[r] - (w.to - w.from)
          BY <2>2, <4>1, <4>2, UpdatedRequest
        <4>5. t = w.to
          BY <1>3, <2>1, <4>3, <4>4
        <4>6. 1 \in 1 .. Len(steps)
          BY <1>1
        <4>7. WorkAt(steps, computed, table, status, 1, r)
          BY <3>1, <4>6, StepFacts, WorkAtIs
        <4> QED
          BY <2>2, <4>2, <4>5, <4>7 DEF WorkAt, Live
      <3>2. CASE r \notin DOMAIN steps[1].work
        <4>1. r \notin Kept
          BY <3>2, UpdateSets
        <4>2. t = computed[r] - flying[r]
          BY <1>3, <2>1, <2>2, <4>1, UpdatedRequest
        <4>3. StartsIn(steps, computed, r, 0, t)
          BY <2>2, <4>2 DEF StepsOK, StartsAt, StartsIn
        <4>4. \A k \in DOMAIN steps : k \in Nat /\ k > 0
          BY <1>1, <1>2
        <4>5. \A k \in DOMAIN steps : r \in DOMAIN steps[k].work => k > 1
          BY <3>2, <4>4
        <4> QED
          BY <4>3, <4>4, <4>5 DEF StartsIn
      <3> QED
        BY <3>1, <3>2
    <2>4. StartsIn(steps', computed', r, 0, t)
      BY <2>3, UpdateStarts
    <2> QED
      BY <2>1, <2>4 DEF StartsAt, StartsIn
  <1>7. steps' \in Seq([work : {steps'[k].work : k \in DOMAIN steps'}, failed : SUBSET Req,
                        causes : {steps'[k].causes : k \in DOMAIN steps'}])
    <2>1. PICK U : steps' \in Seq(U)
      BY UpdateFacts
    <2>2. \A k \in 1 .. Len(steps') :
            /\ steps'[k] = [work |-> steps'[k].work, failed |-> steps'[k].failed,
                            causes |-> steps'[k].causes]
            /\ steps'[k].failed \subseteq Req
      <3>1. \A k \in 1 .. Len(steps') : k \in 1 .. Len(steps) - 1
        BY <1>1
      <3> QED
        BY <1>4, <3>1
    <2> QED
      BY <2>1, <2>2, StepSeq
  <1> QED
    BY <1>1, <1>4, <1>5, <1>6, <1>7 DEF StepsOK

LEMMA UpdateShared ==
    ASSUME TypeOK, RequestOK, StepsOK, SharedOK, Update
    PROVE  SharedOK'
  <1> SUFFICES ASSUME NEW r \in Req, NEW i \in DOMAIN table'[r], i * BlockSize > computed'[r]
               PROVE  /\ hash'[table'[r][i]] = 0
                      /\ \A q \in Req \ {r} : table'[r][i] \notin ToSet(table'[q])
    BY DEF SharedOK
  <1>1. table'[r] = table[r]
    <2>1. DOMAIN <<>> = {}
      OBVIOUS
    <2> QED
      BY <2>1, UpdatedLife
  <1>2. PICK b : b = table[r][i]
    OBVIOUS
  <1>3. hash[b] = 0 /\ \A q \in Req \ {r} : b \notin ToSet(table[q])
    BY <1>1, <1>2, UpdatedRest DEF SharedOK
  <1>4. b \in Blocks
    BY <1>1, <1>2 DEF TypeOK
  <1>5. hash'[b] = 0
    BY <1>3, <1>4, UpdatedRest
  <1>6. ASSUME NEW q \in Req \ {r} PROVE b \notin ToSet(table'[q])
    <2>1. table'[q] = table[q] \/ table'[q] = <<>>
      BY UpdatedLife
    <2>2. ToSet(<<>>) = {}
      BY DEF ToSet
    <2> QED
      BY <1>3, <2>1, <2>2
  <1> QED
    BY <1>1, <1>2, <1>5, <1>6

Later(e) == <<e[1] + 1, e[2]>>

LEMMA UpdatedPending ==
    ASSUME TypeOK, StepsOK, Update
    PROVE  /\ \A e \in Pending' : /\ Later(e) \in Pending /\ Work(e)' = Work(Later(e))
                                  /\ e[1] \in Nat \ {0} /\ e[2] \in Req /\ Later(e)[2] = e[2]
                                  /\ Later(e)[1] = e[1] + 1
           /\ \A f \in Pending : \E e \in Pending' : f = Later(e)
           /\ \A e, f \in Pending' : Precedes(Later(e), Later(f)) <=> Precedes(e, f)
           /\ \A e \in Pending' : Precedes(Now, e)
  <1>1. /\ ran \in Nat \ {0} /\ Len(steps) \in Nat \ {0} /\ ran <= Len(steps)
        /\ ran' = ran - 1 /\ Len(steps') = Len(steps) - 1
        /\ \A k \in 1 .. Len(steps) - 1 : k + 1 \in 1 .. Len(steps) /\ steps'[k] = steps[k + 1]
    BY UpdateFacts
  <1>2. Pending' = {e \in (ran .. Len(steps) - 1) \X Req : e[2] \in DOMAIN steps'[e[1]].work}
    <2>1. Pending' = {e \in (ran' + 1 .. Len(steps')) \X Req : e[2] \in DOMAIN steps'[e[1]].work}
      BY DEF Pending
    <2>2. ran' + 1 = ran
      BY <1>1
    <2> QED
      BY <1>1, <2>1, <2>2
  <1>3. \A k \in ran .. Len(steps) - 1 : /\ k \in 1 .. Len(steps) - 1 /\ k \in Nat \ {0}
                                         /\ k + 1 \in ran + 1 .. Len(steps)
    BY <1>1
  <1>4. ASSUME NEW e \in Pending'
        PROVE  /\ Later(e) \in Pending /\ Work(e)' = Work(Later(e))
               /\ e[1] \in Nat \ {0} /\ e[2] \in Req /\ Later(e)[2] = e[2]
               /\ Later(e)[1] = e[1] + 1
    <2>1. PICK k, r : k = e[1] /\ r = e[2]
      OBVIOUS
    <2>2. e = <<k, r>> /\ k \in ran .. Len(steps) - 1 /\ r \in Req /\ r \in DOMAIN steps'[k].work
      BY <1>2, <2>1
    <2>3. PICK j : j = k + 1 /\ j \in ran + 1 .. Len(steps) /\ steps'[k] = steps[j]
      BY <1>1, <1>3, <2>2
    <2>4. Later(e) = <<j, r>>
      BY <2>1, <2>3 DEF Later
    <2>5. <<j, r>> \in Pending
      BY <2>2, <2>3, PendingIs
    <2>6. Work(e)' = steps'[k].work[r]
      BY <2>1 DEF Work
    <2>7. Work(<<j, r>>) = steps[j].work[r]
      BY DEF Work
    <2> QED
      BY <1>3, <2>1, <2>2, <2>3, <2>4, <2>5, <2>6, <2>7
  <1>5. ASSUME NEW f \in Pending PROVE \E e \in Pending' : f = Later(e)
    <2>1. PICK j, r : j = f[1] /\ r = f[2]
      OBVIOUS
    <2>2. /\ f = <<j, r>> /\ j \in ran + 1 .. Len(steps) /\ r \in Req
          /\ r \in DOMAIN steps[j].work
      BY <2>1, PendingIs
    <2>3. PICK k \in ran .. Len(steps) - 1 : k + 1 = j
      <3>1. j - 1 \in ran .. Len(steps) - 1 /\ (j - 1) + 1 = j
        BY <1>1, <2>2
      <3> QED
        BY <3>1
    <2>4. steps'[k] = steps[j]
      BY <1>1, <1>3, <2>3
    <2>5. <<k, r>> \in Pending'
      BY <1>2, <2>2, <2>4
    <2>6. Later(<<k, r>>) = f
      BY <2>2, <2>3 DEF Later
    <2> QED
      BY <2>5, <2>6
  <1>6. ASSUME NEW e \in Pending', NEW f \in Pending'
        PROVE  Precedes(Later(e), Later(f)) <=> Precedes(e, f)
    <2>1. e[1] \in Nat /\ f[1] \in Nat
      BY <1>4
    <2>2. Later(e) = <<e[1] + 1, e[2]>> /\ Later(f) = <<f[1] + 1, f[2]>>
      BY DEF Later
    <2>3. Later(e)[1] < Later(f)[1] <=> e[1] < f[1]
      BY <2>1, <2>2
    <2>4. Later(e)[1] = Later(f)[1] <=> e[1] = f[1]
      BY <2>1, <2>2
    <2>5. Later(e)[2] = e[2] /\ Later(f)[2] = f[2]
      BY <2>2
    <2> QED
      BY <2>3, <2>4, <2>5 DEF Precedes
  <1>7. \A e \in Pending' : Precedes(Now, e)
    BY <1>4 DEF Precedes, Now
  <1> QED
    BY <1>4, <1>5, <1>6, <1>7

LEMMA UpdateOrder ==
    ASSUME TypeOK, RequestOK, StepsOK, OrderOK, Update
    PROVE  OrderOK'
  <1>1. \A d \in Pending' : Later(d) \in Pending /\ Work(d)' = Work(Later(d)) /\ d[2] \in Req
                            /\ Later(d)[2] = d[2]
    BY UpdatedPending
  <1> SUFFICES ASSUME NEW e \in Pending', NEW f \in Pending', Live(e[2])', f[2] # e[2],
                      ToSet(Work(e)'.table) \cap Writes(Work(f)') # {}
               PROVE  Precedes(f, e)
    BY DEF OrderOK
  <1>2. Live(Later(e)[2])
    <2>1. PICK r \in Req : r = e[2]
      BY <1>1
    <2> QED
      BY <1>1, <2>1, UpdatedLife
  <1>3. ToSet(Work(Later(e)).table) \cap Writes(Work(Later(f))) # {}
    BY <1>1
  <1>4. Precedes(Later(f), Later(e))
    BY <1>1, <1>2, <1>3 DEF OrderOK
  <1> QED
    BY <1>4, UpdatedPending

LEMMA UpdatedHeld ==
    ASSUME TypeOK, RequestOK, StepsOK, Update, NEW b \in Blocks, Held(b)'
    PROVE  Held(b)
  <1>1. hash'[b] # 0 => hash[b] # 0
    BY UpdatedRest
  <1>2. ASSUME NEW r \in Req, b \in ToSet(table'[r]) PROVE b \in ToSet(table[r])
    <2>1. table'[r] = table[r] \/ table'[r] = <<>>
      BY UpdatedLife
    <2>2. ToSet(<<>>) = {}
      BY DEF ToSet
    <2> QED
      BY <1>2, <2>1, <2>2
  <1> QED
    BY <1>1, <1>2 DEF Held

LEMMA UpdateDropped ==
    ASSUME TypeOK, RequestOK, StepsOK, Update, NEW b \in Blocks, NEW d, NEW e,
           Dropped(Pending, b, d),
           \A f \in Pending' : Precedes(d, Later(f)) => Precedes(e, f)
    PROVE  Dropped(Pending, b, e)'
  <1>1. /\ \A f \in Pending' : /\ Later(f) \in Pending /\ Work(f)' = Work(Later(f)) /\ f[2] \in Req
                               /\ Later(f)[2] = f[2]
        /\ \A f \in Pending : \E g \in Pending' : f = Later(g)
        /\ \A f, g \in Pending' : Precedes(Later(f), Later(g)) <=> Precedes(f, g)
    BY UpdatedPending
  <1>2. ASSUME Held(b)' PROVE \E f \in Pending' : Precedes(e, f) /\ b \in Writes(Work(f)')
    <2>1. Held(b)
      BY <1>2, UpdatedHeld
    <2>2. PICK g \in Pending : Precedes(d, g) /\ b \in Writes(Work(g))
      BY <2>1 DEF Dropped
    <2>3. PICK f \in Pending' : g = Later(f)
      BY <1>1
    <2> QED
      BY <1>1, <2>2, <2>3
  <1>3. ASSUME NEW g \in Pending', Live(g[2])', b \in Reads(Work(g)')
        PROVE  \E f \in Pending' : Precedes(e, f) /\ Precedes(f, g) /\ b \in Writes(Work(f)')
    <2>1. Live(Later(g)[2])
      <3>1. PICK r \in Req : r = g[2]
        BY <1>1
      <3> QED
        BY <1>1, <1>3, <3>1, UpdatedLife
    <2>2. b \in Reads(Work(Later(g))) /\ Later(g) \in Pending
      BY <1>1, <1>3
    <2>3. PICK h \in Pending : Precedes(d, h) /\ Precedes(h, Later(g)) /\ b \in Writes(Work(h))
      BY <2>1, <2>2 DEF Dropped
    <2>4. PICK f \in Pending' : h = Later(f)
      BY <1>1
    <2> QED
      BY <1>1, <2>3, <2>4
  <1> QED
    BY <1>2, <1>3 DEF Dropped

(* Blocks swept in this step: nobody who lives on holds one, and no prefix  *)
(* is found in one.                                                         *)
LEMMA UpdateSweeps ==
    ASSUME TypeOK, RequestOK, StepsOK, Update, NEW b \in Reused(Failing)
    PROVE  /\ \A r \in Req : Live(r)' => b \notin ToSet(table[r])
           /\ b \in Blocks
           /\ ~Held(b)'
  <1>1. b \in Blocks
    <2>1. PICK c \in Failing : Live(c) /\ b \in BlocksFrom(c, FirstToken(c))
      BY DEF Reused
    <2>2. c \in Req
      BY UpdateSets
    <2> QED
      BY <2>1, <2>2 DEF BlocksFrom, TypeOK
  <1>2. ASSUME NEW r \in Req, Live(r)', b \in ToSet(table[r]) PROVE FALSE
    <2>1. Live(r) /\ r \notin Bad
      BY <1>2, UpdatedLife
    <2>2. status[r] = "running"
      <3> SUFFICES ASSUME status[r] = "waiting" PROVE FALSE
        BY <2>1 DEF Live
      <3>1. Len(table[r]) = BlocksOf(0)
        BY <2>1 DEF RequestOK
      <3>2. Len(table[r]) = 0
        BY <3>1, BlockCount
      <3>3. table[r] = <<>>
        BY <3>2, EmptySeq DEF TypeOK
      <3> QED
        BY <1>2, <3>3 DEF ToSet
    <2>3. r \in Bad
      BY <1>2, <2>2 DEF Bad, Affected, Running
    <2> QED
      BY <2>1, <2>3
  <1>3. hash'[b] = 0
    BY <1>1, UpdatedRest
  <1>4. ASSUME NEW r \in Req PROVE b \notin ToSet(table'[r])
    <2>1. ToSet(<<>>) = {}
      BY DEF ToSet
    <2>2. CASE Live(r)'
      BY <1>2, <2>2, UpdatedLife
    <2>3. CASE ~Live(r)'
      BY <2>1, <2>3, UpdatedLife
    <2> QED
      BY <2>2, <2>3
  <1> QED
    BY <1>1, <1>2, <1>3, <1>4 DEF Held

LEMMA ReusedDropped ==
    ASSUME TypeOK, RequestOK, StepsOK, Update, NEW b \in Reused(Failing), NEW e
    PROVE  Dropped(Pending, b, e)'
  <1>1. ~Held(b)'
    BY UpdateSweeps
  <1>2. ASSUME NEW g \in Pending', Live(g[2])', b \in Reads(Work(g)') PROVE FALSE
    <2>1. PICK r \in Req : r = g[2]
      BY UpdatedPending
    <2>2. PICK f \in Pending : f = Later(g) /\ Work(g)' = Work(f) /\ f[2] = r
      BY <2>1, UpdatedPending
    <2>3. Live(r)' /\ Live(r)
      BY <1>2, <2>1, UpdatedLife
    <2>4. b \in ToSet(table[r])
      BY <1>2, <2>2, <2>3, EventFacts
    <2> QED
      BY <2>3, <2>4, UpdateSweeps
  <1> QED
    BY <1>1, <1>2 DEF Dropped

(* A failure that arrives now finds its request gone, or sweeps the blocks. *)
LEMMA UpdateExcused ==
    ASSUME TypeOK, RequestOK, StepsOK, Update,
           NEW c \in Req, NEW b, NEW k \in 1 .. ran, NEW m, m = k - 1, Excused(c, b, k)
    PROVE  \/ Excused(c, b, m)'
           \/ /\ c \in Bad /\ Live(c) /\ c \in DOMAIN steps[1].work /\ b \in Reused(Failing)
              /\ b \in BlocksFrom(c, steps[1].work[c].from)
              /\ \A d \in BlocksFrom(c, steps[1].work[c].from) : d \in Reused(Failing)
  <1>1. /\ ran \in Nat \ {0} /\ Len(steps) \in Nat \ {0} /\ ran <= Len(steps)
        /\ \A j \in 1 .. Len(steps) - 1 : j + 1 \in 1 .. Len(steps) /\ steps'[j] = steps[j + 1]
    BY UpdateFacts
  <1>2. missed' = missed \cup {r \in Failing : ~Live(r)}
    BY UpdatedRest
  <1>3. CASE c \in missed
    BY <1>2, <1>3 DEF Excused
  <1>4. CASE \E j \in 1 .. k : /\ c \in steps[j].failed
                               /\ Live(c) => b \in BlocksFrom(c, steps[j].work[c].from)
    <2>1. PICK j \in 1 .. k : /\ c \in steps[j].failed
                              /\ Live(c) => b \in BlocksFrom(c, steps[j].work[c].from)
      BY <1>4
    <2>2. CASE j = 1
      <3>1. c \in Failing
        BY <2>1, <2>2 DEF Failing
      <3>2. CASE ~Live(c)
        BY <1>2, <3>1, <3>2 DEF Excused
      <3>3. CASE Live(c)
        <4>1. c \in DOMAIN steps[1].work
          BY <1>1, <3>1, StepFacts DEF Failing
        <4>2. FirstToken(c) = steps[1].work[c].from
          BY <1>1, <3>3, <4>1, FirstTokenIs
        <4>3. \A d \in BlocksFrom(c, steps[1].work[c].from) : d \in Reused(Failing)
          BY <3>1, <3>3, <4>2 DEF Reused
        <4>4. c \in Bad
          BY <3>1, <3>3 DEF Bad, Affected
        <4> QED
          BY <2>1, <2>2, <3>3, <4>1, <4>3, <4>4
      <3> QED
        BY <3>2, <3>3
    <2>3. CASE j # 1
      <3>1. PICK i \in 1 .. m : i = j - 1 /\ steps'[i] = steps[j]
        <4>1. j - 1 \in 1 .. m /\ j - 1 \in 1 .. Len(steps) - 1 /\ (j - 1) + 1 = j
          BY <1>1, <2>3
        <4>2. steps'[j - 1] = steps[j]
          BY <1>1, <4>1
        <4> QED
          BY <4>1, <4>2
      <3>2. PICK t : t = steps[j].work[c].from /\ t = steps'[i].work[c].from
        BY <3>1
      <3>3. ASSUME Live(c)' PROVE b \in BlocksFrom(c, t)'
        <4>1. Live(c) /\ table'[c] = table[c]
          BY <3>3, UpdatedLife
        <4>2. b \in BlocksFrom(c, t)
          BY <2>1, <3>2, <4>1
        <4> QED
          BY <4>1, <4>2 DEF BlocksFrom
      <3>4. Live(c)' => b \in BlocksFrom(c, steps[i].work[c].from)'
        BY <3>2, <3>3 DEF BlocksFrom
      <3>5. c \in steps'[i].failed
        BY <2>1, <3>1
      <3> QED
        BY <3>4, <3>5 DEF Excused
    <2> QED
      BY <2>2, <2>3
  <1> QED
    BY <1>3, <1>4 DEF Excused

(* What a failed request writes later lies behind its first failed token. *)
LEMMA LaterWrites ==
    ASSUME TypeOK, RequestOK, StepsOK, NEW f \in Pending, f[1] > 1,
           NEW c, c = f[2], Live(c), c \in DOMAIN steps[1].work,
           NEW d \in Writes(Work(f))
    PROVE  d \in BlocksFrom(c, steps[1].work[c].from)
  <1>1. PICK k \in 1 .. Len(steps) : k = f[1] /\ c \in DOMAIN steps[k].work /\ k > 1
    BY PendingIs
  <1>2. PICK w : w = steps[k].work[c] /\ w = Work(f)
    BY <1>1 DEF Work
  <1>3. /\ c \in Req /\ w.from \in Nat /\ w.table \in Seq(Blocks)
        /\ \A i \in DOMAIN w.table : i \in DOMAIN table[c] /\ w.table[i] = table[c][i]
    <2>1. w = steps[k].work[c] /\ c \in DOMAIN steps[k].work
      BY <1>1, <1>2
    <2>2. c \in Req /\ w.from \in Nat /\ w.table \in Seq(Blocks)
      BY <2>1, WorkFacts
    <2>3. \A i \in DOMAIN w.table : i \in DOMAIN table[c] /\ w.table[i] = table[c][i]
      BY <2>1, WorkFacts
    <2> QED
      BY <2>2, <2>3
  <1>4. Len(steps) \in Nat /\ 1 \in 1 .. Len(steps) /\ 1 \in 1 .. k - 1
    BY <1>1, StepFacts
  <1>5. PICK v : v = steps[1].work[c]
    OBVIOUS
  <1>6. v.from \in Nat /\ v.to \in Nat /\ v.from < v.to
    BY <1>4, <1>5, WorkFacts
  <1>7. v.to <= w.from
    BY <1>1, <1>2, <1>4, <1>5, StepFacts DEF WorkOK
  <1>8. PICK i \in DOMAIN w.table : i * BlockSize > w.from /\ w.table[i] = d
    BY <1>2 DEF Writes
  <1>9. i \in Nat /\ i * BlockSize \in Nat
    <2>1. i \in Nat
      BY <1>3
    <2> QED
      BY <2>1, Products, Constants
  <1>10. i * BlockSize > v.from
    <2>1. PICK p \in Nat : p = i * BlockSize
      BY <1>9
    <2> QED
      BY <1>3, <1>6, <1>7, <1>8, <2>1
  <1>11. i > v.from \div BlockSize
    BY <1>6, <1>9, <1>10, PastToken
  <1> QED
    BY <1>3, <1>5, <1>8, <1>11 DEF BlocksFrom

LEMMA UpdateSwept ==
    ASSUME TypeOK, RequestOK, StepsOK, Update,
           NEW c \in Req, NEW b \in Blocks, Swept(Pending, c, b)
    PROVE  Swept(Pending, c, b)'
  <1>1. status'[c] = "error"
    BY UpdatedLife DEF Swept
  <1>2. Dropped(Pending, b, Now)'
    <2>1. PICK e : e = Now
      OBVIOUS
    <2>2. Dropped(Pending, b, e) /\ \A f \in Pending' : Precedes(e, f)
      BY <2>1, UpdatedPending DEF Swept
    <2>3. Dropped(Pending, b, e)'
      BY <2>2, UpdateDropped
    <2> QED
      BY <2>1, <2>3 DEF Now
  <1>3. ASSUME NEW e \in Pending', e[2] = c, NEW d \in Writes(Work(e)')
        PROVE  Dropped(Pending, d, e)'
    <2>1. PICK f \in Pending : f = Later(e) /\ Work(e)' = Work(f) /\ f[2] = c
      BY <1>3, UpdatedPending
    <2>2. d \in Writes(Work(f))
      BY <1>3, <2>1
    <2>3. d \in Blocks
      BY <2>2, EventFacts
    <2>4. Dropped(Pending, d, f)
      BY <2>1, <2>2 DEF Swept
    <2>5. \A g \in Pending' : Precedes(f, Later(g)) => Precedes(e, g)
      BY <2>1, UpdatedPending
    <2> QED
      BY <2>3, <2>4, <2>5, UpdateDropped
  <1> QED
    BY <1>1, <1>2, <1>3 DEF Swept

LEMMA UpdateCauses ==
    ASSUME TypeOK, RequestOK, StepsOK, CauseOK(Pending, cause), CausesOK, SweptNeverServed, Update
    PROVE  CauseOK(Pending, cause)' /\ CausesOK' /\ SweptNeverServed'
  <1>1. /\ ran \in Nat \ {0} /\ Len(steps) \in Nat \ {0} /\ ran <= Len(steps) /\ ran' = ran - 1
        /\ \A j \in 1 .. Len(steps) - 1 : j + 1 \in 1 .. Len(steps) /\ steps'[j] = steps[j + 1]
    BY UpdateFacts
  <1>2. cause' = cause
    BY UpdatedRest
  <1>3. ASSUME NEW b \in Blocks, cause'[b] \in Req
        PROVE  Excused(cause[b], b, ran)' \/ Swept(Pending, cause[b], b)'
    <2>1. PICK c : c = cause[b] /\ c = cause'[b] /\ c \in Req
      BY <1>2, <1>3
    <2>2. Excused(c, b, ran) \/ Swept(Pending, c, b)
      BY <2>1 DEF CauseOK
    <2>3. PICK m, k : m = ran' /\ k = ran /\ m = k - 1 /\ k \in 1 .. ran
      BY <1>1
    <2>4. CASE Swept(Pending, c, b)
      <3>1. Swept(Pending, c, b)'
        BY <2>1, <2>4, UpdateSwept
      <3> QED
        BY <2>1, <3>1 DEF Swept
    <2>5. CASE Excused(c, b, k)
      <3>1. CASE Excused(c, b, m)'
        BY <2>1, <2>3, <3>1 DEF Excused
      <3>2. CASE /\ c \in Bad /\ Live(c) /\ c \in DOMAIN steps[1].work /\ b \in Reused(Failing)
                 /\ \A d \in BlocksFrom(c, steps[1].work[c].from) : d \in Reused(Failing)
        <4>1. status'[c] = "error"
          BY <2>1, <3>2, UpdatedRequest
        <4>2. Dropped(Pending, b, Now)'
          <5>1. PICK e : e = Now
            OBVIOUS
          <5>2. Dropped(Pending, b, e)'
            BY <3>2, ReusedDropped
          <5> QED
            BY <5>1, <5>2 DEF Now
        <4>3. ASSUME NEW e \in Pending', e[2] = c, NEW d \in Writes(Work(e)')
              PROVE  Dropped(Pending, d, e)'
          <5>1. PICK f \in Pending : /\ f = Later(e) /\ Work(e)' = Work(f) /\ f[2] = c
                                     /\ f[1] = e[1] + 1 /\ e[1] \in Nat \ {0}
            BY <4>3, UpdatedPending
          <5>2. f[1] > 1 /\ d \in Writes(Work(f))
            BY <4>3, <5>1
          <5>3. d \in BlocksFrom(c, steps[1].work[c].from)
            BY <3>2, <5>1, <5>2, LaterWrites
          <5> QED
            BY <3>2, <5>3, ReusedDropped
        <4>4. Swept(Pending, c, b)'
          BY <4>1, <4>2, <4>3 DEF Swept
        <4> QED
          BY <2>1, <4>4 DEF Swept
      <3> QED
        BY <2>1, <2>3, <2>5, <3>1, <3>2, UpdateExcused
    <2> QED
      BY <2>2, <2>3, <2>4, <2>5
  <1>4. ASSUME NEW k \in 1 .. ran, NEW m, m = k - 1, NEW r \in Req,
               Live(r), r \notin Bad, status[r] = "running",
               NEW c \in Req, NEW b \in ToSet(table[r]), Excused(c, b, k)
        PROVE  Excused(c, b, m)'
    <2>1. b \notin Reused(Failing)
      BY <1>4 DEF Bad, Affected, Running
    <2> QED
      BY <1>4, <2>1, UpdateExcused
  <1>5. ASSUME NEW m \in 1 .. ran', NEW r \in DOMAIN steps'[m].work, Live(r)',
               NEW c \in steps'[m].causes[r] \cap Req
        PROVE  \E b \in ToSet(table'[r]) : Excused(c, b, m)'
    <2>1. PICK k \in 1 .. ran : m = k - 1 /\ k \in 1 .. Len(steps) /\ steps'[m] = steps[k]
      <3>1. m + 1 \in 1 .. ran /\ m \in 1 .. Len(steps) - 1 /\ m = (m + 1) - 1
        BY <1>1
      <3> QED
        BY <1>1, <3>1
    <2>2. r \in DOMAIN steps[k].work /\ c \in steps[k].causes[r] \cap Req
      BY <1>5, <2>1
    <2>3. r \in Req
      BY <2>1, <2>2, StepFacts
    <2>4. Live(r) /\ r \notin Bad /\ table'[r] = table[r]
      BY <1>5, <2>3, UpdatedLife
    <2>5. status[r] = "running"
      BY <2>1, <2>2, <2>4, WorkTables
    <2>6. PICK b \in ToSet(table[r]) : Excused(c, b, k)
      BY <2>2, <2>4 DEF CausesOK
    <2>7. Excused(c, b, m)'
      BY <1>4, <2>1, <2>2, <2>3, <2>4, <2>5, <2>6
    <2> QED
      BY <2>4, <2>7
  <1>6. ASSUME NEW r \in Req PROVE served'[r] \subseteq missed' \cup {-1}
    <2>1. missed \subseteq missed'
      BY UpdatedRest
    <2>2. CASE r \notin Ends
      <3>1. served'[r] = served[r]
        BY <2>2, UpdatedRequest
      <3> QED
        BY <2>1, <3>1 DEF SweptNeverServed
    <2>3. CASE r \in Ends
      <3>1. Live(r) /\ r \in DOMAIN steps[1].work /\ r \notin Bad
        BY <2>3, UpdateSets
      <3>2. 1 \in 1 .. Len(steps) /\ 1 \in 1 .. ran
        BY UpdateFacts
      <3>3. served'[r] = steps[1].causes[r] /\ steps[1].causes[r] \subseteq Req \cup {-1}
        BY <2>3, <3>1, <3>2, UpdatedRequest, StepFacts DEF WorkOK
      <3>4. status[r] = "running"
        BY <3>1, <3>2, WorkTables
      <3>5. ASSUME NEW c \in steps[1].causes[r] \cap Req PROVE c \in missed'
        <4>1. PICK b \in ToSet(table[r]) : Excused(c, b, 1)
          BY <3>1, <3>2 DEF CausesOK
        <4>2. Excused(c, b, 0)'
          <5>1. PICK m : m = 0 /\ m = 1 - 1
            OBVIOUS
          <5>2. Excused(c, b, m)'
            BY <1>4, <3>1, <3>2, <3>4, <4>1, <5>1
          <5> QED
            BY <5>1, <5>2
        <4>3. ~\E j \in 1 .. 0 : TRUE
          OBVIOUS
        <4> QED
          BY <4>2, <4>3 DEF Excused
      <3> QED
        BY <3>3, <3>5
    <2> QED
      BY <2>2, <2>3
  <1>7. CauseOK(Pending, cause)'
    BY <1>3 DEF CauseOK
  <1>8. CausesOK'
    BY <1>5 DEF CausesOK
  <1> QED
    BY <1>6, <1>7, <1>8 DEF SweptNeverServed

-----------------------------------------------------------------------------
(* Abort: request r goes away. *)
Aborted(r) ==
    /\ r \in Running
    /\ status' = [status EXCEPT ![r] = "aborted"]
    /\ table' = [table EXCEPT ![r] = <<>>]
    /\ flying' = [flying EXCEPT ![r] = 0]
    /\ aborts < MaxAborts /\ aborts' = aborts + 1
    /\ prompt' = prompt /\ computed' = computed /\ hash' = hash /\ steps' = steps
    /\ ran' = ran /\ cause' = cause /\ served' = served /\ missed' = missed /\ fails' = fails

LEMMA AbortIs == ASSUME Abort PROVE \E r \in Req : Aborted(r)
  BY DEF Abort, Aborted, Running

LEMMA AbortedFacts ==
    ASSUME TypeOK, RequestOK, NEW r \in Req, Aborted(r), NEW q \in Req
    PROVE  /\ Live(q)' => Live(q) /\ status'[q] = status[q] /\ table'[q] = table[q]
                          /\ flying'[q] = flying[q]
           /\ ~Live(q)' => table'[q] = <<>> /\ status'[q] \notin {"waiting", "running"}
           /\ status[q] = "error" <=> status'[q] = "error"
           /\ status'[q] \in {"waiting", "running", "served", "error", "aborted"}
           /\ table'[q] = table[q] \/ table'[q] = <<>>
           /\ flying'[q] = flying[q] \/ flying'[q] = 0
  <1>1. /\ status[q] \in {"waiting", "running", "served", "error", "aborted"}
        /\ table[q] \in Seq(Blocks)
    BY DEF TypeOK
  <1>2. status[r] = "running"
    BY DEF Aborted, Running
  <1>3. ~Live(q) => table[q] = <<>>
    <2>1. ~Live(q) => Len(table[q]) = 0
      BY DEF RequestOK
    <2> QED
      BY <1>1, <2>1, EmptySeq
  <1>4. /\ status'[q] = IF q = r THEN "aborted" ELSE status[q]
        /\ table'[q] = IF q = r THEN <<>> ELSE table[q]
        /\ flying'[q] = IF q = r THEN 0 ELSE flying[q]
    BY DEF Aborted, TypeOK
  <1> QED
    BY <1>1, <1>2, <1>3, <1>4 DEF Live

LEMMA AbortTypes ==
    ASSUME TypeOK, RequestOK, NEW r \in Req, Aborted(r)
    PROVE  TypeOK' /\ RequestOK'
  <1>1. /\ status' = [q \in Req |-> status'[q]] /\ table' = [q \in Req |-> table'[q]]
        /\ flying' = [q \in Req |-> flying'[q]]
    BY DEF Aborted, TypeOK
  <1>2. computed' = computed /\ prompt' = prompt
    BY DEF Aborted
  <1>3. ASSUME NEW q \in Req
        PROVE  /\ status'[q] \in {"waiting", "running", "served", "error", "aborted"}
               /\ table'[q] \in Seq(Blocks) /\ flying'[q] \in Nat /\ flying'[q] <= computed[q]
               /\ status'[q] = "running" => Len(table'[q]) * BlockSize >= computed[q]
    <2>1. /\ table[q] \in Seq(Blocks) /\ <<>> \in Seq(Blocks)
          /\ status[q] = "running" => Len(table[q]) * BlockSize >= computed[q]
      BY DEF TypeOK
    <2>2. flying[q] \in Nat /\ flying[q] <= computed[q] /\ computed[q] \in Nat
      BY RequestFacts
    <2>3. status'[q] \in {"waiting", "running", "served", "error", "aborted"}
      BY AbortedFacts
    <2>4. table'[q] = table[q] \/ table'[q] = <<>>
      BY AbortedFacts
    <2>5. flying'[q] = flying[q] \/ flying'[q] = 0
      BY AbortedFacts
    <2>6. status'[q] = "running" => status[q] = "running" /\ table'[q] = table[q]
      <3>1. status'[q] = "running" => Live(q)'
        BY DEF Live
      <3> QED
        BY <3>1, AbortedFacts
    <2>7. flying'[q] \in Nat /\ flying'[q] <= computed[q]
      BY <2>2, <2>5
    <2> QED
      BY <2>1, <2>3, <2>4, <2>6, <2>7
  <1>4. TypeOK'
    <2>1. /\ status' \in [Req -> {"waiting", "running", "served", "error", "aborted"}]
          /\ flying' \in [Req -> Nat] /\ table' \in [Req -> Seq(Blocks)]
      BY <1>1, <1>3
    <2>2. \A q \in Req : /\ flying'[q] <= computed'[q]
                         /\ status'[q] = "running" => Len(table'[q]) * BlockSize >= computed'[q]
      BY <1>2, <1>3
    <2>3. /\ prompt' = prompt /\ computed' = computed /\ hash' = hash /\ steps' = steps
          /\ ran' = ran /\ cause' = cause /\ served' = served /\ missed' = missed /\ fails' = fails
      BY DEF Aborted
    <2>4. aborts' \in 0 .. MaxAborts
      BY Constants DEF Aborted, TypeOK
    <2> QED
      BY <2>1, <2>2, <2>3, <2>4 DEF TypeOK
  <1>5. ASSUME NEW q \in Req
        PROVE  /\ status'[q] = "waiting" => computed'[q] = 0
               /\ status'[q] = "running" => computed'[q] \in 1 .. prompt'[q]
               /\ Len(table'[q]) = IF Live(q)' THEN BlocksOf(computed'[q]) ELSE 0
               /\ \A i, j \in DOMAIN table'[q] : table'[q][i] = table'[q][j] => i = j
    <2>1. CASE Live(q)'
      <3>1. Live(q) /\ status'[q] = status[q] /\ table'[q] = table[q]
        BY <2>1, AbortedFacts
      <3> QED
        BY <1>2, <2>1, <3>1 DEF RequestOK
    <2>2. CASE ~Live(q)'
      <3>1. table'[q] = <<>> /\ status'[q] \notin {"waiting", "running"}
        BY <2>2, AbortedFacts
      <3> QED
        BY <2>2, <3>1
    <2> QED
      BY <2>1, <2>2
  <1> QED
    BY <1>4, <1>5 DEF RequestOK

LEMMA AbortSteps ==
    ASSUME TypeOK, RequestOK, StepsOK, NEW r \in Req, Aborted(r)
    PROVE  StepsOK'
  <1>1. steps' = steps /\ computed' = computed
    BY DEF Aborted
  <1>2. ASSUME NEW k \in DOMAIN steps, NEW q \in DOMAIN steps[k].work PROVE WorkOK(k, q)'
    <2>1. k \in 1 .. Len(steps) /\ q \in Req
      BY StepFacts
    <2>2. PICK w : w = steps[k].work[q]
      OBVIOUS
    <2>3. WorkAt(steps, computed, table, status, k, q)
      BY <2>1, StepFacts, WorkAtIs
    <2>4. /\ Live(q)' => Live(q) /\ table'[q] = table[q]
          /\ status'[q] # "waiting"
      <3>1. status'[q] = "waiting" => Live(q)'
        BY DEF Live
      <3>2. status[q] # "waiting"
        BY <2>3 DEF WorkAt
      <3> QED
        BY <2>1, <3>1, <3>2, AbortedFacts
    <2>5. WorkAt(steps', computed', table', status', k, q)
      BY <1>1, <2>3, <2>4 DEF WorkAt, Live
    <2> QED
      BY <2>5, WorkAtIs
  <1>3. ASSUME NEW q \in Req, Live(q)' PROVE StartsAt(q, 0, computed[q] - flying[q])'
    <2>1. PICK t : t = computed'[q] - flying'[q]
      OBVIOUS
    <2>2. Live(q) /\ t = computed[q] - flying[q]
      BY <1>1, <1>3, <2>1, AbortedFacts
    <2>3. StartsAt(q, 0, t)
      BY <2>2 DEF StepsOK
    <2> QED
      BY <1>1, <2>1, <2>3 DEF StartsAt
  <1> QED
    BY <1>1, <1>2, <1>3 DEF StepsOK

LEMMA AbortShared ==
    ASSUME TypeOK, RequestOK, StepsOK, SharedOK, OrderOK, NEW r \in Req, Aborted(r)
    PROVE  SharedOK' /\ OrderOK'
  <1>1. computed' = computed /\ hash' = hash /\ steps' = steps /\ ran' = ran
    BY DEF Aborted
  <1>2. ASSUME NEW q \in Req, NEW i \in DOMAIN table'[q], i * BlockSize > computed'[q]
        PROVE  /\ hash'[table'[q][i]] = 0
               /\ \A p \in Req \ {q} : table'[q][i] \notin ToSet(table'[p])
    <2>1. table'[q] = table[q]
      <3>1. DOMAIN <<>> = {}
        OBVIOUS
      <3> QED
        BY <3>1, AbortedFacts
    <2>2. PICK b : b = table[q][i]
      OBVIOUS
    <2>3. hash[b] = 0 /\ \A p \in Req \ {q} : b \notin ToSet(table[p])
      BY <1>1, <1>2, <2>1, <2>2 DEF SharedOK
    <2>4. ASSUME NEW p \in Req \ {q} PROVE b \notin ToSet(table'[p])
      <3>1. table'[p] = table[p] \/ table'[p] = <<>>
        BY AbortedFacts
      <3>2. ToSet(<<>>) = {}
        BY DEF ToSet
      <3> QED
        BY <2>3, <3>1, <3>2
    <2> QED
      BY <1>1, <2>1, <2>2, <2>3, <2>4
  <1>3. Pending' = Pending /\ \A e : Work(e)' = Work(e)
    BY <1>1 DEF Pending, Work
  <1>4. \A e \in Pending : Live(e[2])' => Live(e[2])
    <2> SUFFICES ASSUME NEW e \in Pending, Live(e[2])' PROVE Live(e[2])
      OBVIOUS
    <2>1. PICK q \in Req : q = e[2]
      BY PendingIs
    <2> QED
      BY <2>1, AbortedFacts
  <1>5. OrderOK'
    BY <1>3, <1>4 DEF OrderOK
  <1> QED
    BY <1>2, <1>5 DEF SharedOK

LEMMA AbortCauses ==
    ASSUME TypeOK, RequestOK, StepsOK, CauseOK(Pending, cause), CausesOK, SweptNeverServed,
           NEW r \in Req, Aborted(r)
    PROVE  CauseOK(Pending, cause)' /\ CausesOK' /\ SweptNeverServed'
  <1>1. /\ hash' = hash /\ steps' = steps /\ ran' = ran /\ cause' = cause
        /\ served' = served /\ missed' = missed
    BY DEF Aborted
  <1>2. Pending' = Pending /\ \A e : Work(e)' = Work(e)
    BY <1>1 DEF Pending, Work
  <1>3. \A e \in Pending : Live(e[2])' => Live(e[2])
    <2> SUFFICES ASSUME NEW e \in Pending, Live(e[2])' PROVE Live(e[2])
      OBVIOUS
    <2>1. PICK q \in Req : q = e[2]
      BY PendingIs
    <2> QED
      BY <2>1, AbortedFacts
  <1>4. ASSUME NEW c \in Req, NEW b, NEW k, Excused(c, b, k) PROVE Excused(c, b, k)'
    <2>1. ASSUME NEW j \in 1 .. k, Live(c)', Live(c) => b \in BlocksFrom(c, steps[j].work[c].from)
          PROVE  b \in BlocksFrom(c, steps[j].work[c].from)'
      <3>1. PICK t : t = steps[j].work[c].from
        OBVIOUS
      <3>2. Live(c) /\ table'[c] = table[c]
        BY <2>1, AbortedFacts
      <3>3. b \in BlocksFrom(c, t)
        BY <2>1, <3>1, <3>2
      <3> QED
        BY <1>1, <3>1, <3>2, <3>3 DEF BlocksFrom
    <2> QED
      BY <1>1, <1>4, <2>1 DEF Excused
  <1>5. ASSUME NEW b \in Blocks, NEW e, Dropped(Pending, b, e) PROVE Dropped(Pending, b, e)'
    <2>1. Held(b)' => Held(b)
      <3>1. ASSUME NEW q \in Req, b \in ToSet(table'[q]) PROVE b \in ToSet(table[q])
        <4>1. table'[q] = table[q] \/ table'[q] = <<>>
          BY AbortedFacts
        <4>2. ToSet(<<>>) = {}
          BY DEF ToSet
        <4> QED
          BY <3>1, <4>1, <4>2
      <3> QED
        BY <1>1, <3>1 DEF Held
    <2> QED
      BY <1>2, <1>3, <1>5, <2>1 DEF Dropped
  <1>6. ASSUME NEW c \in Req, NEW b \in Blocks, Swept(Pending, c, b) PROVE Swept(Pending, c, b)'
    <2>1. status'[c] = "error"
      BY <1>6, AbortedFacts DEF Swept
    <2>2. Dropped(Pending, b, Now)'
      <3>1. PICK e : e = Now
        OBVIOUS
      <3>2. Dropped(Pending, b, e)'
        BY <1>5, <1>6, <3>1 DEF Swept
      <3> QED
        BY <3>1, <3>2 DEF Now
    <2>3. ASSUME NEW e \in Pending', e[2] = c, NEW d \in Writes(Work(e)')
          PROVE  Dropped(Pending, d, e)'
      <3>1. e \in Pending /\ d \in Writes(Work(e))
        BY <1>2, <2>3
      <3>2. d \in Blocks /\ Dropped(Pending, d, e)
        BY <1>6, <2>3, <3>1, EventFacts DEF Swept
      <3> QED
        BY <1>5, <3>2
    <2> QED
      BY <2>1, <2>2, <2>3 DEF Swept
  <1>7. CauseOK(Pending, cause)'
    <2> SUFFICES ASSUME NEW b \in Blocks, cause'[b] \in Req
                 PROVE  Excused(cause[b], b, ran)' \/ Swept(Pending, cause[b], b)'
      BY DEF CauseOK
    <2>1. PICK c, k : c = cause[b] /\ c = cause'[b] /\ c \in Req /\ k = ran /\ k = ran'
      BY <1>1
    <2>2. Excused(c, b, k) \/ Swept(Pending, c, b)
      BY <2>1 DEF CauseOK
    <2>3. Excused(c, b, k)' \/ Swept(Pending, c, b)'
      BY <1>4, <1>6, <2>1, <2>2
    <2>4. Excused(c, b, k)' => Excused(cause[b], b, ran)'
      BY <2>1 DEF Excused
    <2>5. Swept(Pending, c, b)' => Swept(Pending, cause[b], b)'
      BY <2>1 DEF Swept
    <2> QED
      BY <2>3, <2>4, <2>5
  <1>8. CausesOK'
    <2> SUFFICES ASSUME NEW k \in 1 .. ran, NEW q \in DOMAIN steps[k].work, Live(q)',
                        NEW c \in steps[k].causes[q] \cap Req
                 PROVE  \E b \in ToSet(table'[q]) : Excused(c, b, k)'
      BY <1>1 DEF CausesOK
    <2>1. q \in Req
      <3>1. k \in 1 .. Len(steps)
        BY StepFacts
      <3> QED
        BY <3>1, StepFacts
    <2>2. Live(q) /\ table'[q] = table[q]
      BY <2>1, AbortedFacts
    <2>3. PICK b \in ToSet(table[q]) : Excused(c, b, k)
      BY <2>2 DEF CausesOK
    <2>4. Excused(c, b, k)'
      BY <1>4, <2>3
    <2> QED
      BY <2>2, <2>4
  <1> QED
    BY <1>1, <1>7, <1>8 DEF SweptNeverServed

-----------------------------------------------------------------------------
(* The invariant holds at first, *)
LEMMA InitInv ==
    ASSUME Init
    PROVE  FailedInv
  <1>1. /\ prompt \in [Req -> Prompts] /\ status = [r \in Req |-> "waiting"]
        /\ computed = [r \in Req |-> 0] /\ flying = [r \in Req |-> 0]
        /\ table = [r \in Req |-> <<>>] /\ hash = [b \in Blocks |-> 0]
        /\ steps = <<>> /\ ran = 0 /\ cause = [b \in Blocks |-> 0]
        /\ served = [r \in Req |-> {}] /\ missed = {} /\ fails = 0 /\ aborts = 0
    BY DEF Init
  <1>2. Len(steps) = 0 /\ DOMAIN steps = {} /\ 1 .. 0 = {}
    BY <1>1
  <1>3. BlocksOf(0) = 0
    BY BlockCount
  <1>4. Max(Prompts) \in Nat /\ BlocksOf(Max(Prompts)) \in Nat
    <2>1. 1 \in Req
      BY Constants
    <2> QED
      BY <1>1, <2>1, PromptFacts, BlockCount
  <1>5. TypeOK
    <2>1. /\ flying \in [Req -> Nat] /\ table \in [Req -> Seq(Blocks)]
          /\ status \in [Req -> {"waiting", "running", "served", "error", "aborted"}]
          /\ served \in [Req -> SUBSET (Req \cup {-1})]
          /\ cause \in [Blocks -> Req \cup {0, -1}]
      BY <1>1
    <2>2. /\ computed \in [Req -> 0 .. Max(Prompts)]
          /\ hash \in [Blocks -> 0 .. BlocksOf(Max(Prompts))]
      <3>1. PICK m, n : m = Max(Prompts) /\ n = BlocksOf(Max(Prompts))
        OBVIOUS
      <3>2. 0 \in 0 .. m /\ 0 \in 0 .. n
        BY <1>4, <3>1
      <3> QED
        BY <1>1, <3>1, <3>2
    <2>3. \A r \in Req : flying[r] <= computed[r] /\ status[r] # "running"
      BY <1>1
    <2>4. Len(steps) <= InFlight /\ ran \in 0 .. Len(steps)
      BY <1>1, <1>2, Constants
    <2>5. fails \in 0 .. MaxFails /\ aborts \in 0 .. MaxAborts /\ missed \subseteq Req
      BY <1>1, Constants
    <2> QED
      BY <1>1, <2>1, <2>2, <2>3, <2>4, <2>5 DEF TypeOK
  <1>6. RequestOK
    BY <1>1, <1>3 DEF RequestOK, Live
  <1>7. StepsOK
    <2>1. steps \in Seq([work : {steps[k].work : k \in DOMAIN steps}, failed : SUBSET Req,
                         causes : {steps[k].causes : k \in DOMAIN steps}])
      BY <1>1
    <2>2. \A r \in Req : StartsAt(r, 0, computed[r] - flying[r])
      BY <1>1, <1>2 DEF StartsAt
    <2> QED
      BY <1>2, <2>1, <2>2 DEF StepsOK
  <1>8. SharedOK
    BY <1>1 DEF SharedOK
  <1>9. Pending = {}
    BY <1>1, <1>2 DEF Pending
  <1>10. OrderOK
    BY <1>9 DEF OrderOK
  <1>11. CauseOK(Pending, cause)
    BY <1>1, Constants DEF CauseOK
  <1>12. CausesOK
    BY <1>1, <1>2 DEF CausesOK
  <1>13. SweptNeverServed
    BY <1>1 DEF SweptNeverServed
  <1> QED
    BY <1>5, <1>6, <1>7, <1>8, <1>10, <1>11, <1>12, <1>13 DEF FailedInv

(* and every step preserves it. *)
LEMMA ScheduleInv ==
    ASSUME FailedInv, Schedule
    PROVE  FailedInv'
  <1>1. /\ TypeOK /\ RequestOK /\ StepsOK /\ SharedOK /\ OrderOK
        /\ CauseOK(Pending, cause) /\ CausesOK /\ SweptNeverServed
    BY DEF FailedInv
  <1>2. PICK rs, a : Scheduled(rs, a)
    BY <1>1, ScheduleIs
  <1>3. TypeOK'
    BY <1>1, <1>2, ScheduleTypes
  <1>4. RequestOK'
    BY <1>1, <1>2, ScheduleRequests
  <1>5. StepsOK'
    BY <1>1, <1>2, ScheduleSteps
  <1>6. SharedOK'
    BY <1>1, <1>2, ScheduleShared
  <1>7. OrderOK'
    BY <1>1, <1>2, ScheduleOrder
  <1>8. CauseOK(Pending, cause)' /\ CausesOK'
    BY <1>1, <1>2, ScheduleCauses
  <1>9. SweptNeverServed'
    <2>1. served' = served /\ missed' = missed
      BY DEF Schedule
    <2> QED
      BY <1>1, <2>1 DEF SweptNeverServed
  <1> QED
    BY <1>3, <1>4, <1>5, <1>6, <1>7, <1>8, <1>9 DEF FailedInv

LEMMA WorkerInv ==
    ASSUME FailedInv, WorkerStep
    PROVE  FailedInv'
  <1>1. /\ TypeOK /\ RequestOK /\ StepsOK /\ SharedOK /\ OrderOK
        /\ CauseOK(Pending, cause) /\ CausesOK /\ SweptNeverServed
    BY DEF FailedInv
  <1>2. PICK R, at : ExecutedAt(R, at)
    BY WorkerStepIs
  <1>3. /\ cause' \in [Blocks -> Req \cup {0, -1}]
        /\ CauseOK(Pending, cause)' /\ CausesOK'
    BY <1>1, <1>2, ExecutedCauses
  <1>4. TypeOK'
    BY <1>1, <1>2, <1>3, ExecutedTypes
  <1>5. StepsOK'
    BY <1>1, <1>2, <1>3, ExecutedSteps
  <1>6. OrderOK'
    BY <1>1, <1>2, ExecutedOrder
  <1>7. /\ prompt' = prompt /\ status' = status /\ computed' = computed
        /\ table' = table /\ hash' = hash /\ served' = served /\ missed' = missed
    BY <1>2 DEF ExecutedAt, Execute
  <1>8. RequestOK' /\ SharedOK' /\ SweptNeverServed'
    BY <1>1, <1>7 DEF RequestOK, Live, SharedOK, SweptNeverServed
  <1> QED
    BY <1>3, <1>4, <1>5, <1>6, <1>8 DEF FailedInv

LEMMA UpdateInv ==
    ASSUME FailedInv, Update
    PROVE  FailedInv'
  <1>1. /\ TypeOK /\ RequestOK /\ StepsOK /\ SharedOK /\ OrderOK
        /\ CauseOK(Pending, cause) /\ CausesOK /\ SweptNeverServed
    BY DEF FailedInv
  <1>2. TypeOK' /\ RequestOK'
    BY <1>1, UpdateTypes, UpdateRequests
  <1>3. StepsOK'
    BY <1>1, UpdateSteps
  <1>4. SharedOK'
    BY <1>1, UpdateShared
  <1>5. OrderOK'
    BY <1>1, UpdateOrder
  <1>6. CauseOK(Pending, cause)' /\ CausesOK' /\ SweptNeverServed'
    BY <1>1, UpdateCauses
  <1> QED
    BY <1>2, <1>3, <1>4, <1>5, <1>6 DEF FailedInv

LEMMA AbortInv ==
    ASSUME FailedInv, Abort
    PROVE  FailedInv'
  <1>1. /\ TypeOK /\ RequestOK /\ StepsOK /\ SharedOK /\ OrderOK
        /\ CauseOK(Pending, cause) /\ CausesOK /\ SweptNeverServed
    BY DEF FailedInv
  <1>2. PICK r \in Req : Aborted(r)
    BY AbortIs
  <1>3. TypeOK' /\ RequestOK'
    BY <1>1, <1>2, AbortTypes
  <1>4. StepsOK'
    BY <1>1, <1>2, AbortSteps
  <1>5. SharedOK' /\ OrderOK'
    BY <1>1, <1>2, AbortShared
  <1>6. CauseOK(Pending, cause)' /\ CausesOK' /\ SweptNeverServed'
    BY <1>1, <1>2, AbortCauses
  <1> QED
    BY <1>3, <1>4, <1>5, <1>6 DEF FailedInv

LEMMA StutterInv ==
    ASSUME FailedInv, UNCHANGED vars
    PROVE  FailedInv'
  <1>1. /\ prompt' = prompt /\ status' = status /\ computed' = computed /\ flying' = flying
        /\ table' = table /\ hash' = hash /\ steps' = steps /\ ran' = ran /\ cause' = cause
        /\ served' = served /\ missed' = missed /\ fails' = fails /\ aborts' = aborts
    BY DEF vars
  <1>2. TypeOK' /\ RequestOK' /\ SharedOK' /\ SweptNeverServed'
    BY <1>1 DEF FailedInv, TypeOK, RequestOK, Live, SharedOK, SweptNeverServed
  <1>3. StepsOK'
    <2>1. \A k, r : WorkOK(k, r)' <=> WorkOK(k, r)
      BY <1>1, WorkAtIs
    <2>2. \A r : StartsAt(r, 0, computed[r] - flying[r])' <=> StartsAt(r, 0, computed[r] - flying[r])
      BY <1>1 DEF StartsAt
    <2> QED
      BY <1>1, <2>1, <2>2 DEF FailedInv, StepsOK, Live
  <1>4. Pending' = Pending /\ \A e : Work(e)' = Work(e)
    BY <1>1 DEF Pending, Work
  <1>5. OrderOK'
    BY <1>1, <1>4 DEF FailedInv, OrderOK, Live
  <1>6. \A b, e : Dropped(Pending, b, e)' <=> Dropped(Pending, b, e)
    BY <1>1, <1>4 DEF Dropped, Held, Live
  <1>7. \A c, b, k : Excused(c, b, k)' <=> Excused(c, b, k)
    BY <1>1 DEF Excused, BlocksFrom, Live
  <1>8. \A c, b : Swept(Pending, c, b)' <=> Swept(Pending, c, b)
    BY <1>1, <1>4, <1>6 DEF Swept, Now
  <1>9. CauseOK(Pending, cause)'
    <2>1. \A b : Excused(cause[b], b, ran)' <=> Excused(cause[b], b, ran)
      BY <1>1 DEF Excused, BlocksFrom, Live
    <2>2. \A b : Swept(Pending, cause[b], b)' <=> Swept(Pending, cause[b], b)
      BY <1>1, <1>4, <1>6 DEF Swept, Now
    <2> QED
      BY <1>1, <2>1, <2>2 DEF FailedInv, CauseOK
  <1>10. CausesOK'
    BY <1>1, <1>7 DEF FailedInv, CausesOK, Live
  <1> QED
    BY <1>2, <1>3, <1>5, <1>9, <1>10 DEF FailedInv

LEMMA NextInv ==
    ASSUME FailedInv, [Next]_vars
    PROVE  FailedInv'
  BY ScheduleInv, WorkerInv, UpdateInv, AbortInv, StutterInv DEF Next

-----------------------------------------------------------------------------
(* The invariant of FailedInvariant always holds, whatever the requests,    *)
(* the block size, the pool, the depth of the pipeline and the failures.    *)
THEOREM InvariantHolds == Spec => []FailedInv
  <1>1. Init => FailedInv
    BY InitInv
  <1>2. FailedInv /\ [Next]_vars => FailedInv'
    BY NextInv
  <1> QED
    BY <1>1, <1>2, PTL DEF Spec

(* Every variable keeps its type; a request holds blocks for all it has     *)
(* computed and no more tokens are in flight than that (allocate_slots,     *)
(* update_from_output, finish_requests).                                    *)
THEOREM TypeCorrect == Spec => []TypeOK
  <1>1. FailedInv => TypeOK
    BY DEF FailedInv
  <1> QED
    BY <1>1, InvariantHolds, PTL

(* handle_failed_inputs: no request is served from a block that a request   *)
(* filled after its inputs failed, unless that request was gone when the    *)
(* failure arrived.                                                         *)
THEOREM SweptNeverServedHolds == Spec => []SweptNeverServed
  <1>1. FailedInv => SweptNeverServed
    BY DEF FailedInv
  <1> QED
    BY <1>1, InvariantHolds, PTL

(* Only these requests fail: the owners of failed tokens, and who holds a   *)
(* block that an owner filled from its first failed step on.                *)
LEMMA OnlyTheseFail ==
    ASSUME FailedInv, [Next]_vars, NEW r \in Req, status'[r] = "error", status[r] # "error"
    PROVE  \/ r \in steps[1].failed
           \/ \E p \in steps[1].failed : \E i \in DOMAIN table[p] :
                /\ i * BlockSize > steps[1].work[p].from
                /\ table[p][i] \in ToSet(table[r])
  <1>1. TypeOK /\ RequestOK /\ StepsOK /\ SharedOK
    BY DEF FailedInv
  <1>2. CASE Schedule
    <2>1. PICK rs, a : Scheduled(rs, a)
      BY <1>1, <1>2, ScheduleIs
    <2> QED
      BY <2>1 DEF Scheduled
  <1>3. CASE WorkerStep
    <2>1. PICK R, at : ExecutedAt(R, at)
      BY <1>3, WorkerStepIs
    <2> QED
      BY <2>1 DEF ExecutedAt, Execute
  <1>4. CASE Abort
    BY <1>1, <1>4, AbortIs, AbortedFacts
  <1>5. CASE UNCHANGED vars
    BY <1>5 DEF vars
  <1>6. CASE Update
    <2>1. r \in Bad
      BY <1>1, <1>6, UpdatedRequest
    <2>2. r \in Failing \/ ToSet(table[r]) \cap Reused(Failing) # {}
      BY <2>1 DEF Bad, Affected
    <2>3. ASSUME ToSet(table[r]) \cap Reused(Failing) # {}
          PROVE  \E p \in Failing : \E i \in DOMAIN table[p] :
                   /\ i * BlockSize > steps[1].work[p].from
                   /\ table[p][i] \in ToSet(table[r])
      <3>1. PICK p \in Failing : Live(p) /\ BlocksFrom(p, FirstToken(p)) \cap ToSet(table[r]) # {}
        BY <2>3 DEF Reused
      <3>2. PICK t : t = steps[1].work[p].from
        OBVIOUS
      <3>3. 1 \in 1 .. Len(steps) /\ Len(steps) > 0
        BY <1>1, <1>6, UpdateFacts
      <3>4. p \in DOMAIN steps[1].work
        BY <1>1, <3>3, StepFacts DEF Failing
      <3>5. FirstToken(p) = t /\ t \in Nat
        BY <1>1, <3>1, <3>2, <3>3, <3>4, FirstTokenIs
      <3>6. PICK i \in DOMAIN table[p] : i > t \div BlockSize /\ table[p][i] \in ToSet(table[r])
        BY <3>1, <3>5 DEF BlocksFrom
      <3>7. i \in Nat
        <4>1. p \in Req
          BY <1>1, <1>6, UpdateSets
        <4> QED
          BY <1>1, <4>1, RequestFacts
      <3>8. i * BlockSize > t
        BY <3>5, <3>6, <3>7, PastToken
      <3> QED
        BY <3>2, <3>6, <3>8
    <2> QED
      BY <2>2, <2>3 DEF Failing
  <1> QED
    BY <1>2, <1>3, <1>4, <1>5, <1>6 DEF Next

(* A request fails only for its own inputs or for a block that a failed     *)
(* request filled in the failed step or later: FirstToken, with whatever is *)
(* in flight, is the failed step's first token.                             *)
THEOREM Innocents == Spec => InnocentsSpared
  <1>1. FailedInv /\ [Next]_vars =>
          [\A r \in Req : status'[r] = "error" /\ status[r] # "error" =>
              LET step == steps[1]
              IN  \/ r \in step.failed
                  \/ \E p \in step.failed : \E i \in DOMAIN table[p] :
                      /\ i * BlockSize > step.work[p].from
                      /\ table[p][i] \in ToSet(table[r])]_vars
    BY OnlyTheseFail
  <1> QED
    BY <1>1, InvariantHolds, PTL DEF Spec, InnocentsSpared
=============================================================================
