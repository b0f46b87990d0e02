------------------------ MODULE FlagsAllReduce_proofs ------------------------
(***************************************************************************)
(* The flags-in-data all-reduce is exact, for any number of ranks, any     *)
(* message sizes, any grids and any mix of kernels.                        *)
(*                                                                         *)
(* First how a message is laid out: the slots of a call do not overlap and *)
(* lie within the extent its epoch word states, every index has one CTA of *)
(* the grid, and the partitions cover the message.                         *)
(***************************************************************************)
EXTENDS FlagsInvariant, TLAPS

-----------------------------------------------------------------------------
(* Products. *)
LEMMA Products ==
    ASSUME NEW x \in Nat, NEW S \in Nat
    PROVE  x * S \in Nat /\ (x + 1) * S = x * S + S
OBVIOUS

LEMMA ProductOrder ==
    ASSUME NEW x \in Nat, NEW y \in Nat, NEW S \in Nat, x <= y
    PROVE  x * S <= y * S
OBVIOUS

(* Areas of stride S do not overlap. *)
LEMMA AreasApart ==
    ASSUME NEW x \in Nat, NEW y \in Nat, NEW S \in Nat, NEW i \in Nat, NEW j \in Nat,
           i < S, x < y
    PROVE  x * S + i < y * S + j
<1>1. (x + 1) * S <= y * S
  BY ProductOrder
<1>2. (x + 1) * S = x * S + S /\ x * S \in Nat /\ y * S \in Nat
  BY Products
<1> QED
  BY <1>1, <1>2

LEMMA AddressesApart ==
    ASSUME NEW x \in Nat, NEW y \in Nat, NEW S \in Nat, NEW i \in Nat, NEW j \in Nat,
           i < S, j < S, x * S + i = y * S + j
    PROVE  x = y /\ i = j
<1>1. ~(x < y) /\ ~(y < x)
  <2> x * S \in Nat /\ y * S \in Nat
    BY Products
  <2> QED
    BY AreasApart
<1> QED
  BY <1>1, Products

(* Division. *)
LEMMA Division ==
    ASSUME NEW n \in Nat, NEW b \in Nat \ {0}
    PROVE  /\ n \div b \in Nat
           /\ n % b \in 0 .. b - 1
           /\ n = (b * (n \div b)) + (n % b)
OBVIOUS

LEMMA DivisionBelow ==
    ASSUME NEW n \in Nat, NEW b \in Nat \ {0}, NEW c \in Nat, n < b * c
    PROVE  n \div b < c
<1> SUFFICES ASSUME c <= n \div b PROVE FALSE
  BY Division
<1>1. c * b <= (n \div b) * b
  BY ProductOrder, Division
<1>2. b * (n \div b) = (n \div b) * b /\ b * c = c * b
  BY Division
<1> QED
  BY <1>1, <1>2, Division

(* The ceiling that per_cta is. *)
LEMMA Ceiling ==
    ASSUME NEW n \in Nat \ {0}, NEW b \in Nat \ {0}
    PROVE  /\ (n + b - 1) \div b \in Nat \ {0}
           /\ n <= b * ((n + b - 1) \div b)
<1> DEFINE m == n + b - 1
           p == m \div b
<1>1. m \in Nat /\ m = n + b - 1
  OBVIOUS
<1>2. p \in Nat /\ m % b \in 0 .. b - 1 /\ m = (b * p) + (m % b)
  BY <1>1, Division
<1>3. b * p \in Int
  BY <1>2
<1> HIDE DEF m
<1>4. n <= b * p
  BY <1>1, <1>2, <1>3
<1>5. p # 0
  <2> SUFFICES ASSUME p = 0 PROVE FALSE
    OBVIOUS
  <2> b * p = 0
    OBVIOUS
  <2> QED
    BY <1>4
<1> QED
  BY <1>2, <1>4, <1>5 DEF m

-----------------------------------------------------------------------------
LEMMA Constants ==
    /\ R \in Nat /\ R >= 2
    /\ MaxBlocks \in Nat /\ MaxBlocks >= 1
    /\ LbMax \in Nat
    /\ MaxCalls \in Nat /\ MaxCalls >= 1
    /\ R - 1 \in Rank
    /\ \A r \in Rank : r \in Nat /\ r <= R - 1
BY FlagsAssumption DEF Rank

LEMMA MessageFacts ==
    ASSUME NEW c \in Message
    PROVE  /\ c.kind \in Kinds
           /\ c.size \in Nat \ {0}
           /\ c.kind = "two_shot_z" => Largest(c.size) <= LbMax
BY FlagsAssumption, SlotsAssumption DEF Message, Kinds

(* The last partition is the largest, and is never empty. *)
LEMMA Partitions ==
    ASSUME NEW n \in Nat \ {0}, NEW q \in Rank
    PROVE  /\ n \div R \in Nat
           /\ PartLen(q, n) \in Nat
           /\ PartLen(q, n) <= Largest(n)
           /\ Largest(n) \in Nat \ {0}
           /\ Largest(n) <= n
           /\ Largest(n) = n - (R - 1) * (n \div R)
           /\ n \div R <= Largest(n)
<1> DEFINE p == n \div R
<1>1. R \in Nat \ {0} /\ R >= 2
  BY Constants
<1>2. p \in Nat /\ R * p <= n
  <2>1. p \in Nat /\ n % R \in 0 .. R - 1 /\ n = (R * p) + (n % R)
    BY <1>1, Division
  <2>2. R * p \in Nat
    BY <1>1, <2>1
  <2> QED
    BY <2>1, <2>2
<1> HIDE DEF p
<1>3. R * p = (R - 1) * p + p /\ (R - 1) * p \in Nat
  BY <1>1, <1>2
<1>4. PartLen(R - 1, n) = n - (R - 1) * p
  BY DEF PartLen, p
<1>5. PartLen(q, n) = n - (R - 1) * p \/ PartLen(q, n) = p
  BY DEF PartLen, p
<1>6. p = 0 => (R - 1) * p = 0
  BY <1>1
<1> QED
  BY <1>1, <1>2, <1>3, <1>4, <1>5, <1>6 DEF Largest, p

LEMMA OwnedFacts ==
    ASSUME NEW c \in Message, NEW q \in Rank
    PROVE  /\ Owned(c, q) \in Nat
           /\ Owned(c, q) <= c.size
           /\ Owned(c, q) <= Stride(c)
           /\ Stride(c) \in Nat
           /\ Owned(c, q) <= Owned(c, R - 1)
           /\ Owned(c, R - 1) \in Nat \ {0}
           /\ 0 < Owned(c, R - 1)
           /\ c.kind = "one_shot" => Owned(c, q) = c.size
           /\ c.kind # "one_shot" => Owned(c, R - 1) = Largest(c.size)
           /\ c.kind # "one_shot" => Owned(c, q) = PartLen(q, c.size)
<1>1. c.kind \in Kinds /\ c.size \in Nat \ {0}
      /\ (c.kind = "two_shot_z" => Largest(c.size) <= LbMax)
  BY MessageFacts
<1>2. /\ PartLen(q, c.size) \in Nat /\ PartLen(q, c.size) <= Largest(c.size)
      /\ Largest(c.size) \in Nat \ {0} /\ Largest(c.size) <= c.size
  BY <1>1, Partitions
<1>3. Largest(c.size) = PartLen(R - 1, c.size)
  BY DEF Largest
<1>4. LbMax \in Nat /\ R - 1 \in Rank
  BY Constants
<1>5. CASE c.kind = "one_shot"
  BY <1>1, <1>2, <1>5 DEF Owned, Stride
<1>6. CASE c.kind = "two_shot"
  BY <1>1, <1>2, <1>3, <1>6 DEF Owned, Stride
<1>7. CASE c.kind = "two_shot_z"
  BY <1>1, <1>2, <1>3, <1>4, <1>7 DEF Owned, Stride
<1> QED
  BY <1>1, <1>5, <1>6, <1>7 DEF Kinds

(* An index some rank owns. *)
LEMMA IndexFacts ==
    ASSUME NEW c \in Message, NEW q \in Rank, NEW i \in Nat, i < Owned(c, q)
    PROVE  i \in Elem /\ i < Stride(c) /\ i < Owned(c, R - 1) /\ i < c.size
<1>1. i < c.size /\ i < Stride(c) /\ i < Owned(c, R - 1)
  BY OwnedFacts, MessageFacts
<1>2. i \in 0 .. c.size - 1
  BY <1>1, MessageFacts
<1> QED
  BY <1>1, <1>2 DEF Elem

LEMMA ElemIsNat == Elem \subseteq Nat
BY DEF Elem

-----------------------------------------------------------------------------
(* No two packs of a call are stored at one address of a buffer. *)
LEMMA SlotsApart ==
    ASSUME NEW c \in Message, NEW q \in Rank, NEW s \in Rank, NEW i \in Nat, NEW j \in Nat,
           NEW u \in Rank, NEW v \in Rank, i < Owned(c, u), j < Owned(c, v)
    PROVE  /\ ScatterAddr(c, q, i) = ScatterAddr(c, s, j) => q = s /\ i = j
           /\ GatherAddr(c, q, i) = GatherAddr(c, s, j) => q = s /\ i = j
           /\ ScatterAddr(c, q, i) # GatherAddr(c, s, j)
<1> DEFINE S == Stride(c)
<1>1. S \in Nat /\ i < S /\ j < S
  BY OwnedFacts, IndexFacts
<1>2. q \in Nat /\ s \in Nat /\ R \in Nat /\ R + q \in Nat /\ R + s \in Nat /\ q < R + s
  BY Constants
<1> HIDE DEF S
<1>3. q * S + i = s * S + j => q = s /\ i = j
  BY <1>1, <1>2, AddressesApart
<1>4. (R + q) * S + i = (R + s) * S + j => R + q = R + s /\ i = j
  BY <1>1, <1>2, AddressesApart
<1>5. q * S + i # (R + s) * S + j
  <2>1. q * S + i < (R + s) * S + j
    BY <1>1, <1>2, AreasApart
  <2>2. q * S \in Nat /\ (R + s) * S \in Nat
    BY <1>1, <1>2, Products
  <2> QED
    BY <1>1, <2>1, <2>2
<1> QED
  BY <1>2, <1>3, <1>4, <1>5 DEF ScatterAddr, GatherAddr, S

(* Every pack of a call lies within the extent its epoch word states. *)
LEMMA SlotsWithinExtent ==
    ASSUME NEW c \in Message, NEW q \in Rank, NEW u \in Rank, NEW i \in Nat, i < Owned(c, u)
    PROVE  /\ ScatterAddr(c, q, i) \in Dirty(c, Extent(c))
           /\ c.kind # "one_shot" => GatherAddr(c, q, i) \in Dirty(c, Extent(c))
<1> DEFINE S == Stride(c)
           L == Largest(c.size)
<1>1. S \in Nat /\ i < S /\ i < Owned(c, R - 1)
  BY OwnedFacts, IndexFacts
<1>2. q \in Nat /\ R \in Nat /\ R + q \in Nat /\ q < R /\ R + q < 2 * R /\ 2 * R \in Nat
  BY Constants
<1>3. c.kind \in Kinds /\ c.size \in Nat \ {0} /\ L \in Nat \ {0}
  BY MessageFacts, Partitions, Constants
<1>4. c.kind # "one_shot" => i < L
  BY <1>1, OwnedFacts
<1> HIDE DEF S, L
<1>5. q * S + i < R * S /\ (R + q) * S + i < (2 * R) * S
  <2>1. q * S + i < R * S + 0
    BY <1>1, <1>2, AreasApart
  <2>2. (R + q) * S + i < (2 * R) * S + 0
    BY <1>1, <1>2, AreasApart
  <2>3. R * S \in Nat /\ (2 * R) * S \in Nat
    BY <1>1, <1>2, Products
  <2> QED
    BY <2>1, <2>2, <2>3
<1>6. q * S \in Nat /\ (R + q) * S \in Nat /\ R * S \in Nat /\ (2 * R) * S \in Nat
  BY <1>1, <1>2, Products
<1>7. CASE c.kind = "one_shot"
  <2>1. S = c.size /\ Extent(c) = R * S
    BY <1>7 DEF S, Stride, Extent
  <2>2. Dirty(c, Extent(c)) = 0 .. (R * S) - 1
    BY <1>7, <2>1 DEF Dirty
  <2>3. (q * S) + i \in 0 .. (R * S) - 1
    BY <1>5, <1>6
  <2> QED
    BY <1>7, <2>2, <2>3 DEF ScatterAddr, S
<1>8. CASE c.kind = "two_shot"
  <2>1. S = L /\ Extent(c) = (2 * R) * S
    BY <1>8 DEF S, L, Stride, Extent
  <2>2. Dirty(c, Extent(c)) = 0 .. ((2 * R) * S) - 1
    BY <1>8, <2>1 DEF Dirty
  <2>3. (2 * R) * S = (R * S) + (R * S)
    BY <1>1, <1>2
  <2>4. (q * S) + i \in 0 .. ((2 * R) * S) - 1
    BY <1>5, <1>6, <2>3
  <2>5. ((R + q) * S) + i \in 0 .. ((2 * R) * S) - 1
    BY <1>5, <1>6
  <2> QED
    BY <2>2, <2>4, <2>5 DEF ScatterAddr, GatherAddr, S
<1>9. CASE c.kind = "two_shot_z"
  <2>1. S = LbMax /\ Extent(c) = L
    BY <1>9 DEF S, L, Stride, Extent
  <2>2. Dirty(c, Extent(c)) = {a * LbMax + b : a \in 0 .. 2 * R - 1, b \in 0 .. L - 1}
    BY <1>9, <2>1 DEF Dirty
  <2>3. i \in 0 .. L - 1
    BY <1>3, <1>4, <1>9
  <2>4. q \in 0 .. 2 * R - 1 /\ R + q \in 0 .. 2 * R - 1
    BY <1>2
  <2> QED
    BY <2>1, <2>2, <2>3, <2>4 DEF ScatterAddr, GatherAddr, S
<1> QED
  BY <1>3, <1>7, <1>8, <1>9 DEF Kinds

LEMMA DirtyIsNat ==
    ASSUME NEW c \in Message, NEW n, NEW a \in Dirty(c, n)
    PROVE  a \in Nat
<1>1. CASE c.kind = "two_shot_z"
  <2>1. PICK x \in 0 .. 2 * R - 1, b \in 0 .. n - 1 : a = x * LbMax + b
    BY <1>1 DEF Dirty
  <2>2. x \in Nat /\ b \in Nat /\ LbMax \in Nat
    BY Constants
  <2>3. x * LbMax \in Nat
    BY <2>2, Products
  <2> QED
    BY <2>1, <2>2, <2>3
<1>2. CASE c.kind # "two_shot_z"
  BY <1>2 DEF Dirty
<1> QED
  BY <1>1, <1>2

LEMMA AddressIsNat == Addr \subseteq Nat
BY DirtyIsNat DEF Addr

LEMMA SlotIsAddress ==
    ASSUME NEW c \in Message, NEW q \in Rank, NEW u \in Rank, NEW i \in Nat, i < Owned(c, u)
    PROVE  /\ ScatterAddr(c, q, i) \in Addr
           /\ c.kind # "one_shot" => GatherAddr(c, q, i) \in Addr
BY SlotsWithinExtent DEF Addr

-----------------------------------------------------------------------------
(* The grid fits the CTAs, and takes every index and every address. *)
LEMMA GridFacts ==
    ASSUME NEW c \in Message
    PROVE  /\ Blocks(c) \in Nat \ {0}
           /\ Grid(c) \subseteq Cta
           /\ 0 \in Grid(c)
           /\ \A a \in Nat : a % Blocks(c) \in Grid(c)
<1>1. Owned(c, R - 1) \in Nat \ {0} /\ MaxBlocks \in Nat \ {0}
  BY OwnedFacts, Constants
<1>2. Blocks(c) \in Nat \ {0} /\ Blocks(c) <= MaxBlocks
  BY <1>1 DEF Blocks
<1>3. Grid(c) \subseteq Cta /\ 0 \in Grid(c)
  BY <1>1, <1>2 DEF Grid, Cta
<1>4. ASSUME NEW a \in Nat PROVE a % Blocks(c) \in Grid(c)
  BY <1>2, Division DEF Grid
<1> QED
  BY <1>2, <1>3, <1>4

LEMMA CtaOfIndex ==
    ASSUME NEW c \in Message, NEW q \in Rank, NEW i \in Nat, i < Owned(c, q)
    PROVE  CtaOf(c, i) \in Grid(c)
<1>1. Blocks(c) \in Nat \ {0} /\ \A a \in Nat : a % Blocks(c) \in Grid(c)
  BY GridFacts
<1>2. CASE c.kind = "two_shot_z"
  <2>1. Largest(c.size) \in Nat \ {0} /\ i < Largest(c.size)
    BY <1>2, IndexFacts, OwnedFacts, Partitions, MessageFacts, Constants
  <2>2. PerCta(c) \in Nat \ {0} /\ Largest(c.size) <= Blocks(c) * PerCta(c)
    BY <1>1, <2>1, Ceiling DEF PerCta
  <2>3. Blocks(c) * PerCta(c) = PerCta(c) * Blocks(c) /\ PerCta(c) * Blocks(c) \in Nat
    BY <1>1, <2>2
  <2>4. i < PerCta(c) * Blocks(c)
    BY <2>1, <2>2, <2>3
  <2>5. i \div PerCta(c) \in Nat /\ i \div PerCta(c) < Blocks(c)
    BY <1>1, <2>2, <2>4, Division, DivisionBelow
  <2> QED
    BY <1>1, <1>2, <2>5 DEF CtaOf, Grid
<1>3. CASE c.kind # "two_shot_z"
  BY <1>1, <1>3 DEF CtaOf
<1> QED
  BY <1>2, <1>3

-----------------------------------------------------------------------------
(* The partitions lie within the message and cover it. *)
LEMMA ElementOfIndex ==
    ASSUME NEW c \in Message, NEW q \in Rank, NEW i \in Nat, i < Owned(c, q)
    PROVE  ElemOf(c, q, i) \in Elem
<1> DEFINE p == c.size \div R
<1>1. CASE c.kind = "one_shot"
  BY <1>1, IndexFacts DEF ElemOf
<1>2. CASE c.kind # "one_shot"
  <2>1. c.size \in Nat \ {0} /\ i < PartLen(q, c.size) /\ R \in Nat \ {0} /\ R - 1 \in Nat
        /\ q \in Nat /\ q <= R - 1
    BY <1>2, OwnedFacts, MessageFacts, Constants
  <2>2. p \in Nat /\ PartLen(R - 1, c.size) = c.size - (R - 1) * p
        /\ PartLen(R - 1, c.size) \in Nat /\ p <= PartLen(R - 1, c.size)
    BY <2>1, Partitions, Constants DEF Largest
  <2>3. q # R - 1 => PartLen(q, c.size) = p
    BY DEF PartLen
  <2> HIDE DEF p
  <2>4. q * p \in Nat /\ (R - 1) * p \in Nat
    BY <2>1, <2>2, Products
  <2>5. q * p + i < c.size
    <3>1. CASE q = R - 1
      BY <2>1, <2>2, <2>4, <3>1
    <3>2. CASE q # R - 1
      <4>1. q < R - 1 /\ i < p
        BY <2>1, <2>3, <3>2
      <4>2. q * p + i < (R - 1) * p + 0
        BY <2>1, <2>2, <4>1, AreasApart
      <4> QED
        BY <2>1, <2>2, <2>4, <4>2
    <3> QED
      BY <3>1, <3>2
  <2>6. q * p + i \in 0 .. c.size - 1
    BY <2>1, <2>4, <2>5
  <2>7. ElemOf(c, q, i) = q * p + i
    BY <1>2 DEF ElemOf, p
  <2> QED
    BY <2>6, <2>7 DEF Elem
<1> QED
  BY <1>1, <1>2

LEMMA PartitionsCover ==
    ASSUME NEW c \in Message, NEW e \in 0 .. c.size - 1
    PROVE  /\ e \in Elem
           /\ c.kind = "one_shot" => \A r \in Rank : e < Owned(c, r) /\ ElemOf(c, r, e) = e
           /\ c.kind # "one_shot" =>
                \E q \in Rank, i \in Nat : i < Owned(c, q) /\ ElemOf(c, q, i) = e
<1> DEFINE p == c.size \div R
<1>1. c.size \in Nat \ {0} /\ R \in Nat \ {0} /\ R - 1 \in Nat /\ R - 1 \in Rank
  BY MessageFacts, Constants
<1>2. e \in Nat /\ e < c.size
  BY <1>1
<1>3. e \in Elem
  BY DEF Elem
<1>4. ASSUME c.kind = "one_shot", NEW r \in Rank PROVE e < Owned(c, r) /\ ElemOf(c, r, e) = e
  BY <1>2, <1>4 DEF Owned, ElemOf
<1>5. ASSUME c.kind # "one_shot"
      PROVE  \E q \in Rank, i \in Nat : i < Owned(c, q) /\ ElemOf(c, q, i) = e
  <2>1. \A q \in Rank, i \in Nat : Owned(c, q) = PartLen(q, c.size)
                                     /\ ElemOf(c, q, i) = q * p + i
    BY <1>5 DEF Owned, ElemOf
  <2>2. p \in Nat /\ PartLen(R - 1, c.size) = c.size - (R - 1) * p
    BY <1>1, Partitions DEF Largest
  <2>3. \A q \in Rank : q # R - 1 => PartLen(q, c.size) = p
    BY DEF PartLen
  <2> HIDE DEF p
  <2>4. (R - 1) * p \in Nat
    BY <1>1, <2>2, Products
  <2>5. CASE (R - 1) * p <= e
    <3> DEFINE i == e - (R - 1) * p
    <3>1. i \in Nat /\ i < PartLen(R - 1, c.size) /\ (R - 1) * p + i = e
      BY <1>1, <1>2, <2>2, <2>4, <2>5
    <3> QED
      BY <1>1, <2>1, <3>1
  <2>6. CASE ~((R - 1) * p <= e)
    <3>1. p # 0
      BY <1>1, <1>2, <2>2, <2>6
    <3> DEFINE q == e \div p
               i == e % p
    <3>2. q \in Nat /\ i \in 0 .. p - 1 /\ e = (p * q) + i
      BY <1>2, <2>2, <3>1, Division
    <3>3. q < R - 1
      <4>1. e < p * (R - 1)
        BY <1>1, <1>2, <2>2, <2>4, <2>6
      <4> QED
        BY <1>1, <1>2, <2>2, <3>1, <4>1, DivisionBelow
    <3> HIDE DEF q, i
    <3>4. q \in Rank /\ q # R - 1
      BY <1>1, <3>2, <3>3 DEF Rank
    <3>5. i \in Nat /\ i < p /\ p * q = q * p /\ q * p \in Nat
      BY <2>2, <3>2
    <3>6. i < Owned(c, q) /\ ElemOf(c, q, i) = e
      BY <2>1, <2>3, <3>2, <3>4, <3>5
    <3> QED
      BY <3>4, <3>5, <3>6
  <2> QED
    BY <2>5, <2>6
<1> QED
  BY <1>3, <1>4, <1>5

-----------------------------------------------------------------------------
(* Stages, loops and phases. *)
LEMMA StageFacts ==
    ASSUME NEW d \in Nat
    PROVE  /\ Stage(d) \in 0..2 /\ Stage(d + 1) \in 0..2 /\ Stage(d + 2) \in 0..2
           /\ Stage(d) # Stage(d + 1) /\ Stage(d) # Stage(d + 2) /\ Stage(d + 1) # Stage(d + 2)
           /\ Stage(d + 3) = Stage(d)
           /\ (Stage(d + 1) + 2) % 3 = Stage(d)
           /\ (Stage(d + 1) + 1) % 3 = Stage(d + 2)
BY DEF Stage

LEMMA StageApart ==
    ASSUME NEW d \in Nat, NEW k \in d .. d + 2, NEW l \in d .. d + 2, Stage(k) = Stage(l)
    PROVE  k = l
<1>1. k \in {d, d + 1, d + 2} /\ l \in {d, d + 1, d + 2}
  OBVIOUS
<1> QED
  BY <1>1, StageFacts

LEMMA StageType ==
    ASSUME NEW d \in Nat, NEW k \in d .. d + 2
    PROVE  Stage(k) \in 0..2
BY DEF Stage

-----------------------------------------------------------------------------
(* The loops of a kernel and the place of a phase among them. *)
LEMMA LoopPlaces ==
    ASSUME NEW c
    PROVE  /\ \A m \in 1..4 : LoopsOf(c)[m] \in Loops /\ Place(c, LoopsOf(c)[m]) = m
           /\ \A loop \in Loops : Place(c, loop) \in 1..4 /\ LoopsOf(c)[Place(c, loop)] = loop
           /\ \A loop \in Loops, m \in 1..4 : LoopsOf(c)[m] = loop => m = Place(c, loop)
<1>1. \A m \in 1..4 : LoopsOf(c)[m] \in Loops /\ Place(c, LoopsOf(c)[m]) = m
  <2> SUFFICES ASSUME NEW m \in 1..4
               PROVE  LoopsOf(c)[m] \in Loops /\ Place(c, LoopsOf(c)[m]) = m
    OBVIOUS
  <2>1. m = 1 \/ m = 2 \/ m = 3 \/ m = 4
    OBVIOUS
  <2> QED
    BY <2>1 DEF LoopsOf, Loops, Place
<1>2. \A loop \in Loops : Place(c, loop) \in 1..4 /\ LoopsOf(c)[Place(c, loop)] = loop
  BY DEF LoopsOf, Loops, Place
<1> QED
  BY <1>1, <1>2

LEMMA PhasePlaces ==
    ASSUME NEW c
    PROVE  /\ Place(c, "idle") = 0 /\ Place(c, "start") = 0
           /\ Place(c, "epoch") = 5 /\ Place(c, "end") = 5
           /\ \A p \in Phases : Place(c, p) \in 0..5
           /\ Phases = Loops \cup {"idle", "start", "epoch", "end"}
           /\ "idle" \notin Loops /\ "start" \notin Loops
           /\ "epoch" \notin Loops /\ "end" \notin Loops
BY DEF Place, Phases, Loops

LEMMA PlanFacts ==
    ASSUME plan \in Plans, NEW k \in Call
    PROVE  /\ plan[k] \in Message
           /\ \A n : \A l \in Call : Dirty(plan[k], n) = Dirty(plan[l], n)
BY DEF Plans, Dirty

LEMMA NothingBefore ==
    ASSUME NEW c
    PROVE  Dirty(c, 0) = {}
BY DEF Dirty

(* A re-fill writes exactly the extent of the call before. *)
LEMMA BeforeFacts ==
    ASSUME plan \in Plans, NEW k \in Call
    PROVE  /\ Dirty(plan[k], Before(k)) \subseteq Addr
           /\ k = 1 => Dirty(plan[k], Before(k)) = {}
           /\ k > 1 => Dirty(plan[k], Before(k)) = Dirty(plan[k - 1], Extent(plan[k - 1]))
<1>1. CASE k = 1
  BY <1>1, NothingBefore DEF Before
<1>2. CASE k # 1
  <2>1. k - 1 \in Call /\ k > 1
    BY <1>2, Constants DEF Call
  <2>2. Before(k) = Extent(plan[k - 1])
    BY <1>2 DEF Before
  <2>3. plan[k - 1] \in Message
        /\ Dirty(plan[k - 1], Before(k)) = Dirty(plan[k], Before(k))
    BY <2>1, PlanFacts
  <2>4. Dirty(plan[k - 1], Extent(plan[k - 1])) \subseteq Addr
    BY <2>3 DEF Addr
  <2> QED
    BY <1>2, <2>2, <2>3, <2>4
<1> QED
  BY <1>1, <1>2

(* The items of a loop, one loop at a time. *)
LEMMA ItemsFacts ==
    ASSUME plan \in Plans, NEW r \in Rank, NEW k \in Call, NEW t \in Cta
    PROVE  /\ \A x : x \in ItemsIn(r, k, t, "push") <=>
                       \E q \in Rank \ {r}, i \in Elem :
                          x = <<q, i>> /\ i < Owned(plan[k], q) /\ CtaOf(plan[k], i) = t
           /\ \A x : x \in ItemsIn(r, k, t, "reduce") <=>
                       \E i \in Elem :
                          x = <<r, i>> /\ i < Owned(plan[k], r) /\ CtaOf(plan[k], i) = t
           /\ \A x : x \in ItemsIn(r, k, t, "gather") <=>
                       /\ plan[k].kind # "one_shot"
                       /\ \E q \in Rank \ {r}, i \in Elem :
                            x = <<q, i>> /\ i < Owned(plan[k], q) /\ CtaOf(plan[k], i) = t
           /\ \A x : x \in ItemsIn(r, k, t, "refill") <=>
                       \E a \in Dirty(plan[k], Before(k)) :
                          x = <<r, a>> /\ a % Blocks(plan[k]) = t
<1> DEFINE c == plan[k]
<1>1. ItemsIn(r, k, t, "push") = ToPeers(c, r, t)
  BY DEF ItemsIn, ItemsOf
<1>2. ItemsIn(r, k, t, "reduce") =
        {<<r, i>> : i \in {j \in Elem : j < Owned(c, r) /\ CtaOf(c, j) = t}}
  BY DEF ItemsIn, ItemsOf
<1>3. ItemsIn(r, k, t, "gather") = IF c.kind = "one_shot" THEN {} ELSE ToPeers(c, r, t)
  BY DEF ItemsIn, ItemsOf
<1>4. ItemsIn(r, k, t, "refill") =
        {<<r, a>> : a \in {b \in Dirty(c, Before(k)) : b % Blocks(c) = t}}
  BY DEF ItemsIn, ItemsOf
<1>5. \A x : x \in ToPeers(c, r, t) <=>
               \E q \in Rank \ {r}, i \in Elem :
                  x = <<q, i>> /\ i < Owned(c, q) /\ CtaOf(c, i) = t
  BY DEF ToPeers
<1> HIDE DEF c
<1>6. \A x : x \in ItemsIn(r, k, t, "reduce") <=>
               \E i \in Elem : x = <<r, i>> /\ i < Owned(c, r) /\ CtaOf(c, i) = t
  BY <1>2
<1>7. \A x : x \in ItemsIn(r, k, t, "refill") <=>
               \E a \in Dirty(c, Before(k)) : x = <<r, a>> /\ a % Blocks(c) = t
  BY <1>4
<1>8. \A x : x \in ItemsIn(r, k, t, "gather") <=>
               /\ c.kind # "one_shot"
               /\ \E q \in Rank \ {r}, i \in Elem :
                    x = <<q, i>> /\ i < Owned(c, q) /\ CtaOf(c, i) = t
  BY <1>3, <1>5
<1> QED
  BY <1>1, <1>5, <1>6, <1>7, <1>8 DEF c

LEMMA ItemsInGrid ==
    ASSUME plan \in Plans, NEW r \in Rank, NEW k \in Call, NEW t \in Cta, NEW loop \in Loops,
           NEW x \in ItemsIn(r, k, t, loop)
    PROVE  t \in Grid(plan[k]) /\ x \in Rank \X (Elem \cup Addr)
<1>1. plan[k] \in Message /\ Dirty(plan[k], Before(k)) \subseteq Addr
  BY PlanFacts, BeforeFacts
<1>2. CASE loop = "refill"
  <2>1. PICK a \in Dirty(plan[k], Before(k)) : x = <<r, a>> /\ a % Blocks(plan[k]) = t
    BY <1>2, ItemsFacts
  <2>2. a \in Nat
    BY <1>1, DirtyIsNat
  <2> QED
    BY <1>1, <2>1, <2>2, GridFacts
<1>3. CASE loop # "refill"
  <2>1. PICK q \in Rank, i \in Elem :
           x = <<q, i>> /\ i < Owned(plan[k], q) /\ CtaOf(plan[k], i) = t
    BY <1>3, ItemsFacts DEF Loops
  <2>2. i \in Nat
    BY ElemIsNat
  <2> QED
    BY <1>1, <2>1, <2>2, CtaOfIndex
<1> QED
  BY <1>2, <1>3

-----------------------------------------------------------------------------
(* A CTA moves to phase p, with the items S left of it. *)
Moves(r, t, p, S) ==
    /\ p \in Loops => S # {} /\ S \subseteq ItemsIn(r, done[r] + 1, t, p)
    /\ p \in Loops \cup {"epoch", "end"}
    /\ p = "epoch" => t = 0
    /\ p = "end" => t # 0
    /\ S \in SUBSET (Rank \X (Elem \cup Addr))
    /\ phase' = [phase EXCEPT ![r][t] = p]
    /\ todo' = [todo EXCEPT ![r][t] = S]

(* The loops from the n-th to phase p have nothing to do. *)
SkipsTo(r, t, n, p) ==
    \A loop \in Loops :
        n <= Place(Now(r), loop) /\ Place(Now(r), loop) < Place(Now(r), p)
            => ItemsIn(r, done[r] + 1, t, loop) = {}

LEMMA EnterMoves ==
    ASSUME plan \in Plans, NEW r \in Rank, NEW t \in Cta, NEW stage, NEW n \in 1..5,
           done[r] + 1 \in Call,
           written[r][(stage + 2) % 3] = Before(done[r] + 1),
           Enter(r, t, stage, n)
    PROVE  \E p, S : /\ Moves(r, t, p, S) /\ SkipsTo(r, t, n, p)
                     /\ p \in Loops => S = ItemsIn(r, done[r] + 1, t, p)
                     /\ Place(Now(r), p) >= n
<1> DEFINE c == Now(r)
           Items(loop) == ItemsOf(c, r, t, written[r][(stage + 2) % 3], loop)
           busy == {m \in n .. 4 : Items(LoopsOf(c)[m]) # {}}
           m0 == CHOOSE m \in busy : \A j \in busy : m <= j
           loop0 == LoopsOf(c)[m0]
<1>1. \A loop : Items(loop) = ItemsIn(r, done[r] + 1, t, loop)
  BY DEF ItemsIn, Now
<1>2. /\ phase' = [phase EXCEPT ![r][t] =
                     IF busy # {} THEN loop0 ELSE IF t = 0 THEN "epoch" ELSE "end"]
      /\ todo' = [todo EXCEPT ![r][t] = IF busy # {} THEN Items(loop0) ELSE {}]
  BY DEF Enter
<1>3. \A loop \in Loops : Items(loop) \subseteq Rank \X (Elem \cup Addr)
  BY <1>1, ItemsInGrid
<1>4. busy \subseteq 1..4 /\ \A m \in busy : m >= n
  OBVIOUS
<1> HIDE DEF Items
<1>5. CASE busy # {}
  <2>1. \E m \in busy : \A j \in busy : m <= j
    <3> HIDE DEF busy
    <3>1. CASE 1 \in busy
      BY <1>4, <3>1
    <3>2. CASE 1 \notin busy /\ 2 \in busy
      BY <1>4, <3>2
    <3>3. CASE 1 \notin busy /\ 2 \notin busy /\ 3 \in busy
      BY <1>4, <3>3
    <3>4. CASE 1 \notin busy /\ 2 \notin busy /\ 3 \notin busy
      <4>1. \A j \in busy : j = 4
        BY <1>4, <3>4
      <4>2. 4 \in busy
        BY <1>5, <4>1
      <4> QED
        BY <4>1, <4>2
    <3> QED
      BY <3>1, <3>2, <3>3, <3>4
  <2>2. m0 \in busy /\ \A j \in busy : m0 <= j
    BY <2>1
  <2>3. m0 \in 1..4 /\ m0 >= n /\ Items(loop0) # {}
    BY <2>2, <1>4
  <2> HIDE DEF m0
  <2>4. loop0 \in Loops /\ Place(c, loop0) = m0
    BY <2>3, LoopPlaces
  <2>5. ASSUME NEW loop \in Loops, n <= Place(c, loop), Place(c, loop) < Place(c, loop0)
        PROVE  ItemsIn(r, done[r] + 1, t, loop) = {}
    <3>1. Place(c, loop) \in 1..4 /\ LoopsOf(c)[Place(c, loop)] = loop
      BY LoopPlaces
    <3>2. Place(c, loop) \notin busy
      BY <2>2, <2>3, <2>4, <2>5, <3>1
    <3> QED
      BY <1>1, <2>5, <3>1, <3>2
  <2> HIDE DEF loop0, busy
  <2>6. loop0 # "epoch" /\ loop0 # "end"
    BY <2>4, PhasePlaces
  <2>7. Moves(r, t, loop0, Items(loop0))
    BY <1>1, <1>2, <1>3, <1>5, <2>3, <2>4, <2>6 DEF Moves
  <2>8. SkipsTo(r, t, n, loop0)
    BY <2>5 DEF SkipsTo, c
  <2> QED
    BY <1>1, <2>3, <2>4, <2>7, <2>8 DEF c
<1>6. CASE busy = {}
  <2> DEFINE p == IF t = 0 THEN "epoch" ELSE "end"
  <2>1. Place(c, p) = 5 /\ p \notin Loops
    BY PhasePlaces
  <2>2. Moves(r, t, p, {})
    BY <1>2, <1>6, <2>1 DEF Moves
  <2>3. SkipsTo(r, t, n, p)
    <3> SUFFICES ASSUME NEW loop \in Loops, n <= Place(c, loop)
                 PROVE  ItemsIn(r, done[r] + 1, t, loop) = {}
      BY DEF SkipsTo
    <3>1. Place(c, loop) \in 1..4 /\ LoopsOf(c)[Place(c, loop)] = loop
      BY LoopPlaces
    <3> QED
      BY <1>1, <1>6, <3>1
  <2> QED
    BY <2>1, <2>2, <2>3
<1> QED
  BY <1>5, <1>6

(* What a CTA in a loop works with. *)
LEMMA Working ==
    ASSUME Control, NEW r \in Rank, NEW t \in Cta, phase[r][t] # "idle"
    PROVE  /\ done[r] \in Nat /\ done[r] < MaxCalls /\ done[r] + 1 \in Call
           /\ Now(r) = plan[done[r] + 1] /\ Now(r) \in Message
           /\ phase[r][t] # "end" => t \in Grid(Now(r))
           /\ phase[r][t] \in Loops \cup {"epoch"} =>
                local[r][t] = Stage(done[r] + 1)
           /\ phase[r][t] \in Loops =>
                todo[r][t] # {} /\ todo[r][t] \subseteq ItemsIn(r, done[r] + 1, t, phase[r][t])
           /\ phase[r][t] = "start" => w0[r] = Stage(done[r] + 1)
           /\ (Stage(done[r] + 1) + 2) % 3 = Stage(done[r])
           /\ written[r][Stage(done[r])] = Before(done[r] + 1)
<1>1. done[r] \in Nat /\ plan \in Plans
  BY Constants DEF Control, TypeOK
<1>2. done[r] < MaxCalls /\ (phase[r][t] # "end" => t \in Grid(Now(r)))
  BY DEF Control, PhaseOK
<1>3. done[r] + 1 \in Call
  BY <1>1, <1>2, Constants DEF Call
<1>4. phase[r][t] = "start" => w0[r] = Stage(done[r] + 1)
  BY DEF Control, EpochOK
<1> QED
  BY <1>1, <1>2, <1>3, <1>4, PlanFacts, StageFacts DEF Control, TodoOK, EpochOK, Now

(* The step a CTA takes when an item is done. *)
LEMMA ItemMoves ==
    ASSUME Control, NEW r \in Rank, NEW t \in Cta, phase[r][t] \in Loops,
           NEW item \in todo[r][t], ItemDone(r, t, item)
    PROVE  \E p, S :
              /\ Moves(r, t, p, S)
              /\ \/ p = phase[r][t] /\ S = todo[r][t] \ {item}
                 \/ /\ todo[r][t] = {item}
                    /\ Place(Now(r), p) > Place(Now(r), phase[r][t])
                    /\ SkipsTo(r, t, Place(Now(r), phase[r][t]) + 1, p)
                    /\ p \in Loops => S = ItemsIn(r, done[r] + 1, t, p)
<1> DEFINE c == Now(r)
           n == CHOOSE m \in 1 .. 4 : LoopsOf(c)[m] = phase[r][t]
<1>1. phase[r][t] # "idle"
  BY PhasePlaces
<1>2. /\ done[r] + 1 \in Call /\ local[r][t] = Stage(done[r] + 1)
      /\ (Stage(done[r] + 1) + 2) % 3 = Stage(done[r])
      /\ written[r][Stage(done[r])] = Before(done[r] + 1)
      /\ todo[r][t] # {} /\ todo[r][t] \subseteq ItemsIn(r, done[r] + 1, t, phase[r][t])
  BY <1>1, Working
<1>3. plan \in Plans /\ phase \in [Rank -> [Cta -> Phases]]
      /\ todo \in [Rank -> [Cta -> SUBSET (Rank \X (Elem \cup Addr))]]
  BY DEF Control, TypeOK
<1>4. n = Place(c, phase[r][t]) /\ Place(c, phase[r][t]) \in 1..4
  <2>1. /\ Place(c, phase[r][t]) \in 1..4
        /\ LoopsOf(c)[Place(c, phase[r][t])] = phase[r][t]
        /\ \A m \in 1..4 : LoopsOf(c)[m] = phase[r][t] => m = Place(c, phase[r][t])
    BY LoopPlaces
  <2>2. n \in 1..4 /\ LoopsOf(c)[n] = phase[r][t]
    BY <2>1
  <2> QED
    BY <2>1, <2>2
<1>5. CASE todo[r][t] = {item}
  <2>1. Enter(r, t, local[r][t], n + 1)
    BY <1>5 DEF ItemDone
  <2> HIDE DEF n
  <2>2. n + 1 \in 1..5
    BY <1>4
  <2>3. PICK p, S : /\ Moves(r, t, p, S) /\ SkipsTo(r, t, n + 1, p)
                    /\ p \in Loops => S = ItemsIn(r, done[r] + 1, t, p)
                    /\ Place(Now(r), p) >= n + 1
    BY <1>2, <1>3, <2>1, <2>2, EnterMoves
  <2>4. Place(Now(r), p) \in 0..5
    <3> p \in Phases
      BY <2>3, PhasePlaces DEF Moves
    <3> QED
      BY PhasePlaces
  <2> QED
    BY <1>4, <1>5, <2>3, <2>4 DEF c
<1>6. CASE todo[r][t] # {item}
  <2> DEFINE p == phase[r][t]
             S == todo[r][t] \ {item}
  <2>1. todo' = [todo EXCEPT ![r][t] = S] /\ phase' = phase
    BY <1>6 DEF ItemDone
  <2>2. phase' = [phase EXCEPT ![r][t] = p]
    BY <1>3, <2>1
  <2>3. S # {} /\ S \subseteq ItemsIn(r, done[r] + 1, t, p)
        /\ S \in SUBSET (Rank \X (Elem \cup Addr))
    BY <1>2, <1>3, <1>6
  <2>4. p # "epoch" /\ p # "end"
    BY PhasePlaces
  <2>5. Moves(r, t, p, S)
    BY <2>1, <2>2, <2>3, <2>4 DEF Moves
  <2> QED
    BY <2>5
<1> QED
  BY <1>5, <1>6

(* A move of a running CTA keeps the control state consistent. *)
LEMMA MovesKeepControl ==
    ASSUME Control, NEW r \in Rank, NEW t \in Cta, NEW p, NEW S, Moves(r, t, p, S),
           phase[r][t] \in Loops \cup {"start"},
           UNCHANGED <<plan, done, w0, written>>,
           local' \in [Rank -> [Cta -> 0..2]], local'[r][t] = Stage(done[r] + 1),
           \A q \in Rank, u \in Cta : q # r \/ u # t => local'[q][u] = local[q][u]
    PROVE  /\ PhaseOK' /\ TodoOK' /\ EpochOK'
           /\ phase' \in [Rank -> [Cta -> Phases]]
           /\ todo' \in [Rank -> [Cta -> SUBSET (Rank \X (Elem \cup Addr))]]
           /\ \A q \in Rank, u \in Cta : q # r \/ u # t =>
                phase'[q][u] = phase[q][u] /\ todo'[q][u] = todo[q][u]
           /\ phase'[r][t] = p /\ todo'[r][t] = S /\ p # "idle" /\ p # "start"
<1>1. /\ phase \in [Rank -> [Cta -> Phases]]
      /\ todo \in [Rank -> [Cta -> SUBSET (Rank \X (Elem \cup Addr))]]
  BY DEF Control, TypeOK
<1>2. /\ phase[r][t] # "idle" /\ phase[r][t] # "end" /\ phase[r][t] # "epoch"
      /\ p \in Phases /\ p # "idle" /\ p # "start"
      /\ p \in Loops => p # "end" /\ p # "epoch"
  BY PhasePlaces DEF Moves
<1>3. /\ \A q \in Rank, u \in Cta : q # r \/ u # t =>
           phase'[q][u] = phase[q][u] /\ todo'[q][u] = todo[q][u]
      /\ phase'[r][t] = p /\ todo'[r][t] = S
      /\ phase' \in [Rank -> [Cta -> Phases]]
      /\ todo' \in [Rank -> [Cta -> SUBSET (Rank \X (Elem \cup Addr))]]
  BY <1>1, <1>2 DEF Moves
<1>4. t \in Grid(Now(r)) /\ done[r] < MaxCalls
  BY <1>2, Working
<1>5. PhaseOK'
  <2> SUFFICES ASSUME NEW q \in Rank
               PROVE  \/ \A u \in Cta : phase'[q][u] = "idle"
                      \/ /\ done'[q] < MaxCalls
                         /\ \A u \in Cta :
                              /\ phase'[q][u] # "idle"
                              /\ u \notin Grid(Now(q)') => phase'[q][u] = "end"
                              /\ phase'[q][u] = "epoch" => u = 0
    BY DEF PhaseOK
  <2>1. Now(q)' = Now(q)
    BY DEF Now
  <2>2. CASE q # r
    <3>1. \/ \A u \in Cta : phase[q][u] = "idle"
          \/ /\ done[q] < MaxCalls
             /\ \A u \in Cta :
                  /\ phase[q][u] # "idle"
                  /\ u \notin Grid(Now(q)) => phase[q][u] = "end"
                  /\ phase[q][u] = "epoch" => u = 0
      BY DEF Control, PhaseOK
    <3>2. \A u \in Cta : phase'[q][u] = phase[q][u]
      BY <1>3, <2>2
    <3> QED
      BY <2>1, <3>1, <3>2
  <2>3. CASE q = r
    <3>1. \A u \in Cta : /\ phase[r][u] # "idle"
                         /\ u \notin Grid(Now(r)) => phase[r][u] = "end"
                         /\ phase[r][u] = "epoch" => u = 0
      BY <1>2 DEF Control, PhaseOK
    <3>2. p = "epoch" => t = 0
      BY DEF Moves
    <3> QED
      BY <1>2, <1>3, <1>4, <2>1, <2>3, <3>1, <3>2
  <2> QED
    BY <2>2, <2>3
<1>6. TodoOK'
  <2> SUFFICES ASSUME NEW q \in Rank, NEW u \in Cta
               PROVE  /\ phase'[q][u] \in Loops =>
                           todo'[q][u] # {} /\ todo'[q][u] \subseteq
                              ItemsIn(q, done[q] + 1, u, phase'[q][u])
                      /\ phase'[q][u] \in Loops \cup {"epoch"} =>
                           local'[q][u] = Stage(done[q] + 1)
    <3>1. \A q \in Rank, u \in Cta :
             ItemsIn(q, done[q] + 1, u, phase'[q][u]) = ItemsIn(q, done[q] + 1, u, phase[q][u])'
      BY DEF ItemsIn, ItemsOf, Before
    <3> QED
      BY <3>1 DEF TodoOK
  <2>1. CASE q # r \/ u # t
    BY <1>3, <2>1 DEF Control, TodoOK
  <2>2. CASE q = r /\ u = t
    BY <1>3, <2>2 DEF Moves
  <2> QED
    BY <2>1, <2>2
<1>7. EpochOK'
  <2> SUFFICES ASSUME NEW q \in Rank
               PROVE  /\ written[q][Stage(done[q])] = Before(done[q] + 1)
                      /\ IF phase'[q][0] = "end"
                           THEN /\ w0[q] = Stage(done[q] + 2)
                                /\ written[q][Stage(done[q] + 1)] = Extent(Now(q))
                                /\ \A u \in Cta : phase'[q][u] # "start"
                           ELSE w0[q] = Stage(done[q] + 1)
    BY DEF EpochOK, Now, Before
  <2>1. 0 \in Cta
    BY Constants DEF Cta
  <2>2. CASE q # r
    <3>1. \A u \in Cta : phase'[q][u] = phase[q][u]
      BY <1>3, <2>2
    <3>2. /\ written[q][Stage(done[q])] = Before(done[q] + 1)
          /\ IF phase[q][0] = "end"
               THEN /\ w0[q] = Stage(done[q] + 2)
                    /\ written[q][Stage(done[q] + 1)] = Extent(Now(q))
                    /\ \A u \in Cta : phase[q][u] # "start"
               ELSE w0[q] = Stage(done[q] + 1)
      BY DEF Control, EpochOK
    <3> QED
      BY <2>1, <3>1, <3>2
  <2>3. CASE q = r
    <3>1. phase'[r][0] = "end" <=> phase[r][0] = "end"
      BY <1>2, <1>3, <2>1 DEF Moves
    <3>2. \A u \in Cta : phase[r][u] # "start" => phase'[r][u] # "start"
      BY <1>2, <1>3
    <3> QED
      BY <2>3, <3>1, <3>2 DEF Control, EpochOK
  <2> QED
    BY <2>2, <2>3
<1> QED
  BY <1>2, <1>3, <1>5, <1>6, <1>7

(* An item is done, and nothing else: its effect on what every CTA has done.*)
LEMMA ItemDoneHas ==
    ASSUME Control, NEW r \in Rank, NEW t \in Cta, phase[r][t] \in Loops,
           NEW item \in todo[r][t], ItemDone(r, t, item),
           UNCHANGED <<plan, done, w0, written, local>>
    PROVE  /\ PhaseOK' /\ TodoOK' /\ EpochOK'
           /\ phase' \in [Rank -> [Cta -> Phases]]
           /\ todo' \in [Rank -> [Cta -> SUBSET (Rank \X (Elem \cup Addr))]]
           /\ phase'[r][t] # "idle"
           /\ \A q \in Rank, u \in Cta : q # r \/ u # t => phase'[q][u] = phase[q][u]
           /\ \A q \in Rank, k \in Call, u \in Cta, loop \in Loops :
                \A x \in ItemsIn(q, k, u, loop) :
                  Has(q, k, u, loop, x)' <=>
                    \/ Has(q, k, u, loop, x)
                    \/ q = r /\ k = done[r] + 1 /\ u = t /\ loop = phase[r][t] /\ x = item
<1> DEFINE c == Now(r)
           old == phase[r][t]
<1>1. PICK p, S : /\ Moves(r, t, p, S)
                  /\ \/ p = old /\ S = todo[r][t] \ {item}
                     \/ /\ todo[r][t] = {item}
                        /\ Place(c, p) > Place(c, old)
                        /\ SkipsTo(r, t, Place(c, old) + 1, p)
                        /\ p \in Loops => S = ItemsIn(r, done[r] + 1, t, p)
  BY ItemMoves
<1>2. old # "idle" /\ old # "end"
  BY PhasePlaces
<1>3. /\ done[r] \in Nat /\ c = plan[done[r] + 1] /\ local[r][t] = Stage(done[r] + 1)
      /\ todo[r][t] \subseteq ItemsIn(r, done[r] + 1, t, old)
  BY <1>2, Working
<1>4. local \in [Rank -> [Cta -> 0..2]] /\ done \in [Rank -> 0 .. MaxCalls]
  BY DEF Control, TypeOK
<1>5. /\ PhaseOK' /\ TodoOK' /\ EpochOK'
      /\ phase' \in [Rank -> [Cta -> Phases]]
      /\ todo' \in [Rank -> [Cta -> SUBSET (Rank \X (Elem \cup Addr))]]
      /\ \A q \in Rank, u \in Cta : q # r \/ u # t =>
           phase'[q][u] = phase[q][u] /\ todo'[q][u] = todo[q][u]
      /\ phase'[r][t] = p /\ todo'[r][t] = S /\ p # "idle"
  BY <1>1, <1>3, <1>4, MovesKeepControl
<1>6. ASSUME NEW loop \in Loops, NEW x \in ItemsIn(r, done[r] + 1, t, loop)
      PROVE  DoneAt(c, p, S, loop, x) <=>
               DoneAt(c, old, todo[r][t], loop, x) \/ (loop = old /\ x = item)
  <2>1. Place(c, loop) \in 1..4 /\ Place(c, old) \in 1..4 /\ Place(c, p) \in 0..5
    <3> p \in Phases
      BY <1>1, PhasePlaces DEF Moves
    <3> QED
      BY LoopPlaces, PhasePlaces
  <2>2. Place(c, loop) = Place(c, old) => loop = old
    BY LoopPlaces
  <2>3. CASE p = old /\ S = todo[r][t] \ {item}
    BY <2>1, <2>3 DEF DoneAt
  <2>4. CASE /\ todo[r][t] = {item}
             /\ Place(c, p) > Place(c, old)
             /\ SkipsTo(r, t, Place(c, old) + 1, p)
             /\ p \in Loops => S = ItemsIn(r, done[r] + 1, t, p)
    <3>1. CASE Place(c, loop) < Place(c, old)
      BY <2>1, <2>4, <3>1 DEF DoneAt
    <3>2. CASE Place(c, loop) = Place(c, old)
      BY <2>1, <2>2, <2>4, <3>2 DEF DoneAt
    <3>3. CASE Place(c, loop) > Place(c, old)
      <4>1. ~(Place(c, loop) < Place(c, p))
        BY <2>1, <2>4, <3>3 DEF SkipsTo
      <4>2. loop # old
        BY <2>1, <3>3
      <4>3. p = loop => x \in S
        BY <2>4
      <4> QED
        BY <2>1, <3>3, <4>1, <4>2, <4>3 DEF DoneAt
    <3> QED
      BY <2>1, <3>1, <3>2, <3>3
  <2> QED
    BY <1>1, <2>3, <2>4
<1>7. ASSUME NEW q \in Rank, NEW k \in Call, NEW u \in Cta, NEW loop \in Loops,
             NEW x \in ItemsIn(q, k, u, loop)
      PROVE  Has(q, k, u, loop, x)' <=>
               \/ Has(q, k, u, loop, x)
               \/ q = r /\ k = done[r] + 1 /\ u = t /\ loop = old /\ x = item
  <2>1. Has(q, k, u, loop, x)' <=>
           \/ done[q] >= k
           \/ done[q] = k - 1 /\ DoneAt(plan[k], phase'[q][u], todo'[q][u], loop, x)
    BY DEF Has, DoneAt, Place
  <2>2. CASE q # r \/ u # t
    BY <1>5, <2>1, <2>2 DEF Has
  <2>3. CASE q = r /\ u = t /\ k # done[r] + 1
    <3>1. k \in Nat /\ done[r] # k - 1
      BY <1>3, <2>3 DEF Call
    <3> QED
      BY <2>1, <2>3, <3>1 DEF Has
  <2>4. CASE q = r /\ u = t /\ k = done[r] + 1
    <3>1. x \in ItemsIn(r, done[r] + 1, t, loop) /\ plan[k] = c
      BY <1>3, <2>4
    <3>2. DoneAt(c, p, S, loop, x) <=>
             DoneAt(c, old, todo[r][t], loop, x) \/ (loop = old /\ x = item)
      BY <1>6, <3>1
    <3>3. ~(done[q] >= k) /\ done[q] = k - 1
      BY <1>3, <2>4
    <3>4. phase'[q][u] = p /\ todo'[q][u] = S
      BY <1>5, <2>4
    <3>5. Has(q, k, u, loop, x)' <=> DoneAt(c, p, S, loop, x)
      BY <2>1, <3>1, <3>3, <3>4
    <3>6. Has(q, k, u, loop, x) <=> DoneAt(c, old, todo[r][t], loop, x)
      BY <2>4, <3>1, <3>3 DEF Has
    <3> QED
      BY <2>4, <3>2, <3>5, <3>6
  <2> QED
    BY <2>2, <2>3, <2>4
<1> QED
  BY <1>5, <1>7

(* No item is done or undone. *)
SameItems ==
    \A q \in Rank, k \in Call, u \in Cta, loop \in Loops :
        \A x \in ItemsIn(q, k, u, loop) : Has(q, k, u, loop, x)' <=> Has(q, k, u, loop, x)

(* The control state is consistent after a step. *)
ControlKept ==
    /\ PhaseOK' /\ TodoOK' /\ EpochOK'
    /\ done' \in [Rank -> 0 .. MaxCalls]
    /\ w0' \in [Rank -> 0..2]
    /\ written' \in [Rank -> [0..2 -> {0} \cup {Extent(c) : c \in Message}]]
    /\ phase' \in [Rank -> [Cta -> Phases]]
    /\ local' \in [Rank -> [Cta -> 0..2]]
    /\ todo' \in [Rank -> [Cta -> SUBSET (Rank \X (Elem \cup Addr))]]

LEMMA HasInStep ==
    ASSUME plan' = plan, NEW q, NEW k, NEW u, NEW loop, NEW x
    PROVE  Has(q, k, u, loop, x)' <=>
             \/ done'[q] >= k
             \/ done'[q] = k - 1 /\ DoneAt(plan[k], phase'[q][u], todo'[q][u], loop, x)
BY DEF Has, DoneAt, Place

(* A CTA that has not started has done nothing, one that has ended is done. *)
LEMMA DoneAtEnds ==
    ASSUME NEW c, NEW left, NEW loop \in Loops, NEW x
    PROVE  /\ ~DoneAt(c, "idle", left, loop, x)
           /\ ~DoneAt(c, "start", left, loop, x)
           /\ DoneAt(c, "epoch", left, loop, x)
           /\ DoneAt(c, "end", left, loop, x)
<1>1. Place(c, loop) \in 1..4
  BY LoopPlaces
<1> QED
  BY <1>1, PhasePlaces DEF DoneAt

LEMMA CtaZero == 0 \in Cta
BY Constants DEF Cta

LEMMA StartControl ==
    ASSUME Control, NEW r \in Rank, Start(r)
    PROVE  ControlKept /\ SameItems /\ phase'[r][0] = "start"
<1>1. /\ phase \in [Rank -> [Cta -> Phases]] /\ done \in [Rank -> 0 .. MaxCalls]
      /\ plan \in Plans /\ PhaseOK /\ TodoOK /\ EpochOK
  BY DEF Control, TypeOK
<1>2. /\ done[r] < MaxCalls /\ \A t \in Cta : phase[r][t] = "idle"
      /\ UNCHANGED <<plan, done, w0, written, local, todo>>
  BY DEF Start
<1>3. done[r] \in Nat /\ done[r] + 1 \in Call /\ Now(r) \in Message /\ Now(r) = plan[done[r] + 1]
  BY <1>1, <1>2, Constants, PlanFacts DEF Call, Now
<1>4. /\ \A t \in Cta : phase'[r][t] = IF t \in Grid(Now(r)) THEN "start" ELSE "end"
      /\ \A q \in Rank : q # r => phase'[q] = phase[q]
      /\ phase' \in [Rank -> [Cta -> Phases]]
  BY <1>1 DEF Start, Phases
<1>5. 0 \in Grid(Now(r)) /\ 0 \in Cta /\ phase'[r][0] = "start"
  BY <1>3, <1>4, GridFacts, CtaZero
<1>6. \A q \in Rank : Now(q)' = Now(q) /\ Before(done[q] + 1)' = Before(done[q] + 1)
  BY <1>2 DEF Now, Before
<1>7. PhaseOK'
  <2> SUFFICES ASSUME NEW q \in Rank
               PROVE  \/ \A u \in Cta : phase'[q][u] = "idle"
                      \/ /\ done[q] < MaxCalls
                         /\ \A u \in Cta :
                              /\ phase'[q][u] # "idle"
                              /\ u \notin Grid(Now(q)) => phase'[q][u] = "end"
                              /\ phase'[q][u] = "epoch" => u = 0
    BY <1>2, <1>6 DEF PhaseOK
  <2>1. CASE q # r
    BY <1>1, <1>4, <2>1 DEF PhaseOK
  <2>2. CASE q = r
    BY <1>2, <1>4, <2>2
  <2> QED
    BY <2>1, <2>2
<1>8. TodoOK'
  <2> SUFFICES ASSUME NEW q \in Rank, NEW u \in Cta
               PROVE  /\ phase'[q][u] \in Loops =>
                           todo[q][u] # {} /\ todo[q][u] \subseteq
                              ItemsIn(q, done[q] + 1, u, phase'[q][u])
                      /\ phase'[q][u] \in Loops \cup {"epoch"} =>
                           local[q][u] = Stage(done[q] + 1)
    <3>1. \A q \in Rank, u \in Cta :
             ItemsIn(q, done[q] + 1, u, phase'[q][u]) = ItemsIn(q, done[q] + 1, u, phase[q][u])'
      BY <1>2 DEF ItemsIn, ItemsOf, Before
    <3> QED
      BY <1>2, <3>1 DEF TodoOK
  <2>1. CASE q # r
    BY <1>1, <1>4, <2>1 DEF TodoOK
  <2>2. CASE q = r
    BY <1>4, <2>2, PhasePlaces
  <2> QED
    BY <2>1, <2>2
<1>9. EpochOK'
  <2> SUFFICES ASSUME NEW q \in Rank
               PROVE  /\ written[q][Stage(done[q])] = Before(done[q] + 1)
                      /\ IF phase'[q][0] = "end"
                           THEN /\ w0[q] = Stage(done[q] + 2)
                                /\ written[q][Stage(done[q] + 1)] = Extent(Now(q))
                                /\ \A u \in Cta : phase'[q][u] # "start"
                           ELSE w0[q] = Stage(done[q] + 1)
    BY <1>2, <1>6 DEF EpochOK
  <2>1. CASE q # r
    BY <1>1, <1>4, <2>1 DEF EpochOK
  <2>2. CASE q = r
    BY <1>1, <1>2, <1>5, <2>2 DEF EpochOK
  <2> QED
    BY <2>1, <2>2
<1>10. SameItems
  <2> SUFFICES ASSUME NEW q \in Rank, NEW k \in Call, NEW u \in Cta, NEW loop \in Loops,
                      NEW x \in ItemsIn(q, k, u, loop)
               PROVE  Has(q, k, u, loop, x)' <=> Has(q, k, u, loop, x)
    BY DEF SameItems
  <2>1. Has(q, k, u, loop, x)' <=>
           \/ done[q] >= k
           \/ done[q] = k - 1 /\ DoneAt(plan[k], phase'[q][u], todo[q][u], loop, x)
    BY <1>2, HasInStep
  <2>2. CASE q # r
    BY <1>4, <2>1, <2>2 DEF Has
  <2>3. CASE q = r /\ done[r] # k - 1
    BY <2>1, <2>3 DEF Has
  <2>4. CASE q = r /\ done[r] = k - 1
    <3>1. u \in Grid(plan[k])
      BY <1>1, ItemsInGrid
    <3>2. plan[k] = Now(r)
      BY <1>3, <2>4 DEF Call
    <3>3. phase'[r][u] = "start" /\ phase[r][u] = "idle"
      BY <1>2, <1>4, <3>1, <3>2
    <3> QED
      BY <2>1, <2>4, <3>3, DoneAtEnds DEF Has
  <2> QED
    BY <2>2, <2>3, <2>4
<1> QED
  BY <1>1, <1>2, <1>4, <1>5, <1>7, <1>8, <1>9, <1>10 DEF ControlKept, Control, TypeOK

LEMMA ReadStageControl ==
    ASSUME Control, NEW r \in Rank, NEW t \in Cta, ReadStage(r, t)
    PROVE  /\ ControlKept /\ SameItems
           /\ \A q \in Rank, u \in Cta : q # r \/ u # t => phase'[q][u] = phase[q][u]
           /\ phase'[r][t] # "idle"
<1>1. /\ phase[r][t] = "start" /\ local' = [local EXCEPT ![r][t] = w0[r]]
      /\ Enter(r, t, w0[r], 1) /\ UNCHANGED <<plan, done, w0, written>>
  BY DEF ReadStage, In
<1>2. /\ local \in [Rank -> [Cta -> 0..2]] /\ w0 \in [Rank -> 0..2] /\ plan \in Plans
      /\ done \in [Rank -> 0 .. MaxCalls]
      /\ written \in [Rank -> [0..2 -> {0} \cup {Extent(c) : c \in Message}]]
  BY DEF Control, TypeOK
<1>3. /\ done[r] \in Nat /\ done[r] + 1 \in Call /\ Now(r) = plan[done[r] + 1]
      /\ w0[r] = Stage(done[r] + 1)
      /\ (Stage(done[r] + 1) + 2) % 3 = Stage(done[r])
      /\ written[r][Stage(done[r])] = Before(done[r] + 1)
  BY <1>1, Working
<1>4. PICK p, S : /\ Moves(r, t, p, S) /\ SkipsTo(r, t, 1, p)
                  /\ p \in Loops => S = ItemsIn(r, done[r] + 1, t, p)
                  /\ Place(Now(r), p) >= 1
  BY <1>1, <1>2, <1>3, EnterMoves
<1>5. /\ local' \in [Rank -> [Cta -> 0..2]] /\ local'[r][t] = Stage(done[r] + 1)
      /\ \A q \in Rank, u \in Cta : q # r \/ u # t => local'[q][u] = local[q][u]
  BY <1>1, <1>2, <1>3
<1>6. /\ PhaseOK' /\ TodoOK' /\ EpochOK'
      /\ phase' \in [Rank -> [Cta -> Phases]]
      /\ todo' \in [Rank -> [Cta -> SUBSET (Rank \X (Elem \cup Addr))]]
      /\ \A q \in Rank, u \in Cta : q # r \/ u # t =>
           phase'[q][u] = phase[q][u] /\ todo'[q][u] = todo[q][u]
      /\ phase'[r][t] = p /\ todo'[r][t] = S /\ p # "idle"
  BY <1>1, <1>4, <1>5, MovesKeepControl
<1>7. SameItems
  <2> SUFFICES ASSUME NEW q \in Rank, NEW k \in Call, NEW u \in Cta, NEW loop \in Loops,
                      NEW x \in ItemsIn(q, k, u, loop)
               PROVE  Has(q, k, u, loop, x)' <=> Has(q, k, u, loop, x)
    BY DEF SameItems
  <2>1. Has(q, k, u, loop, x)' <=>
           \/ done[q] >= k
           \/ done[q] = k - 1 /\ DoneAt(plan[k], phase'[q][u], todo'[q][u], loop, x)
    BY <1>1, HasInStep
  <2>2. CASE q # r \/ u # t
    BY <1>6, <2>1, <2>2 DEF Has
  <2>3. CASE q = r /\ u = t /\ done[r] # k - 1
    BY <2>1, <2>3 DEF Has
  <2>4. CASE q = r /\ u = t /\ done[r] = k - 1
    <3>1. k = done[r] + 1 /\ plan[k] = Now(r)
      BY <1>3, <2>4 DEF Call
    <3>2. ItemsIn(r, done[r] + 1, t, loop) # {}
      BY <2>4, <3>1
    <3>3. Place(Now(r), loop) \in 1..4
      BY LoopPlaces
    <3>4. ~(Place(Now(r), loop) < Place(Now(r), p))
      BY <1>4, <3>2, <3>3 DEF SkipsTo
    <3>5. p = loop => x \in S
      BY <1>4, <2>4, <3>1
    <3>6. Place(Now(r), p) \in 0..5
      BY <1>4, PhasePlaces DEF Moves
    <3>7. ~DoneAt(Now(r), p, S, loop, x)
      BY <3>3, <3>4, <3>5, <3>6 DEF DoneAt
    <3> QED
      BY <1>1, <1>6, <2>1, <2>4, <3>1, <3>7, DoneAtEnds DEF Has
  <2> QED
    BY <2>2, <2>3, <2>4
<1> QED
  BY <1>1, <1>2, <1>5, <1>6, <1>7 DEF ControlKept

LEMMA AdvanceControl ==
    ASSUME Control, NEW r \in Rank, AdvanceEpoch(r)
    PROVE  /\ ControlKept /\ SameItems
           /\ \A q \in Rank, u \in Cta : q # r \/ u # 0 => phase'[q][u] = phase[q][u]
           /\ phase'[r][0] # "idle"
<1>1. /\ phase[r][0] = "epoch" /\ \A t \in Cta : phase[r][t] # "start"
      /\ phase' = [phase EXCEPT ![r][0] = "end"]
      /\ written' = [written EXCEPT ![r][local[r][0]] = Extent(Now(r))]
      /\ w0' = [w0 EXCEPT ![r] = (local[r][0] + 1) % 3]
      /\ UNCHANGED <<plan, done, local, todo>>
  BY DEF AdvanceEpoch, In
<1>2. /\ phase \in [Rank -> [Cta -> Phases]] /\ w0 \in [Rank -> 0..2] /\ plan \in Plans
      /\ done \in [Rank -> 0 .. MaxCalls]
      /\ written \in [Rank -> [0..2 -> {0} \cup {Extent(c) : c \in Message}]]
      /\ 0 \in Cta /\ PhaseOK /\ TodoOK /\ EpochOK
  BY CtaZero DEF Control, TypeOK
<1>3. /\ done[r] \in Nat /\ done[r] + 1 \in Call /\ Now(r) \in Message
      /\ local[r][0] = Stage(done[r] + 1) /\ 0 \in Grid(Now(r)) /\ done[r] < MaxCalls
  BY <1>1, <1>2, Working
<1>4. /\ Stage(done[r] + 1) \in 0..2 /\ Stage(done[r]) # Stage(done[r] + 1)
      /\ Stage(done[r]) \in 0..2 /\ Stage(done[r] + 2) \in 0..2
      /\ (local[r][0] + 1) % 3 = Stage(done[r] + 2)
  BY <1>3, StageFacts
<1>5. /\ \A q \in Rank, u \in Cta : q # r \/ u # 0 => phase'[q][u] = phase[q][u]
      /\ phase'[r][0] = "end" /\ phase' \in [Rank -> [Cta -> Phases]]
  BY <1>1, <1>2 DEF Phases
<1>6. /\ \A q \in Rank : q # r => w0'[q] = w0[q] /\ written'[q] = written[q]
      /\ w0'[r] = Stage(done[r] + 2)
      /\ written'[r][Stage(done[r])] = written[r][Stage(done[r])]
      /\ written'[r][Stage(done[r] + 1)] = Extent(Now(r))
      /\ w0' \in [Rank -> 0..2]
  BY <1>1, <1>2, <1>3, <1>4
<1>7. written' \in [Rank -> [0..2 -> {0} \cup {Extent(c) : c \in Message}]]
  BY <1>1, <1>2, <1>3
<1>8. \A q \in Rank : Now(q)' = Now(q) /\ Before(done[q] + 1)' = Before(done[q] + 1)
  BY <1>1 DEF Now, Before
<1>9. PhaseOK'
  <2> SUFFICES ASSUME NEW q \in Rank
               PROVE  \/ \A u \in Cta : phase'[q][u] = "idle"
                      \/ /\ done[q] < MaxCalls
                         /\ \A u \in Cta :
                              /\ phase'[q][u] # "idle"
                              /\ u \notin Grid(Now(q)) => phase'[q][u] = "end"
                              /\ phase'[q][u] = "epoch" => u = 0
    BY <1>1, <1>8 DEF PhaseOK
  <2>1. CASE q # r
    <3>1. \A u \in Cta : phase'[q][u] = phase[q][u]
      BY <1>5, <2>1
    <3> QED
      BY <1>2, <3>1 DEF PhaseOK
  <2>2. CASE q = r
    <3>1. \A u \in Cta : /\ phase[r][u] # "idle"
                         /\ u \notin Grid(Now(r)) => phase[r][u] = "end"
                         /\ phase[r][u] = "epoch" => u = 0
      BY <1>1, <1>2 DEF PhaseOK
    <3> QED
      BY <1>3, <1>5, <2>2, <3>1
  <2> QED
    BY <2>1, <2>2
<1>10. TodoOK'
  <2> SUFFICES ASSUME NEW q \in Rank, NEW u \in Cta
               PROVE  /\ phase'[q][u] \in Loops =>
                           todo[q][u] # {} /\ todo[q][u] \subseteq
                              ItemsIn(q, done[q] + 1, u, phase'[q][u])
                      /\ phase'[q][u] \in Loops \cup {"epoch"} =>
                           local[q][u] = Stage(done[q] + 1)
    <3>1. \A q \in Rank, u \in Cta :
             ItemsIn(q, done[q] + 1, u, phase'[q][u]) = ItemsIn(q, done[q] + 1, u, phase[q][u])'
      BY <1>1 DEF ItemsIn, ItemsOf, Before
    <3> QED
      BY <1>1, <3>1 DEF TodoOK
  <2>1. CASE q # r \/ u # 0
    BY <1>2, <1>5, <2>1 DEF TodoOK
  <2>2. CASE q = r /\ u = 0
    BY <1>5, <2>2, PhasePlaces
  <2> QED
    BY <2>1, <2>2
<1>11. EpochOK'
  <2> SUFFICES ASSUME NEW q \in Rank
               PROVE  /\ written'[q][Stage(done[q])] = Before(done[q] + 1)
                      /\ IF phase'[q][0] = "end"
                           THEN /\ w0'[q] = Stage(done[q] + 2)
                                /\ written'[q][Stage(done[q] + 1)] = Extent(Now(q))
                                /\ \A u \in Cta : phase'[q][u] # "start"
                           ELSE w0'[q] = Stage(done[q] + 1)
    BY <1>1, <1>8 DEF EpochOK
  <2>1. CASE q # r
    <3>1. \A u \in Cta : phase'[q][u] = phase[q][u]
      BY <1>5, <2>1
    <3>2. /\ written[q][Stage(done[q])] = Before(done[q] + 1)
          /\ IF phase[q][0] = "end"
               THEN /\ w0[q] = Stage(done[q] + 2)
                    /\ written[q][Stage(done[q] + 1)] = Extent(Now(q))
                    /\ \A u \in Cta : phase[q][u] # "start"
               ELSE w0[q] = Stage(done[q] + 1)
      BY <1>2 DEF EpochOK
    <3> QED
      BY <1>2, <1>6, <2>1, <3>1, <3>2
  <2>2. CASE q = r
    <3>1. written[r][Stage(done[r])] = Before(done[r] + 1)
      BY <1>2 DEF EpochOK
    <3>2. \A u \in Cta : phase'[r][u] # "start"
      BY <1>1, <1>5
    <3> QED
      BY <1>5, <1>6, <2>2, <3>1, <3>2
  <2> QED
    BY <2>1, <2>2
<1>12. SameItems
  <2> SUFFICES ASSUME NEW q \in Rank, NEW k \in Call, NEW u \in Cta, NEW loop \in Loops,
                      NEW x \in ItemsIn(q, k, u, loop)
               PROVE  Has(q, k, u, loop, x)' <=> Has(q, k, u, loop, x)
    BY DEF SameItems
  <2>1. Has(q, k, u, loop, x)' <=>
           \/ done[q] >= k
           \/ done[q] = k - 1 /\ DoneAt(plan[k], phase'[q][u], todo[q][u], loop, x)
    BY <1>1, HasInStep
  <2>2. CASE q # r \/ u # 0
    BY <1>5, <2>1, <2>2 DEF Has
  <2>3. CASE q = r /\ u = 0
    BY <1>1, <1>5, <2>1, <2>3, DoneAtEnds DEF Has
  <2> QED
    BY <2>2, <2>3
<1> QED
  BY <1>1, <1>2, <1>5, <1>6, <1>7, <1>9, <1>10, <1>11, <1>12 DEF ControlKept, Control, TypeOK

LEMMA ReturnControl ==
    ASSUME Control, NEW r \in Rank, Return(r)
    PROVE  /\ ControlKept /\ SameItems
           /\ done'[r] = done[r] + 1 /\ done[r] \in Nat /\ done[r] + 1 \in Call
           /\ \A q \in Rank : q # r => done'[q] = done[q] /\ phase'[q] = phase[q]
           /\ \A t \in Cta : phase'[r][t] = "idle"
<1>1. /\ \A t \in Cta : phase[r][t] = "end"
      /\ phase' = [phase EXCEPT ![r] = [t \in Cta |-> "idle"]]
      /\ done' = [done EXCEPT ![r] = @ + 1]
      /\ UNCHANGED <<plan, w0, written, local, todo>>
  BY DEF Return
<1>2. /\ phase \in [Rank -> [Cta -> Phases]] /\ w0 \in [Rank -> 0..2] /\ plan \in Plans
      /\ done \in [Rank -> 0 .. MaxCalls]
      /\ 0 \in Cta /\ PhaseOK /\ TodoOK /\ EpochOK
  BY CtaZero DEF Control, TypeOK
<1>3. /\ done[r] \in Nat /\ done[r] + 1 \in Call /\ Now(r) = plan[done[r] + 1]
      /\ done[r] < MaxCalls
  BY <1>1, <1>2, Working
<1>4. /\ \A t \in Cta : phase'[r][t] = "idle"
      /\ \A q \in Rank : q # r => phase'[q] = phase[q] /\ done'[q] = done[q]
      /\ phase' \in [Rank -> [Cta -> Phases]]
      /\ done'[r] = done[r] + 1
      /\ done' \in [Rank -> 0 .. MaxCalls]
  BY <1>1, <1>2, <1>3, Constants DEF Phases
<1>5. \A q \in Rank : q # r => Now(q)' = Now(q) /\ (Before(done[q] + 1))' = Before(done[q] + 1)
  BY <1>1, <1>4 DEF Now, Before
<1>6. PhaseOK'
  <2> SUFFICES ASSUME NEW q \in Rank
               PROVE  \/ \A u \in Cta : phase'[q][u] = "idle"
                      \/ /\ done'[q] < MaxCalls
                         /\ \A u \in Cta :
                              /\ phase'[q][u] # "idle"
                              /\ u \notin Grid(Now(q)') => phase'[q][u] = "end"
                              /\ phase'[q][u] = "epoch" => u = 0
    BY DEF PhaseOK
  <2>1. CASE q # r
    BY <1>2, <1>4, <1>5, <2>1 DEF PhaseOK
  <2>2. CASE q = r
    BY <1>4, <2>2
  <2> QED
    BY <2>1, <2>2
<1>7. TodoOK'
  <2> SUFFICES ASSUME NEW q \in Rank, NEW u \in Cta
               PROVE  /\ phase'[q][u] \in Loops =>
                           todo[q][u] # {} /\ todo[q][u] \subseteq
                              ItemsIn(q, done'[q] + 1, u, phase'[q][u])
                      /\ phase'[q][u] \in Loops \cup {"epoch"} =>
                           local[q][u] = Stage(done'[q] + 1)
    <3>1. \A q \in Rank, u \in Cta :
             ItemsIn(q, done'[q] + 1, u, phase'[q][u]) = ItemsIn(q, done[q] + 1, u, phase[q][u])'
      BY <1>1 DEF ItemsIn, ItemsOf, Before
    <3>2. \A q \in Rank : Stage(done'[q] + 1) = Stage(done[q] + 1)'
      BY DEF Stage
    <3> QED
      BY <1>1, <3>1, <3>2 DEF TodoOK
  <2>1. CASE q # r
    BY <1>2, <1>4, <2>1 DEF TodoOK
  <2>2. CASE q = r
    BY <1>4, <2>2, PhasePlaces
  <2> QED
    BY <2>1, <2>2
<1>8. EpochOK'
  <2>1. \A q \in Rank : /\ Stage(done[q])' = Stage(done'[q])
                        /\ Stage(done[q] + 1)' = Stage(done'[q] + 1)
                        /\ Stage(done[q] + 2)' = Stage(done'[q] + 2)
                        /\ Before(done[q] + 1)' = Before(done'[q] + 1)
                        /\ Extent(Now(q))' = Extent(Now(q)')
    BY <1>1 DEF Stage, Before, Extent, Largest, PartLen
  <2> SUFFICES ASSUME NEW q \in Rank
               PROVE  /\ written[q][Stage(done'[q])] = Before(done'[q] + 1)
                      /\ IF phase'[q][0] = "end"
                           THEN /\ w0[q] = Stage(done'[q] + 2)
                                /\ written[q][Stage(done'[q] + 1)] = Extent(Now(q)')
                                /\ \A u \in Cta : phase'[q][u] # "start"
                           ELSE w0[q] = Stage(done'[q] + 1)
    BY <1>1, <2>1 DEF EpochOK
  <2>2. CASE q # r
    BY <1>2, <1>4, <1>5, <2>1, <2>2 DEF EpochOK
  <2>3. CASE q = r
    <3>1. /\ w0[r] = Stage(done[r] + 2)
          /\ written[r][Stage(done[r] + 1)] = Extent(Now(r))
      BY <1>1, <1>2 DEF EpochOK
    <3>2. Before(done'[r] + 1) = Extent(Now(r)) /\ done'[r] + 1 = done[r] + 2
      <4>1. done'[r] + 1 # 1 /\ (done'[r] + 1) - 1 = done[r] + 1
        BY <1>3, <1>4
      <4> QED
        BY <1>3, <1>4, <4>1 DEF Before
    <3> QED
      BY <1>2, <1>4, <2>3, <3>1, <3>2
  <2> QED
    BY <2>2, <2>3
<1>9. SameItems
  <2> SUFFICES ASSUME NEW q \in Rank, NEW k \in Call, NEW u \in Cta, NEW loop \in Loops,
                      NEW x \in ItemsIn(q, k, u, loop)
               PROVE  Has(q, k, u, loop, x)' <=> Has(q, k, u, loop, x)
    BY DEF SameItems
  <2>1. Has(q, k, u, loop, x)' <=>
           \/ done'[q] >= k
           \/ done'[q] = k - 1 /\ DoneAt(plan[k], phase'[q][u], todo[q][u], loop, x)
    BY <1>1, HasInStep
  <2>2. CASE q # r
    BY <1>4, <2>1, <2>2 DEF Has
  <2>3. CASE q = r
    <3>1. phase[r][u] = "end" /\ phase'[r][u] = "idle" /\ k \in Nat
      BY <1>1, <1>4 DEF Call
    <3>2. CASE done[r] >= k
      BY <1>3, <1>4, <2>1, <2>3, <3>1, <3>2 DEF Has
    <3>3. CASE done[r] = k - 1
      BY <1>3, <1>4, <2>1, <2>3, <3>1, <3>3, DoneAtEnds DEF Has
    <3>4. CASE done[r] < k - 1
      BY <1>3, <1>4, <2>1, <2>3, <3>1, <3>4, DoneAtEnds DEF Has
    <3> QED
      BY <1>3, <3>1, <3>2, <3>3, <3>4
  <2> QED
    BY <2>2, <2>3
<1> QED
  BY <1>1, <1>2, <1>3, <1>4, <1>6, <1>7, <1>8, <1>9 DEF ControlKept, Control, TypeOK

-----------------------------------------------------------------------------
(* Item x of loop L is what rank r's CTA t does next. *)
ItemOf(r, t, L, x) ==
    /\ r \in Rank /\ t \in Cta /\ L \in Loops
    /\ done[r] \in Nat /\ done[r] + 1 \in Call
    /\ phase[r][t] = L /\ x \in todo[r][t]
    /\ x \in ItemsIn(r, done[r] + 1, t, L)

(* That item is done in a step, and no other.                               *)
OneItem(r, t, L, x) ==
    \A q \in Rank, k \in Call, u \in Cta, loop \in Loops :
        \A y \in ItemsIn(q, k, u, loop) :
          Has(q, k, u, loop, y)' <=>
            \/ Has(q, k, u, loop, y)
            \/ q = r /\ k = done[r] + 1 /\ u = t /\ loop = L /\ y = x

LEMMA ItemControl ==
    ASSUME Control, NEW r \in Rank, NEW t \in Cta, phase[r][t] \in Loops,
           NEW x \in todo[r][t], ItemDone(r, t, x),
           UNCHANGED <<plan, done, w0, written, local>>
    PROVE  /\ ControlKept /\ ItemOf(r, t, phase[r][t], x)
           /\ ~Has(r, done[r] + 1, t, phase[r][t], x)
           /\ phase'[r][t] # "idle"
           /\ \A q \in Rank, u \in Cta : q # r \/ u # t => phase'[q][u] = phase[q][u]
           /\ OneItem(r, t, phase[r][t], x)
<1>1. phase[r][t] # "idle"
  BY PhasePlaces
<1>2. /\ done[r] \in Nat /\ done[r] + 1 \in Call
      /\ x \in ItemsIn(r, done[r] + 1, t, phase[r][t])
  BY <1>1, Working
<1>3. ~Has(r, done[r] + 1, t, phase[r][t], x)
  <2>1. Place(plan[done[r] + 1], phase[r][t]) \in 1..4
    BY LoopPlaces
  <2> QED
    BY <1>2, <2>1 DEF Has, DoneAt
<1> QED
  BY <1>2, <1>3, ItemDoneHas DEF ItemOf, OneItem, ControlKept, Control, TypeOK

(* The effect of a step on what has been pushed, summed, gathered and       *)
(* re-filled: item x of loop L of rank r's call.                            *)
Effect(r, L, x) ==
    /\ \A s \in Rank, k \in Call, i \in Elem : \A q \in Rank \ {s} : i < Owned(plan[k], q) =>
         (Pushed(s, k, q, i)' <=>
            Pushed(s, k, q, i) \/ (L = "push" /\ s = r /\ k = done[r] + 1 /\ x = <<q, i>>))
    /\ \A o \in Rank, k \in Call, i \in Elem : i < Owned(plan[k], o) =>
         (Summed(o, k, i)' <=>
            Summed(o, k, i) \/ (L = "reduce" /\ o = r /\ k = done[r] + 1 /\ x = <<o, i>>))
    /\ \A s \in Rank, k \in Call, i \in Elem : \A q \in Rank \ {s} :
         i < Owned(plan[k], q) /\ plan[k].kind # "one_shot" =>
         (Gathered(s, k, q, i)' <=>
            Gathered(s, k, q, i) \/ (L = "gather" /\ s = r /\ k = done[r] + 1 /\ x = <<q, i>>))
    /\ \A q \in Rank, k \in Call : \A a \in Dirty(plan[k], Extent(plan[k])) :
         (Refilled(q, k, a)' <=>
            Refilled(q, k, a) \/ (L = "refill" /\ q = r /\ k = done[r] /\ x = <<q, a>>))

(* The CTA that has an index, or an address to re-fill, among its items. *)
LEMMA ItemHome ==
    ASSUME plan \in Plans, NEW s \in Rank, NEW k \in Call, NEW i \in Elem, NEW q \in Rank,
           i < Owned(plan[k], q)
    PROVE  /\ CtaOf(plan[k], i) \in Cta
           /\ q # s => <<q, i>> \in ItemsIn(s, k, CtaOf(plan[k], i), "push")
           /\ q = s => <<q, i>> \in ItemsIn(s, k, CtaOf(plan[k], i), "reduce")
           /\ q # s /\ plan[k].kind # "one_shot" =>
                <<q, i>> \in ItemsIn(s, k, CtaOf(plan[k], i), "gather")
<1>1. plan[k] \in Message /\ i \in Nat
  BY PlanFacts, ElemIsNat
<1>2. CtaOf(plan[k], i) \in Cta
  BY <1>1, CtaOfIndex, GridFacts
<1> QED
  BY <1>2, ItemsFacts

LEMMA RefillHome ==
    ASSUME plan \in Plans, NEW r \in Rank, NEW k \in Call, k < MaxCalls,
           NEW a \in Dirty(plan[k], Extent(plan[k]))
    PROVE  /\ k + 1 \in Call
           /\ a % Blocks(plan[k + 1]) \in Cta
           /\ <<r, a>> \in ItemsIn(r, k + 1, a % Blocks(plan[k + 1]), "refill")
<1>1. k + 1 \in Call /\ k + 1 > 1 /\ (k + 1) - 1 = k
  BY Constants DEF Call
<1>2. plan[k] \in Message /\ plan[k + 1] \in Message
  BY <1>1, PlanFacts
<1>3. a \in Nat
  BY <1>2, DirtyIsNat
<1>4. a % Blocks(plan[k + 1]) \in Cta
  BY <1>2, <1>3, GridFacts
<1>5. a \in Dirty(plan[k + 1], Before(k + 1))
  BY <1>1, BeforeFacts
<1> QED
  BY <1>1, <1>4, <1>5, ItemsFacts

LEMMA EffectOfNone ==
    ASSUME plan \in Plans, plan' = plan, SameItems, NEW r, NEW x
    PROVE  Effect(r, "none", x)
<1>1. ASSUME NEW s \in Rank, NEW k \in Call, NEW i \in Elem, NEW q \in Rank \ {s},
             i < Owned(plan[k], q)
      PROVE  Pushed(s, k, q, i)' <=> Pushed(s, k, q, i)
  BY <1>1, ItemHome DEF Pushed, SameItems, Loops
<1>2. ASSUME NEW o \in Rank, NEW k \in Call, NEW i \in Elem, i < Owned(plan[k], o)
      PROVE  Summed(o, k, i)' <=> Summed(o, k, i)
  BY <1>2, ItemHome DEF Summed, SameItems, Loops
<1>3. ASSUME NEW s \in Rank, NEW k \in Call, NEW i \in Elem, NEW q \in Rank \ {s},
             i < Owned(plan[k], q), plan[k].kind # "one_shot"
      PROVE  Gathered(s, k, q, i)' <=> Gathered(s, k, q, i)
  BY <1>3, ItemHome DEF Gathered, SameItems, Loops
<1>4. ASSUME NEW q \in Rank, NEW k \in Call, NEW a \in Dirty(plan[k], Extent(plan[k]))
      PROVE  Refilled(q, k, a)' <=> Refilled(q, k, a)
  <2>1. CASE k < MaxCalls
    BY <2>1, RefillHome DEF Refilled, SameItems, Loops
  <2>2. CASE ~(k < MaxCalls)
    BY <2>2 DEF Refilled
  <2> QED
    BY <2>1, <2>2
<1> QED
  BY <1>1, <1>2, <1>3, <1>4 DEF Effect

LEMMA EffectOfItem ==
    ASSUME plan \in Plans, plan' = plan, NEW r, NEW t, NEW L, NEW x, ItemOf(r, t, L, x),
           OneItem(r, t, L, x)
    PROVE  Effect(r, L, x)
<1>1. /\ r \in Rank /\ t \in Cta /\ L \in Loops /\ done[r] \in Nat /\ done[r] + 1 \in Call
      /\ x \in ItemsIn(r, done[r] + 1, t, L)
  BY DEF ItemOf
<1>2. ASSUME NEW s \in Rank, NEW k \in Call, NEW i \in Elem, NEW q \in Rank \ {s},
             i < Owned(plan[k], q)
      PROVE  Pushed(s, k, q, i)' <=>
               Pushed(s, k, q, i) \/ (L = "push" /\ s = r /\ k = done[r] + 1 /\ x = <<q, i>>)
  <2> DEFINE u == CtaOf(plan[k], i)
  <2>1. u \in Cta /\ <<q, i>> \in ItemsIn(s, k, u, "push") /\ "push" \in Loops
    BY <1>2, ItemHome DEF Loops
  <2>2. L = "push" /\ s = r /\ k = done[r] + 1 /\ x = <<q, i>> => u = t
    BY <1>1, ItemsFacts
  <2>3. Pushed(s, k, q, i)' <=> Has(s, k, u, "push", <<q, i>>)'
    BY DEF Pushed
  <2> QED
    BY <2>1, <2>2, <2>3 DEF Pushed, OneItem
<1>3. ASSUME NEW o \in Rank, NEW k \in Call, NEW i \in Elem, i < Owned(plan[k], o)
      PROVE  Summed(o, k, i)' <=>
               Summed(o, k, i) \/ (L = "reduce" /\ o = r /\ k = done[r] + 1 /\ x = <<o, i>>)
  <2> DEFINE u == CtaOf(plan[k], i)
  <2>1. u \in Cta /\ <<o, i>> \in ItemsIn(o, k, u, "reduce") /\ "reduce" \in Loops
    BY <1>3, ItemHome DEF Loops
  <2>2. L = "reduce" /\ o = r /\ k = done[r] + 1 /\ x = <<o, i>> => u = t
    BY <1>1, ItemsFacts
  <2>3. Summed(o, k, i)' <=> Has(o, k, u, "reduce", <<o, i>>)'
    BY DEF Summed
  <2> QED
    BY <2>1, <2>2, <2>3 DEF Summed, OneItem
<1>4. ASSUME NEW s \in Rank, NEW k \in Call, NEW i \in Elem, NEW q \in Rank \ {s},
             i < Owned(plan[k], q), plan[k].kind # "one_shot"
      PROVE  Gathered(s, k, q, i)' <=>
               Gathered(s, k, q, i) \/ (L = "gather" /\ s = r /\ k = done[r] + 1 /\ x = <<q, i>>)
  <2> DEFINE u == CtaOf(plan[k], i)
  <2>1. u \in Cta /\ <<q, i>> \in ItemsIn(s, k, u, "gather") /\ "gather" \in Loops
    BY <1>4, ItemHome DEF Loops
  <2>2. L = "gather" /\ s = r /\ k = done[r] + 1 /\ x = <<q, i>> => u = t
    BY <1>1, ItemsFacts
  <2>3. Gathered(s, k, q, i)' <=> Has(s, k, u, "gather", <<q, i>>)'
    BY DEF Gathered
  <2> QED
    BY <2>1, <2>2, <2>3 DEF Gathered, OneItem
<1>5. ASSUME NEW q \in Rank, NEW k \in Call, NEW a \in Dirty(plan[k], Extent(plan[k]))
      PROVE  Refilled(q, k, a)' <=>
               Refilled(q, k, a) \/ (L = "refill" /\ q = r /\ k = done[r] /\ x = <<q, a>>)
  <2>1. CASE k < MaxCalls
    <3> DEFINE u == a % Blocks(plan[k + 1])
    <3>1. k + 1 \in Call /\ u \in Cta /\ <<q, a>> \in ItemsIn(q, k + 1, u, "refill")
          /\ "refill" \in Loops
      BY <2>1, RefillHome DEF Loops
    <3>2. L = "refill" /\ q = r /\ k = done[r] /\ x = <<q, a>> => u = t
      BY <1>1, ItemsFacts
    <3>3. Refilled(q, k, a)' <=> Has(q, k + 1, u, "refill", <<q, a>>)'
      BY <2>1 DEF Refilled
    <3>4. Refilled(q, k, a) <=> Has(q, k + 1, u, "refill", <<q, a>>)
      BY <2>1 DEF Refilled
    <3>5. (q = r /\ k + 1 = done[r] + 1) <=> (q = r /\ k = done[r])
      <4>1. k \in Nat
        BY DEF Call
      <4> QED
        BY <1>1, <4>1
    <3> QED
      BY <3>1, <3>2, <3>3, <3>4, <3>5 DEF OneItem
  <2>2. CASE ~(k < MaxCalls)
    <3>1. ~(k = done[r])
      BY <1>1, <2>2, Constants DEF Call
    <3> QED
      BY <2>2, <3>1 DEF Refilled
  <2> QED
    BY <2>1, <2>2
<1> QED
  BY <1>2, <1>3, <1>4, <1>5 DEF Effect

-----------------------------------------------------------------------------
LEMMA Types ==
    ASSUME TypeOK
    PROVE  /\ plan \in Plans
           /\ \A r \in Rank : done[r] \in Nat /\ done[r] <= MaxCalls
           /\ \A k \in Call : k \in Nat /\ k >= 1 /\ k <= MaxCalls /\ plan[k] \in Message
           /\ \A k \in Nat : k >= 1 /\ k <= MaxCalls => k \in Call
BY Constants, PlanFacts DEF TypeOK, Call

(* A rank that has finished call k has summed what it owns and gathered the *)
(* rest.                                                                    *)
LEMMA FinishedHas ==
    ASSUME NEW r, NEW k, done[r] >= k, NEW i
    PROVE  /\ Summed(r, k, i)
           /\ \A q : Gathered(r, k, q, i) /\ Pushed(r, k, q, i)
BY DEF Summed, Gathered, Pushed, Has

(* No rank is more than one call ahead of another: the last partition is    *)
(* never empty, and its owner needs a pack of every rank.                   *)
LEMMA Skew ==
    ASSUME TypeOK, OrderOK, NEW r \in Rank, NEW s \in Rank
    PROVE  done[r] <= done[s] + 1
<1> SUFFICES ASSUME done[r] > done[s] + 1 PROVE FALSE
  BY Types
<1> DEFINE k == done[r]
           o == IF plan[k].kind = "one_shot" THEN r ELSE R - 1
<1>1. /\ k \in Nat /\ k \in Call /\ done[r] >= k /\ plan[k] \in Message
      /\ done[s] \in Nat /\ plan \in Plans
  BY Types
<1>2. o \in Rank /\ 0 < Owned(plan[k], o) /\ 0 \in Elem
  BY <1>1, Constants, OwnedFacts, IndexFacts
<1>3. Summed(o, k, 0)
  <2>1. CASE o = r
    BY <1>1, <2>1, FinishedHas
  <2>2. CASE o # r
    <3>1. plan[k].kind # "one_shot" /\ Gathered(r, k, o, 0)
      BY <1>1, <2>2, FinishedHas
    <3> HIDE DEF o, k
    <3> QED
      BY <1>1, <1>2, <2>2, <3>1 DEF OrderOK
  <2> QED
    BY <2>1, <2>2
<1> HIDE DEF o, k
<1>4. \A x \in Rank \ {o} : Pushed(x, k, o, 0)
  BY <1>1, <1>2, <1>3 DEF OrderOK
<1>5. \A x \in Rank \ {o} : done[x] >= k - 1
  BY <1>1, <1>4, Types DEF Pushed, Has
<1>6. done[o] >= k - 1
  BY <1>1, <1>2, <1>3, Types DEF Summed, Has
<1> QED
  BY <1>1, <1>5, <1>6 DEF k

(* Nothing of a call is re-filled before its rank has finished it.          *)
LEMMA NotRefilledYet ==
    ASSUME TypeOK, NEW r \in Rank, NEW k \in Call, done[r] < k, NEW a
    PROVE  ~Refilled(r, k, a)
BY Types DEF Refilled, Has

(* What is found in a slot is what the slot is for. *)
LEMMA FoundInSlot ==
    ASSUME TypeOK, OriginOK, NEW r \in Rank, NEW k \in Call, done[r] <= k, k <= done[r] + 2,
           NEW q \in Rank, NEW i \in Elem
    PROVE  /\ /\ i < Owned(plan[k], r)
              /\ buf[r][Stage(k)][ScatterAddr(plan[k], q, i)] # {}
              => /\ q # r /\ Pushed(q, k, r, i)
                 /\ ~Refilled(r, k, ScatterAddr(plan[k], q, i))
           /\ /\ i < Owned(plan[k], q) /\ plan[k].kind # "one_shot"
              /\ buf[r][Stage(k)][GatherAddr(plan[k], q, i)] # {}
              => /\ q # r /\ Summed(q, k, i)
                 /\ ~Refilled(r, k, GatherAddr(plan[k], q, i))
<1>1. plan[k] \in Message /\ i \in Nat /\ done[r] \in Nat /\ k \in done[r] .. done[r] + 2
  BY Types, ElemIsNat
<1>2. ASSUME NEW a \in Addr, buf[r][Stage(k)][a] # {}
      PROVE  /\ ~Refilled(r, k, a)
             /\ \E p \in Rank, j \in Elem : SlotOf(r, k, p, j, a)
  BY <1>1, <1>2 DEF OriginOK
<1>3. ASSUME i < Owned(plan[k], r),
             buf[r][Stage(k)][ScatterAddr(plan[k], q, i)] # {}
      PROVE  /\ q # r /\ Pushed(q, k, r, i)
             /\ ~Refilled(r, k, ScatterAddr(plan[k], q, i))
  <2> DEFINE a == ScatterAddr(plan[k], q, i)
  <2>1. a \in Addr
    BY <1>1, <1>3, SlotIsAddress
  <2>2. PICK p \in Rank, j \in Elem : SlotOf(r, k, p, j, a)
    BY <1>2, <1>3, <2>1
  <2>3. j \in Nat
    BY ElemIsNat
  <2>4. CASE p # r /\ j < Owned(plan[k], r) /\ a = ScatterAddr(plan[k], p, j) /\ Pushed(p, k, r, j)
    <3>1. q = p /\ i = j
      BY <1>1, <1>3, <2>3, <2>4, SlotsApart
    <3> QED
      BY <1>2, <1>3, <2>1, <2>4, <3>1
  <2>5. CASE p # r /\ j < Owned(plan[k], p) /\ a = GatherAddr(plan[k], p, j)
    BY <1>1, <1>3, <2>3, <2>5, SlotsApart
  <2> QED
    BY <2>2, <2>4, <2>5 DEF SlotOf
<1>4. ASSUME i < Owned(plan[k], q), plan[k].kind # "one_shot",
             buf[r][Stage(k)][GatherAddr(plan[k], q, i)] # {}
      PROVE  /\ q # r /\ Summed(q, k, i)
             /\ ~Refilled(r, k, GatherAddr(plan[k], q, i))
  <2> DEFINE a == GatherAddr(plan[k], q, i)
  <2>1. a \in Addr
    BY <1>1, <1>4, SlotIsAddress
  <2>2. PICK p \in Rank, j \in Elem : SlotOf(r, k, p, j, a)
    BY <1>2, <1>4, <2>1
  <2>3. j \in Nat
    BY ElemIsNat
  <2>4. CASE p # r /\ j < Owned(plan[k], r) /\ a = ScatterAddr(plan[k], p, j)
    BY <1>1, <1>4, <2>3, <2>4, SlotsApart
  <2>5. CASE /\ p # r /\ j < Owned(plan[k], p) /\ a = GatherAddr(plan[k], p, j)
             /\ Summed(p, k, j)
    <3>1. q = p /\ i = j
      BY <1>1, <1>4, <2>3, <2>5, SlotsApart
    <3> QED
      BY <1>2, <1>4, <2>1, <2>5, <3>1
  <2> QED
    BY <2>2, <2>4, <2>5 DEF SlotOf
<1> QED
  BY <1>3, <1>4

-----------------------------------------------------------------------------
(* A step keeps the order of pushes, sums and gathers. *)
LEMMA OrderStep ==
    ASSUME TypeOK, OrderOK, plan' = plan, NEW r \in Rank, NEW L, NEW x, Effect(r, L, x),
           L = "reduce" => \A i \in Elem, s \in Rank \ {r} :
              x = <<r, i>> => Pushed(s, done[r] + 1, r, i),
           L = "gather" => \A q \in Rank \ {r}, i \in Elem :
              x = <<q, i>> => Summed(q, done[r] + 1, i)
    PROVE  OrderOK'
<1> SUFFICES ASSUME NEW k \in Call, NEW q \in Rank, NEW i \in Elem, i < Owned(plan[k], q)
             PROVE  /\ Summed(q, k, i)' => \A s \in Rank \ {q} : Pushed(s, k, q, i)'
                    /\ plan[k].kind # "one_shot" =>
                         \A s \in Rank \ {q} : Gathered(s, k, q, i)' => Summed(q, k, i)'
  BY DEF OrderOK
<1>1. ASSUME Summed(q, k, i)', NEW s \in Rank \ {q} PROVE Pushed(s, k, q, i)'
  <2>1. Summed(q, k, i) \/ (L = "reduce" /\ q = r /\ k = done[r] + 1 /\ x = <<q, i>>)
    BY <1>1 DEF Effect
  <2>2. Pushed(s, k, q, i)
    BY <2>1 DEF OrderOK
  <2> QED
    BY <2>2 DEF Effect
<1>2. ASSUME plan[k].kind # "one_shot", NEW s \in Rank \ {q}, Gathered(s, k, q, i)'
      PROVE  Summed(q, k, i)'
  <2>1. Gathered(s, k, q, i) \/ (L = "gather" /\ s = r /\ k = done[r] + 1 /\ x = <<q, i>>)
    BY <1>2 DEF Effect
  <2>2. Summed(q, k, i)
    BY <1>2, <2>1 DEF OrderOK
  <2> QED
    BY <2>2 DEF Effect
<1> QED
  BY <1>1, <1>2

(* A step that writes no buffer and finishes no call keeps the buffers      *)
(* consistent.                                                              *)
LEMMA SameBuffers ==
    ASSUME TypeOK, OriginOK, SentOK, UNCHANGED <<plan, done, buf>>, NEW r \in Rank, NEW L, NEW x,
           Effect(r, L, x), L \notin {"push", "refill"},
           \* a sum leaves buffers alone only in the one-shot
           L = "reduce" => plan[done[r] + 1].kind = "one_shot"
    PROVE  OriginOK' /\ SentOK'
<1>1. ASSUME NEW s \in Rank, NEW k \in Call, NEW i \in Elem, NEW q \in Rank \ {s},
             i < Owned(plan[k], q)
      PROVE  Pushed(s, k, q, i)' <=> Pushed(s, k, q, i)
  BY <1>1 DEF Effect
<1>2. ASSUME NEW o \in Rank, NEW k \in Call, NEW i \in Elem, i < Owned(plan[k], o),
             plan[k].kind # "one_shot"
      PROVE  Summed(o, k, i)' <=> Summed(o, k, i)
  BY <1>2 DEF Effect
<1>3. ASSUME NEW q \in Rank, NEW k \in Call, NEW a \in Dirty(plan[k], Extent(plan[k]))
      PROVE  Refilled(q, k, a)' <=> Refilled(q, k, a)
  BY <1>3 DEF Effect
<1>4. ASSUME NEW k \in Call, NEW q \in Rank, NEW u \in Rank, NEW i \in Elem, i < Owned(plan[k], u)
      PROVE  /\ ScatterAddr(plan[k], q, i) \in Dirty(plan[k], Extent(plan[k]))
             /\ plan[k].kind # "one_shot" =>
                  GatherAddr(plan[k], q, i) \in Dirty(plan[k], Extent(plan[k]))
  BY <1>4, Types, ElemIsNat, SlotsWithinExtent
<1>5. OriginOK'
  <2> SUFFICES ASSUME NEW q \in Rank, NEW a \in Addr, NEW k \in done[q] .. done[q] + 2,
                      buf[q][Stage(k)][a] # {}
               PROVE  /\ k \in Call
                      /\ ~Refilled(q, k, a)'
                      /\ \E p \in Rank, i \in Elem : SlotOf(q, k, p, i, a)'
    BY DEF OriginOK, Stage
  <2>1. k \in Call /\ ~Refilled(q, k, a)
    BY DEF OriginOK
  <2>2. PICK p \in Rank, i \in Elem : SlotOf(q, k, p, i, a)
    BY DEF OriginOK
  <2>3. CASE p # q /\ i < Owned(plan[k], q) /\ a = ScatterAddr(plan[k], p, i) /\ Pushed(p, k, q, i)
    <3>1. SlotOf(q, k, p, i, a)'
      BY <1>1, <2>1, <2>3 DEF SlotOf
    <3>2. ~Refilled(q, k, a)'
      BY <1>3, <1>4, <2>1, <2>3
    <3> QED
      BY <2>1, <3>1, <3>2
  <2>4. CASE /\ p # q /\ i < Owned(plan[k], p) /\ plan[k].kind # "one_shot"
             /\ a = GatherAddr(plan[k], p, i) /\ Summed(p, k, i)
    <3>1. SlotOf(q, k, p, i, a)'
      BY <1>2, <2>1, <2>4 DEF SlotOf
    <3>2. ~Refilled(q, k, a)'
      BY <1>3, <1>4, <2>1, <2>4
    <3> QED
      BY <2>1, <3>1, <3>2
  <2> QED
    BY <2>2, <2>3, <2>4 DEF SlotOf
<1>6. SentOK'
  <2> SUFFICES ASSUME NEW s \in Rank, NEW i \in Elem, NEW k \in Call, NEW q \in Rank \ {s},
                      done[s] <= k, k <= done[s] + 2
               PROVE
                 /\ LET a == ScatterAddr(plan[k], q, i)
                    IN  i < Owned(plan[k], s) /\ Pushed(q, k, s, i)' /\ ~Refilled(s, k, a)' =>
                          buf[s][Stage(k)][a] = {<<q, k, ElemOf(plan[k], s, i)>>}
                 /\ LET a == GatherAddr(plan[k], q, i)
                    IN  i < Owned(plan[k], q) /\ plan[k].kind # "one_shot" /\ Summed(q, k, i)'
                          /\ ~Refilled(s, k, a)' =>
                          buf[s][Stage(k)][a] = SumOfElem(k, ElemOf(plan[k], q, i))
    BY DEF SentOK, Stage, SumOfElem
  <2>1. /\ LET a == ScatterAddr(plan[k], q, i)
           IN  i < Owned(plan[k], s) /\ Pushed(q, k, s, i) /\ ~Refilled(s, k, a) =>
                 buf[s][Stage(k)][a] = {<<q, k, ElemOf(plan[k], s, i)>>}
        /\ LET a == GatherAddr(plan[k], q, i)
           IN  i < Owned(plan[k], q) /\ plan[k].kind # "one_shot" /\ Summed(q, k, i)
                 /\ ~Refilled(s, k, a) =>
                 buf[s][Stage(k)][a] = SumOfElem(k, ElemOf(plan[k], q, i))
    BY DEF SentOK
  <2> QED
    BY <1>1, <1>2, <1>3, <1>4, <2>1
<1> QED
  BY <1>5, <1>6

(* Where a pack is about to be stored, the receiver still needs it: it has  *)
(* not finished the call, is at most one call behind, and the slot is empty.*)
LEMMA PushTarget ==
    ASSUME TypeOK, OrderOK, OriginOK, NEW r \in Rank, NEW q \in Rank \ {r}, NEW i \in Elem,
           NEW k \in Call, k = done[r] + 1, i < Owned(plan[k], q), ~Pushed(r, k, q, i)
    PROVE  /\ done[q] < k /\ k <= done[q] + 2
           /\ \A a : ~Refilled(q, k, a)
           /\ ScatterAddr(plan[k], r, i) \in Addr
           /\ buf[q][Stage(k)][ScatterAddr(plan[k], r, i)] = {}
<1>1. done[r] \in Nat /\ done[q] \in Nat /\ k \in Nat /\ plan[k] \in Message /\ i \in Nat
  BY Types, ElemIsNat
<1>2. done[q] < k
  <2> SUFFICES ASSUME done[q] >= k PROVE FALSE
    BY <1>1
  <2>1. Summed(q, k, i)
    BY FinishedHas
  <2> QED
    BY <2>1 DEF OrderOK
<1>3. k <= done[q] + 2
  BY <1>1, Skew
<1>4. \A a : ~Refilled(q, k, a)
  BY <1>2, NotRefilledYet
<1>5. ScatterAddr(plan[k], r, i) \in Addr
  BY <1>1, SlotIsAddress
<1>6. buf[q][Stage(k)][ScatterAddr(plan[k], r, i)] = {}
  <2> SUFFICES ASSUME buf[q][Stage(k)][ScatterAddr(plan[k], r, i)] # {} PROVE FALSE
    OBVIOUS
  <2>1. done[q] <= k
    BY <1>1, <1>2
  <2>2. Pushed(r, k, q, i)
    BY <1>3, <2>1, FoundInSlot
  <2> QED
    BY <2>2
<1> QED
  BY <1>2, <1>3, <1>4, <1>5, <1>6

LEMMA SumTarget ==
    ASSUME TypeOK, OrderOK, OriginOK, NEW r \in Rank, NEW q \in Rank \ {r}, NEW i \in Elem,
           NEW k \in Call, k = done[r] + 1, i < Owned(plan[k], r), ~Summed(r, k, i),
           plan[k].kind # "one_shot"
    PROVE  /\ done[q] < k /\ k <= done[q] + 2
           /\ \A a : ~Refilled(q, k, a)
           /\ GatherAddr(plan[k], r, i) \in Addr
           /\ buf[q][Stage(k)][GatherAddr(plan[k], r, i)] = {}
<1>1. done[r] \in Nat /\ done[q] \in Nat /\ k \in Nat /\ plan[k] \in Message /\ i \in Nat
  BY Types, ElemIsNat
<1>2. done[q] < k
  <2> SUFFICES ASSUME done[q] >= k PROVE FALSE
    BY <1>1
  <2>1. Gathered(q, k, r, i)
    BY FinishedHas
  <2> QED
    BY <2>1 DEF OrderOK
<1>3. k <= done[q] + 2
  BY <1>1, Skew
<1>4. \A a : ~Refilled(q, k, a)
  BY <1>2, NotRefilledYet
<1>5. GatherAddr(plan[k], r, i) \in Addr
  BY <1>1, SlotIsAddress
<1>6. buf[q][Stage(k)][GatherAddr(plan[k], r, i)] = {}
  <2> SUFFICES ASSUME buf[q][Stage(k)][GatherAddr(plan[k], r, i)] # {} PROVE FALSE
    OBVIOUS
  <2>1. done[q] <= k
    BY <1>1, <1>2
  <2>2. Summed(r, k, i)
    BY <1>3, <2>1, FoundInSlot
  <2> QED
    BY <2>2
<1> QED
  BY <1>2, <1>3, <1>4, <1>5, <1>6

(* A push keeps the buffers consistent. *)
LEMMA PushData ==
    ASSUME TypeOK, OrderOK, OriginOK, SentOK, UNCHANGED <<plan, done>>,
           NEW r \in Rank, NEW q \in Rank \ {r}, NEW i \in Elem,
           NEW k0 \in Call, k0 = done[r] + 1, i < Owned(plan[k0], q), ~Pushed(r, k0, q, i),
           Effect(r, "push", <<q, i>>),
           buf' = [buf EXCEPT ![q][Stage(k0)][ScatterAddr(plan[k0], r, i)] =
                     {<<r, k0, ElemOf(plan[k0], q, i)>>}]
    PROVE  OriginOK' /\ SentOK'
<1> DEFINE A == ScatterAddr(plan[k0], r, i)
           v == {<<r, k0, ElemOf(plan[k0], q, i)>>}
<1>1. /\ done[q] < k0 /\ k0 <= done[q] + 2 /\ \A a : ~Refilled(q, k0, a)
      /\ A \in Addr /\ done[q] \in Nat /\ k0 \in Nat /\ i \in Nat
  BY PushTarget, Types, ElemIsNat
<1>2. k0 \in done[q] .. done[q] + 2 /\ Stage(k0) \in 0..2
  BY <1>1, StageType
<1>3. buf \in [Rank -> [0..2 -> [Addr -> SUBSET Contribution]]]
  BY DEF TypeOK
<1>4. /\ buf'[q][Stage(k0)][A] = v
      /\ \A p \in Rank, s \in 0..2, a \in Addr :
           p # q \/ s # Stage(k0) \/ a # A => buf'[p][s][a] = buf[p][s][a]
  BY <1>1, <1>2, <1>3
<1>5. ASSUME NEW s \in Rank, NEW k \in Call, NEW j \in Elem, NEW p \in Rank \ {s},
             j < Owned(plan[k], p)
      PROVE  Pushed(s, k, p, j)' <=>
               Pushed(s, k, p, j) \/ (s = r /\ k = k0 /\ p = q /\ j = i)
  BY <1>5 DEF Effect
<1>6. ASSUME NEW o \in Rank, NEW k \in Call, NEW j \in Elem, j < Owned(plan[k], o)
      PROVE  Summed(o, k, j)' <=> Summed(o, k, j)
  BY <1>6 DEF Effect
<1>7. ASSUME NEW p \in Rank, NEW k \in Call, NEW a \in Dirty(plan[k], Extent(plan[k]))
      PROVE  Refilled(p, k, a)' <=> Refilled(p, k, a)
  BY <1>7 DEF Effect
<1>8. ASSUME NEW k \in Call, NEW p \in Rank, NEW u \in Rank, NEW j \in Elem, j < Owned(plan[k], u)
      PROVE  /\ ScatterAddr(plan[k], p, j) \in Dirty(plan[k], Extent(plan[k]))
             /\ ScatterAddr(plan[k], p, j) \in Addr
             /\ plan[k].kind # "one_shot" =>
                  /\ GatherAddr(plan[k], p, j) \in Dirty(plan[k], Extent(plan[k]))
                  /\ GatherAddr(plan[k], p, j) \in Addr
  BY <1>8, Types, ElemIsNat, SlotsWithinExtent, SlotIsAddress
<1> HIDE DEF A, v
<1>9. OriginOK'
  <2> SUFFICES ASSUME NEW p \in Rank, NEW a \in Addr, NEW k \in done[p] .. done[p] + 2,
                      buf'[p][Stage(k)][a] # {}
               PROVE  /\ k \in Call
                      /\ ~Refilled(p, k, a)'
                      /\ \E s \in Rank, j \in Elem : SlotOf(p, k, s, j, a)'
    BY DEF OriginOK, Stage
  <2>1. Stage(k) \in 0..2 /\ done[p] \in Nat
    BY Types, StageType
  <2>2. CASE p = q /\ Stage(k) = Stage(k0) /\ a = A
    <3>1. k = k0
      BY <1>2, <2>1, <2>2, StageApart
    <3>2. SlotOf(p, k, r, i, a)'
      BY <1>5, <2>2, <3>1 DEF SlotOf, A
    <3>3. A \in Dirty(plan[k0], Extent(plan[k0]))
      BY <1>8 DEF A
    <3>4. ~Refilled(p, k, a)'
      BY <1>1, <1>7, <2>2, <3>1, <3>3
    <3> QED
      BY <3>1, <3>2, <3>4
  <2>3. CASE ~(p = q /\ Stage(k) = Stage(k0) /\ a = A)
    <3>1. buf[p][Stage(k)][a] # {}
      BY <1>4, <2>1, <2>3
    <3>2. k \in Call /\ ~Refilled(p, k, a)
      BY <3>1 DEF OriginOK
    <3>3. PICK s \in Rank, j \in Elem : SlotOf(p, k, s, j, a)
      BY <3>1 DEF OriginOK
    <3>4. CASE s # p /\ j < Owned(plan[k], p) /\ a = ScatterAddr(plan[k], s, j) /\ Pushed(s, k, p, j)
      <4>1. SlotOf(p, k, s, j, a)'
        BY <1>5, <3>2, <3>4 DEF SlotOf
      <4>2. ~Refilled(p, k, a)'
        BY <1>7, <1>8, <3>2, <3>4
      <4> QED
        BY <3>2, <4>1, <4>2
    <3>5. CASE /\ s # p /\ j < Owned(plan[k], s) /\ plan[k].kind # "one_shot"
               /\ a = GatherAddr(plan[k], s, j) /\ Summed(s, k, j)
      <4>1. SlotOf(p, k, s, j, a)'
        BY <1>6, <3>2, <3>5 DEF SlotOf
      <4>2. ~Refilled(p, k, a)'
        BY <1>7, <1>8, <3>2, <3>5
      <4> QED
        BY <3>2, <4>1, <4>2
    <3> QED
      BY <3>3, <3>4, <3>5 DEF SlotOf
  <2> QED
    BY <2>2, <2>3
<1>10. SentOK'
  <2> SUFFICES ASSUME NEW p \in Rank, NEW j \in Elem, NEW k \in Call, NEW s \in Rank \ {p},
                      done[p] <= k, k <= done[p] + 2
               PROVE
                 /\ LET a == ScatterAddr(plan[k], s, j)
                    IN  j < Owned(plan[k], p) /\ Pushed(s, k, p, j)' /\ ~Refilled(p, k, a)' =>
                          buf'[p][Stage(k)][a] = {<<s, k, ElemOf(plan[k], p, j)>>}
                 /\ LET a == GatherAddr(plan[k], s, j)
                    IN  j < Owned(plan[k], s) /\ plan[k].kind # "one_shot" /\ Summed(s, k, j)'
                          /\ ~Refilled(p, k, a)' =>
                          buf'[p][Stage(k)][a] = SumOfElem(k, ElemOf(plan[k], s, j))
    BY DEF SentOK, Stage, SumOfElem
  <2>1. /\ LET a == ScatterAddr(plan[k], s, j)
           IN  j < Owned(plan[k], p) /\ Pushed(s, k, p, j) /\ ~Refilled(p, k, a) =>
                 buf[p][Stage(k)][a] = {<<s, k, ElemOf(plan[k], p, j)>>}
        /\ LET a == GatherAddr(plan[k], s, j)
           IN  j < Owned(plan[k], s) /\ plan[k].kind # "one_shot" /\ Summed(s, k, j)
                 /\ ~Refilled(p, k, a) =>
                 buf[p][Stage(k)][a] = SumOfElem(k, ElemOf(plan[k], s, j))
    BY DEF SentOK
  <2>2. /\ done[p] \in Nat /\ k \in done[p] .. done[p] + 2 /\ Stage(k) \in 0..2
        /\ j \in Nat /\ plan[k] \in Message
    <3>1. done[p] \in Nat /\ j \in Nat /\ plan[k] \in Message /\ k \in Nat
      BY Types, ElemIsNat
    <3>2. k \in done[p] .. done[p] + 2
      BY <3>1
    <3> QED
      BY <3>1, <3>2, StageType
  <2>3. p = q /\ Stage(k) = Stage(k0) => k = k0
    BY <1>2, <2>2, <1>1, StageApart
  <2>4. ASSUME j < Owned(plan[k], p), Pushed(s, k, p, j)',
               ~Refilled(p, k, ScatterAddr(plan[k], s, j))'
        PROVE  buf'[p][Stage(k)][ScatterAddr(plan[k], s, j)] = {<<s, k, ElemOf(plan[k], p, j)>>}
    <3> DEFINE a == ScatterAddr(plan[k], s, j)
    <3>1. CASE s = r /\ k = k0 /\ p = q /\ j = i
      BY <1>4, <3>1 DEF A, v
    <3>2. CASE ~(s = r /\ k = k0 /\ p = q /\ j = i)
      <4>1. Pushed(s, k, p, j) /\ ~Refilled(p, k, a) /\ a \in Addr
        BY <1>5, <1>7, <1>8, <2>4, <3>2
      <4>2. buf[p][Stage(k)][a] = {<<s, k, ElemOf(plan[k], p, j)>>}
        BY <2>1, <2>4, <4>1
      <4>3. ~(p = q /\ k = k0 /\ a = A)
        BY <1>1, <2>2, <2>4, <3>2, SlotsApart DEF A
      <4> QED
        BY <1>4, <2>2, <2>3, <4>1, <4>2, <4>3
    <3> QED
      BY <3>1, <3>2
  <2>5. ASSUME j < Owned(plan[k], s), plan[k].kind # "one_shot", Summed(s, k, j)',
               ~Refilled(p, k, GatherAddr(plan[k], s, j))'
        PROVE  buf'[p][Stage(k)][GatherAddr(plan[k], s, j)] = SumOfElem(k, ElemOf(plan[k], s, j))
    <3> DEFINE a == GatherAddr(plan[k], s, j)
    <3>1. Summed(s, k, j) /\ ~Refilled(p, k, a) /\ a \in Addr
      BY <1>6, <1>7, <1>8, <2>5
    <3>2. buf[p][Stage(k)][a] = SumOfElem(k, ElemOf(plan[k], s, j))
      BY <2>1, <2>5, <3>1
    <3>3. ~(p = q /\ k = k0 /\ a = A)
      BY <1>1, <2>2, <2>5, SlotsApart DEF A
    <3> QED
      BY <1>4, <2>2, <2>3, <3>1, <3>2, <3>3
  <2> QED
    BY <2>4, <2>5
<1> QED
  BY <1>9, <1>10

(* So does a sum that is sent to every peer. *)
LEMMA ReduceData ==
    ASSUME TypeOK, OrderOK, OriginOK, SentOK, UNCHANGED <<plan, done>>,
           NEW r \in Rank, NEW i \in Elem, NEW k0 \in Call, k0 = done[r] + 1,
           i < Owned(plan[k0], r), ~Summed(r, k0, i), plan[k0].kind # "one_shot",
           Effect(r, "reduce", <<r, i>>),
           buf' = [q \in Rank |->
                     IF q = r THEN buf[q]
                     ELSE [buf[q] EXCEPT ![Stage(k0)][GatherAddr(plan[k0], r, i)] =
                             SumOfElem(k0, ElemOf(plan[k0], r, i))]]
    PROVE  OriginOK' /\ SentOK'
<1> DEFINE A == GatherAddr(plan[k0], r, i)
           v == SumOfElem(k0, ElemOf(plan[k0], r, i))
<1>1. ASSUME NEW q \in Rank \ {r}
      PROVE  /\ done[q] < k0 /\ k0 <= done[q] + 2 /\ \A a : ~Refilled(q, k0, a)
             /\ k0 \in done[q] .. done[q] + 2
  <2>1. done[q] < k0 /\ k0 <= done[q] + 2 /\ \A a : ~Refilled(q, k0, a)
    BY SumTarget
  <2> QED
    BY <2>1, Types
<1>2. A \in Addr /\ k0 \in Nat /\ i \in Nat /\ done[r] \in Nat
  BY Types, ElemIsNat, SlotIsAddress
<1>3. Stage(k0) \in 0..2 /\ buf \in [Rank -> [0..2 -> [Addr -> SUBSET Contribution]]]
  BY <1>2, StageFacts DEF TypeOK
<1>4. /\ \A p \in Rank \ {r} : buf'[p][Stage(k0)][A] = v
      /\ \A p \in Rank, s \in 0..2, a \in Addr :
           p = r \/ s # Stage(k0) \/ a # A => buf'[p][s][a] = buf[p][s][a]
  <2>1. buf'[r] = buf[r]
    OBVIOUS
  <2>2. ASSUME NEW p \in Rank \ {r}
        PROVE  /\ buf'[p][Stage(k0)][A] = v
               /\ \A s \in 0..2, a \in Addr :
                    s # Stage(k0) \/ a # A => buf'[p][s][a] = buf[p][s][a]
    <3>1. buf[p] \in [0..2 -> [Addr -> SUBSET Contribution]]
      BY <1>3
    <3>2. buf'[p] = [buf[p] EXCEPT ![Stage(k0)][A] = v]
      OBVIOUS
    <3> QED
      BY <1>2, <1>3, <3>1, <3>2
  <2> QED
    BY <2>1, <2>2
<1>5. ASSUME NEW s \in Rank, NEW k \in Call, NEW j \in Elem, NEW p \in Rank \ {s},
             j < Owned(plan[k], p)
      PROVE  Pushed(s, k, p, j)' <=> Pushed(s, k, p, j)
  BY <1>5 DEF Effect
<1>6. ASSUME NEW o \in Rank, NEW k \in Call, NEW j \in Elem, j < Owned(plan[k], o)
      PROVE  Summed(o, k, j)' <=> Summed(o, k, j) \/ (o = r /\ k = k0 /\ j = i)
  BY <1>6 DEF Effect
<1>7. ASSUME NEW p \in Rank, NEW k \in Call, NEW a \in Dirty(plan[k], Extent(plan[k]))
      PROVE  Refilled(p, k, a)' <=> Refilled(p, k, a)
  BY <1>7 DEF Effect
<1>8. ASSUME NEW k \in Call, NEW p \in Rank, NEW u \in Rank, NEW j \in Elem, j < Owned(plan[k], u)
      PROVE  /\ ScatterAddr(plan[k], p, j) \in Dirty(plan[k], Extent(plan[k]))
             /\ ScatterAddr(plan[k], p, j) \in Addr
             /\ plan[k].kind # "one_shot" =>
                  /\ GatherAddr(plan[k], p, j) \in Dirty(plan[k], Extent(plan[k]))
                  /\ GatherAddr(plan[k], p, j) \in Addr
  BY <1>8, Types, ElemIsNat, SlotsWithinExtent, SlotIsAddress
<1> HIDE DEF A, v
<1>9. OriginOK'
  <2> SUFFICES ASSUME NEW p \in Rank, NEW a \in Addr, NEW k \in done[p] .. done[p] + 2,
                      buf'[p][Stage(k)][a] # {}
               PROVE  /\ k \in Call
                      /\ ~Refilled(p, k, a)'
                      /\ \E s \in Rank, j \in Elem : SlotOf(p, k, s, j, a)'
    BY DEF OriginOK, Stage
  <2>1. Stage(k) \in 0..2 /\ done[p] \in Nat
    BY Types, StageType
  <2>2. CASE p # r /\ Stage(k) = Stage(k0) /\ a = A
    <3>1. k = k0
      BY <1>1, <2>1, <2>2, StageApart
    <3>2. SlotOf(p, k, r, i, a)'
      BY <1>6, <2>2, <3>1 DEF SlotOf, A
    <3>3. A \in Dirty(plan[k0], Extent(plan[k0]))
      BY <1>8 DEF A
    <3>4. ~Refilled(p, k, a)'
      BY <1>1, <1>7, <2>2, <3>1, <3>3
    <3> QED
      BY <3>1, <3>2, <3>4
  <2>3. CASE ~(p # r /\ Stage(k) = Stage(k0) /\ a = A)
    <3>1. buf[p][Stage(k)][a] # {}
      BY <1>4, <2>1, <2>3
    <3>2. k \in Call /\ ~Refilled(p, k, a)
      BY <3>1 DEF OriginOK
    <3>3. PICK s \in Rank, j \in Elem : SlotOf(p, k, s, j, a)
      BY <3>1 DEF OriginOK
    <3>4. CASE s # p /\ j < Owned(plan[k], p) /\ a = ScatterAddr(plan[k], s, j) /\ Pushed(s, k, p, j)
      <4>1. SlotOf(p, k, s, j, a)'
        BY <1>5, <3>2, <3>4 DEF SlotOf
      <4>2. ~Refilled(p, k, a)'
        BY <1>7, <1>8, <3>2, <3>4
      <4> QED
        BY <3>2, <4>1, <4>2
    <3>5. CASE /\ s # p /\ j < Owned(plan[k], s) /\ plan[k].kind # "one_shot"
               /\ a = GatherAddr(plan[k], s, j) /\ Summed(s, k, j)
      <4>1. SlotOf(p, k, s, j, a)'
        BY <1>6, <3>2, <3>5 DEF SlotOf
      <4>2. ~Refilled(p, k, a)'
        BY <1>7, <1>8, <3>2, <3>5
      <4> QED
        BY <3>2, <4>1, <4>2
    <3> QED
      BY <3>3, <3>4, <3>5 DEF SlotOf
  <2> QED
    BY <2>2, <2>3
<1>10. SentOK'
  <2> SUFFICES ASSUME NEW p \in Rank, NEW j \in Elem, NEW k \in Call, NEW s \in Rank \ {p},
                      done[p] <= k, k <= done[p] + 2
               PROVE
                 /\ LET a == ScatterAddr(plan[k], s, j)
                    IN  j < Owned(plan[k], p) /\ Pushed(s, k, p, j)' /\ ~Refilled(p, k, a)' =>
                          buf'[p][Stage(k)][a] = {<<s, k, ElemOf(plan[k], p, j)>>}
                 /\ LET a == GatherAddr(plan[k], s, j)
                    IN  j < Owned(plan[k], s) /\ plan[k].kind # "one_shot" /\ Summed(s, k, j)'
                          /\ ~Refilled(p, k, a)' =>
                          buf'[p][Stage(k)][a] = SumOfElem(k, ElemOf(plan[k], s, j))
    BY DEF SentOK, Stage, SumOfElem
  <2>1. /\ LET a == ScatterAddr(plan[k], s, j)
           IN  j < Owned(plan[k], p) /\ Pushed(s, k, p, j) /\ ~Refilled(p, k, a) =>
                 buf[p][Stage(k)][a] = {<<s, k, ElemOf(plan[k], p, j)>>}
        /\ LET a == GatherAddr(plan[k], s, j)
           IN  j < Owned(plan[k], s) /\ plan[k].kind # "one_shot" /\ Summed(s, k, j)
                 /\ ~Refilled(p, k, a) =>
                 buf[p][Stage(k)][a] = SumOfElem(k, ElemOf(plan[k], s, j))
    BY DEF SentOK
  <2>2. /\ done[p] \in Nat /\ k \in done[p] .. done[p] + 2 /\ Stage(k) \in 0..2
        /\ j \in Nat /\ plan[k] \in Message
    <3>1. done[p] \in Nat /\ j \in Nat /\ plan[k] \in Message /\ k \in Nat
      BY Types, ElemIsNat
    <3>2. k \in done[p] .. done[p] + 2
      BY <3>1
    <3> QED
      BY <3>1, <3>2, StageType
  <2>3. p # r /\ Stage(k) = Stage(k0) => k = k0
    BY <1>1, <2>2, StageApart
  <2>4. ASSUME j < Owned(plan[k], p), Pushed(s, k, p, j)',
               ~Refilled(p, k, ScatterAddr(plan[k], s, j))'
        PROVE  buf'[p][Stage(k)][ScatterAddr(plan[k], s, j)] = {<<s, k, ElemOf(plan[k], p, j)>>}
    <3> DEFINE a == ScatterAddr(plan[k], s, j)
    <3>1. Pushed(s, k, p, j) /\ ~Refilled(p, k, a) /\ a \in Addr
      BY <1>5, <1>7, <1>8, <2>4
    <3>2. buf[p][Stage(k)][a] = {<<s, k, ElemOf(plan[k], p, j)>>}
      BY <2>1, <2>4, <3>1
    <3>3. ~(p # r /\ k = k0 /\ a = A)
      BY <1>2, <2>2, <2>4, SlotsApart DEF A
    <3> QED
      BY <1>4, <2>2, <2>3, <3>1, <3>2, <3>3
  <2>5. ASSUME j < Owned(plan[k], s), plan[k].kind # "one_shot", Summed(s, k, j)',
               ~Refilled(p, k, GatherAddr(plan[k], s, j))'
        PROVE  buf'[p][Stage(k)][GatherAddr(plan[k], s, j)] = SumOfElem(k, ElemOf(plan[k], s, j))
    <3> DEFINE a == GatherAddr(plan[k], s, j)
    <3>1. CASE s = r /\ k = k0 /\ j = i
      BY <1>4, <3>1 DEF A, v
    <3>2. CASE ~(s = r /\ k = k0 /\ j = i)
      <4>1. Summed(s, k, j) /\ ~Refilled(p, k, a) /\ a \in Addr
        BY <1>6, <1>7, <1>8, <2>5, <3>2
      <4>2. buf[p][Stage(k)][a] = SumOfElem(k, ElemOf(plan[k], s, j))
        BY <2>1, <2>5, <4>1
      <4>3. ~(p # r /\ k = k0 /\ a = A)
        BY <1>2, <2>2, <2>5, <3>2, SlotsApart DEF A
      <4> QED
        BY <1>4, <2>2, <2>3, <4>1, <4>2, <4>3
    <3> QED
      BY <3>1, <3>2
  <2> QED
    BY <2>4, <2>5
<1> QED
  BY <1>9, <1>10

(* A re-fill empties an address of the finished call, and no other. *)
LEMMA RefillData ==
    ASSUME TypeOK, OriginOK, SentOK, UNCHANGED <<plan, done>>,
           NEW r \in Rank, done[r] \in Call, NEW A \in Dirty(plan[done[r]], Extent(plan[done[r]])),
           A \in Addr, Refilled(r, done[r], A)',
           Effect(r, "refill", <<r, A>>),
           buf' = [buf EXCEPT ![r][Stage(done[r])][A] = {}]
    PROVE  OriginOK' /\ SentOK'
<1>1. done[r] \in Nat /\ Stage(done[r]) \in 0..2
  BY Types, StageFacts
<1>2. buf \in [Rank -> [0..2 -> [Addr -> SUBSET Contribution]]]
  BY DEF TypeOK
<1>3. /\ buf'[r][Stage(done[r])][A] = {}
      /\ \A p \in Rank, s \in 0..2, a \in Addr :
           p # r \/ s # Stage(done[r]) \/ a # A => buf'[p][s][a] = buf[p][s][a]
  BY <1>1, <1>2
<1>4. ASSUME NEW s \in Rank, NEW k \in Call, NEW j \in Elem, NEW p \in Rank \ {s},
             j < Owned(plan[k], p)
      PROVE  Pushed(s, k, p, j)' <=> Pushed(s, k, p, j)
  BY <1>4 DEF Effect
<1>5. ASSUME NEW o \in Rank, NEW k \in Call, NEW j \in Elem, j < Owned(plan[k], o)
      PROVE  Summed(o, k, j)' <=> Summed(o, k, j)
  BY <1>5 DEF Effect
<1>6. ASSUME NEW p \in Rank, NEW k \in Call, NEW a \in Dirty(plan[k], Extent(plan[k]))
      PROVE  Refilled(p, k, a)' <=> Refilled(p, k, a) \/ (p = r /\ k = done[r] /\ a = A)
  BY <1>6 DEF Effect
<1>7. ASSUME NEW k \in Call, NEW p \in Rank, NEW u \in Rank, NEW j \in Elem, j < Owned(plan[k], u)
      PROVE  /\ ScatterAddr(plan[k], p, j) \in Dirty(plan[k], Extent(plan[k]))
             /\ ScatterAddr(plan[k], p, j) \in Addr
             /\ plan[k].kind # "one_shot" =>
                  /\ GatherAddr(plan[k], p, j) \in Dirty(plan[k], Extent(plan[k]))
                  /\ GatherAddr(plan[k], p, j) \in Addr
  BY <1>7, Types, ElemIsNat, SlotsWithinExtent, SlotIsAddress
<1>8. ASSUME NEW p \in Rank, NEW k \in done[p] .. done[p] + 2
      PROVE  Stage(k) \in 0..2 /\ (p = r /\ Stage(k) = Stage(done[r]) => k = done[r])
  <2>1. done[p] \in Nat
    BY Types
  <2>2. p = r => done[r] \in done[p] .. done[p] + 2
    BY <2>1
  <2> QED
    BY <2>1, <2>2, StageType, StageApart
<1>9. OriginOK'
  <2> SUFFICES ASSUME NEW p \in Rank, NEW a \in Addr, NEW k \in done[p] .. done[p] + 2,
                      buf'[p][Stage(k)][a] # {}
               PROVE  /\ k \in Call
                      /\ ~Refilled(p, k, a)'
                      /\ \E s \in Rank, j \in Elem : SlotOf(p, k, s, j, a)'
    BY DEF OriginOK, Stage
  <2>1. ~(p = r /\ k = done[r] /\ a = A) /\ buf[p][Stage(k)][a] # {}
    BY <1>3, <1>8
  <2>2. k \in Call /\ ~Refilled(p, k, a)
    BY <2>1 DEF OriginOK
  <2>3. PICK s \in Rank, j \in Elem : SlotOf(p, k, s, j, a)
    BY <2>1 DEF OriginOK
  <2>4. CASE s # p /\ j < Owned(plan[k], p) /\ a = ScatterAddr(plan[k], s, j) /\ Pushed(s, k, p, j)
    <3>1. SlotOf(p, k, s, j, a)'
      BY <1>4, <2>2, <2>4 DEF SlotOf
    <3>2. ~Refilled(p, k, a)'
      BY <1>6, <1>7, <2>1, <2>2, <2>4
    <3> QED
      BY <2>2, <3>1, <3>2
  <2>5. CASE /\ s # p /\ j < Owned(plan[k], s) /\ plan[k].kind # "one_shot"
             /\ a = GatherAddr(plan[k], s, j) /\ Summed(s, k, j)
    <3>1. SlotOf(p, k, s, j, a)'
      BY <1>5, <2>2, <2>5 DEF SlotOf
    <3>2. ~Refilled(p, k, a)'
      BY <1>6, <1>7, <2>1, <2>2, <2>5
    <3> QED
      BY <2>2, <3>1, <3>2
  <2> QED
    BY <2>3, <2>4, <2>5 DEF SlotOf
<1>10. SentOK'
  <2> SUFFICES ASSUME NEW p \in Rank, NEW j \in Elem, NEW k \in Call, NEW s \in Rank \ {p},
                      done[p] <= k, k <= done[p] + 2
               PROVE
                 /\ LET a == ScatterAddr(plan[k], s, j)
                    IN  j < Owned(plan[k], p) /\ Pushed(s, k, p, j)' /\ ~Refilled(p, k, a)' =>
                          buf'[p][Stage(k)][a] = {<<s, k, ElemOf(plan[k], p, j)>>}
                 /\ LET a == GatherAddr(plan[k], s, j)
                    IN  j < Owned(plan[k], s) /\ plan[k].kind # "one_shot" /\ Summed(s, k, j)'
                          /\ ~Refilled(p, k, a)' =>
                          buf'[p][Stage(k)][a] = SumOfElem(k, ElemOf(plan[k], s, j))
    BY DEF SentOK, Stage, SumOfElem
  <2>1. /\ LET a == ScatterAddr(plan[k], s, j)
           IN  j < Owned(plan[k], p) /\ Pushed(s, k, p, j) /\ ~Refilled(p, k, a) =>
                 buf[p][Stage(k)][a] = {<<s, k, ElemOf(plan[k], p, j)>>}
        /\ LET a == GatherAddr(plan[k], s, j)
           IN  j < Owned(plan[k], s) /\ plan[k].kind # "one_shot" /\ Summed(s, k, j)
                 /\ ~Refilled(p, k, a) =>
                 buf[p][Stage(k)][a] = SumOfElem(k, ElemOf(plan[k], s, j))
    BY DEF SentOK
  <2>2. k \in done[p] .. done[p] + 2
    BY Types
  <2>3. ASSUME j < Owned(plan[k], p), Pushed(s, k, p, j)',
               ~Refilled(p, k, ScatterAddr(plan[k], s, j))'
        PROVE  buf'[p][Stage(k)][ScatterAddr(plan[k], s, j)] = {<<s, k, ElemOf(plan[k], p, j)>>}
    <3> DEFINE a == ScatterAddr(plan[k], s, j)
    <3>1. Pushed(s, k, p, j) /\ ~Refilled(p, k, a) /\ a \in Addr
      BY <1>4, <1>6, <1>7, <2>3
    <3>2. ~(p = r /\ k = done[r] /\ a = A)
      BY <2>3
    <3> QED
      BY <1>3, <1>8, <2>1, <2>2, <2>3, <3>1, <3>2
  <2>4. ASSUME j < Owned(plan[k], s), plan[k].kind # "one_shot", Summed(s, k, j)',
               ~Refilled(p, k, GatherAddr(plan[k], s, j))'
        PROVE  buf'[p][Stage(k)][GatherAddr(plan[k], s, j)] = SumOfElem(k, ElemOf(plan[k], s, j))
    <3> DEFINE a == GatherAddr(plan[k], s, j)
    <3>1. Summed(s, k, j) /\ ~Refilled(p, k, a) /\ a \in Addr
      BY <1>5, <1>6, <1>7, <2>4
    <3>2. ~(p = r /\ k = done[r] /\ a = A)
      BY <2>4
    <3> QED
      BY <1>3, <1>8, <2>1, <2>2, <2>4, <3>1, <3>2
  <2> QED
    BY <2>3, <2>4
<1> QED
  BY <1>9, <1>10

(* When a rank returns from a call, the stage of the call before is empty   *)
(* everywhere: it was re-filled to the extent the epoch word stated.        *)
LEMMA ReturnData ==
    ASSUME Control, OrderOK, OriginOK, SentOK, NEW r \in Rank, Return(r),
           Effect(r, "none", 0), done[r] \in Nat, done[r] + 1 \in Call, done'[r] = done[r] + 1,
           \A q \in Rank : q # r => done'[q] = done[q]
    PROVE  OriginOK' /\ SentOK'
<1> DEFINE d == done[r]
<1>1. TypeOK /\ (\A t \in Cta : phase[r][t] = "end") /\ UNCHANGED <<plan, buf>>
  BY DEF Control, Return
<1>2. ASSUME NEW s \in Rank, NEW k \in Call, NEW j \in Elem, NEW p \in Rank \ {s},
             j < Owned(plan[k], p)
      PROVE  Pushed(s, k, p, j)' <=> Pushed(s, k, p, j)
  BY <1>2 DEF Effect
<1>3. ASSUME NEW o \in Rank, NEW k \in Call, NEW j \in Elem, j < Owned(plan[k], o)
      PROVE  Summed(o, k, j)' <=> Summed(o, k, j)
  BY <1>3 DEF Effect
<1>4. ASSUME NEW p \in Rank, NEW k \in Call, NEW a \in Dirty(plan[k], Extent(plan[k]))
      PROVE  Refilled(p, k, a)' <=> Refilled(p, k, a)
  BY <1>4 DEF Effect
<1>5. ASSUME NEW k \in Call, NEW p \in Rank, NEW u \in Rank, NEW j \in Elem, j < Owned(plan[k], u)
      PROVE  /\ ScatterAddr(plan[k], p, j) \in Dirty(plan[k], Extent(plan[k]))
             /\ plan[k].kind # "one_shot" =>
                  GatherAddr(plan[k], p, j) \in Dirty(plan[k], Extent(plan[k]))
  BY <1>1, <1>5, Types, ElemIsNat, SlotsWithinExtent
<1>6. ASSUME NEW p \in Rank, NEW a \in Addr, NEW k \in Call, k \in done[p] .. done[p] + 2,
             buf[p][Stage(k)][a] # {}
      PROVE  /\ ~Refilled(p, k, a) /\ ~Refilled(p, k, a)'
             /\ a \in Dirty(plan[k], Extent(plan[k]))
             /\ \E s \in Rank, j \in Elem : SlotOf(p, k, s, j, a)'
  <2>1. ~Refilled(p, k, a)
    BY <1>6 DEF OriginOK
  <2>2. PICK s \in Rank, j \in Elem : SlotOf(p, k, s, j, a)
    BY <1>6 DEF OriginOK
  <2>3. CASE s # p /\ j < Owned(plan[k], p) /\ a = ScatterAddr(plan[k], s, j) /\ Pushed(s, k, p, j)
    <3>1. SlotOf(p, k, s, j, a)'
      BY <1>1, <1>2, <2>3 DEF SlotOf
    <3>2. a \in Dirty(plan[k], Extent(plan[k]))
      BY <1>5, <2>3
    <3> QED
      BY <1>4, <2>1, <3>1, <3>2
  <2>4. CASE /\ s # p /\ j < Owned(plan[k], s) /\ plan[k].kind # "one_shot"
             /\ a = GatherAddr(plan[k], s, j) /\ Summed(s, k, j)
    <3>1. SlotOf(p, k, s, j, a)'
      BY <1>1, <1>3, <2>4 DEF SlotOf
    <3>2. a \in Dirty(plan[k], Extent(plan[k]))
      BY <1>5, <2>4
    <3> QED
      BY <1>4, <2>1, <3>1, <3>2
  <2> QED
    BY <2>2, <2>3, <2>4 DEF SlotOf
<1>7. ASSUME d \in Call, NEW a \in Dirty(plan[d], Extent(plan[d])) PROVE Refilled(r, d, a)
  <2> DEFINE u == a % Blocks(plan[d + 1])
  <2>1. d < MaxCalls /\ plan \in Plans
    BY <1>1, Types, Constants DEF Call
  <2>2. u \in Cta
    BY <1>7, <2>1, RefillHome
  <2>3. phase[r][u] = "end"
    BY <1>1, <2>2
  <2>4. Has(r, d + 1, u, "refill", <<r, a>>)
    <3>1. DoneAt(plan[d + 1], "end", todo[r][u], "refill", <<r, a>>)
      BY DoneAtEnds DEF Loops
    <3> QED
      BY <2>3, <3>1 DEF Has
  <2> QED
    BY <2>1, <2>4 DEF Refilled
<1>8. ASSUME NEW a \in Addr PROVE buf[r][Stage(d + 3)][a] = {}
  <2> SUFFICES ASSUME buf[r][Stage(d + 3)][a] # {} PROVE FALSE
    OBVIOUS
  <2>1. Stage(d + 3) = Stage(d) /\ d \in done[r] .. done[r] + 2
    BY StageFacts
  <2>2. d \in Call
    BY <2>1 DEF OriginOK
  <2>3. ~Refilled(r, d, a) /\ a \in Dirty(plan[d], Extent(plan[d]))
    BY <1>6, <2>1, <2>2
  <2> QED
    BY <1>7, <2>2, <2>3
<1>9. ASSUME d + 3 \in Call, NEW s \in Rank, NEW i, NEW q
      PROVE  ~Pushed(s, d + 3, q, i) /\ ~Summed(s, d + 3, i)
  <2>1. done[s] <= d + 1 /\ done[s] \in Nat
    BY <1>1, Skew, Types
  <2> QED
    BY <2>1 DEF Pushed, Summed, Has
<1> HIDE DEF d
<1>10. OriginOK'
  <2> SUFFICES ASSUME NEW p \in Rank, NEW a \in Addr, NEW k \in done'[p] .. done'[p] + 2,
                      buf[p][Stage(k)][a] # {}
               PROVE  /\ k \in Call
                      /\ ~Refilled(p, k, a)'
                      /\ \E s \in Rank, j \in Elem : SlotOf(p, k, s, j, a)'
    BY <1>1 DEF OriginOK, Stage
  <2>1. k \in done[p] .. done[p] + 2
    <3>1. CASE p # r
      BY <3>1
    <3>2. CASE p = r
      <4>1. k # d + 3
        BY <1>8, <3>2
      <4> QED
        BY <3>2, <4>1 DEF d
    <3> QED
      BY <3>1, <3>2
  <2>2. k \in Call
    BY <2>1 DEF OriginOK
  <2> QED
    BY <1>6, <2>1, <2>2
<1>11. SentOK'
  <2> SUFFICES ASSUME NEW p \in Rank, NEW j \in Elem, NEW k \in Call, NEW s \in Rank \ {p},
                      done'[p] <= k, k <= done'[p] + 2
               PROVE
                 /\ LET a == ScatterAddr(plan[k], s, j)
                    IN  j < Owned(plan[k], p) /\ Pushed(s, k, p, j)' /\ ~Refilled(p, k, a)' =>
                          buf[p][Stage(k)][a] = {<<s, k, ElemOf(plan[k], p, j)>>}
                 /\ LET a == GatherAddr(plan[k], s, j)
                    IN  j < Owned(plan[k], s) /\ plan[k].kind # "one_shot" /\ Summed(s, k, j)'
                          /\ ~Refilled(p, k, a)' =>
                          buf[p][Stage(k)][a] = SumOfElem(k, ElemOf(plan[k], s, j))
    BY <1>1 DEF SentOK, Stage, SumOfElem
  <2>1. done[p] \in Nat /\ k \in Nat
    BY <1>1, Types
  <2>2. CASE p = r /\ k = d + 3
    BY <1>2, <1>3, <1>9, <2>2
  <2>3. CASE ~(p = r /\ k = d + 3)
    <3>1. done[p] <= k /\ k <= done[p] + 2
      BY <2>1, <2>3 DEF d
    <3>2. /\ LET a == ScatterAddr(plan[k], s, j)
             IN  j < Owned(plan[k], p) /\ Pushed(s, k, p, j) /\ ~Refilled(p, k, a) =>
                   buf[p][Stage(k)][a] = {<<s, k, ElemOf(plan[k], p, j)>>}
          /\ LET a == GatherAddr(plan[k], s, j)
             IN  j < Owned(plan[k], s) /\ plan[k].kind # "one_shot" /\ Summed(s, k, j)
                   /\ ~Refilled(p, k, a) =>
                   buf[p][Stage(k)][a] = SumOfElem(k, ElemOf(plan[k], s, j))
      BY <3>1 DEF SentOK
    <3>3. ASSUME j < Owned(plan[k], p)
          PROVE  /\ Pushed(s, k, p, j)' <=> Pushed(s, k, p, j)
                 /\ Refilled(p, k, ScatterAddr(plan[k], s, j))' <=>
                      Refilled(p, k, ScatterAddr(plan[k], s, j))
      BY <1>1, <1>2, <1>4, <1>5, <3>3
    <3>4. ASSUME j < Owned(plan[k], s), plan[k].kind # "one_shot"
          PROVE  /\ Summed(s, k, j)' <=> Summed(s, k, j)
                 /\ Refilled(p, k, GatherAddr(plan[k], s, j))' <=>
                      Refilled(p, k, GatherAddr(plan[k], s, j))
      BY <1>1, <1>3, <1>4, <1>5, <3>4
    <3> QED
      BY <3>2, <3>3, <3>4
  <2> QED
    BY <2>2, <2>3
<1> QED
  BY <1>10, <1>11

-----------------------------------------------------------------------------
(* The output of a rank that neither sums nor gathers in a step. *)
LEMMA OutSame ==
    ASSUME TypeOK, plan' = plan, NEW r \in Rank, NEW L, NEW x, Effect(r, L, x),
           NEW q \in Rank, OutOf(q), done'[q] = done[q], out'[q] = out[q],
           (\A t \in Cta : phase'[q][t] = "idle") => \A t \in Cta : phase[q][t] = "idle",
           q # r \/ L \notin {"reduce", "gather"}
    PROVE  OutOf(q)'
<1>1. ASSUME NEW k \in Call, NEW i \in Elem, i < Owned(plan[k], q)
      PROVE  Summed(q, k, i)' <=> Summed(q, k, i)
  BY <1>1 DEF Effect
<1>2. ASSUME NEW k \in Call, NEW i \in Elem, NEW p \in Rank \ {q}, i < Owned(plan[k], p),
             plan[k].kind # "one_shot"
      PROVE  Gathered(q, k, p, i)' <=> Gathered(q, k, p, i)
  BY <1>2 DEF Effect
<1>3. (\A t \in Cta : phase'[q][t] = "idle") /\ done'[q] > 0 =>
        \A e \in Elements(done[q])' : out'[q][e] = SumOfElem(done[q], e)
  BY DEF OutOf, Elements
<1>4. ASSUME NEW k \in Call, NEW p \in Rank, NEW i \in Elem, k = done[q] + 1,
             i < Owned(plan[k], p),
             IF p = q THEN Summed(q, k, i)'
             ELSE plan[k].kind # "one_shot" /\ Gathered(q, k, p, i)'
      PROVE  out[q][ElemOf(plan[k], p, i)] = SumOfElem(k, ElemOf(plan[k], p, i))
  <2>1. IF p = q THEN Summed(q, k, i)
        ELSE plan[k].kind # "one_shot" /\ Gathered(q, k, p, i)
    BY <1>1, <1>2, <1>4
  <2> QED
    BY <1>4, <2>1 DEF OutOf
<1> QED
  BY <1>3, <1>4 DEF OutOf, Elements, SumOfElem

(* The output of a rank that sums or gathers an item. *)
LEMMA OutItem ==
    ASSUME TypeOK, UNCHANGED <<plan, done>>, NEW r \in Rank, NEW L \in {"reduce", "gather"},
           NEW q \in Rank, NEW i \in Elem, NEW k0 \in Call, k0 = done[r] + 1,
           i < Owned(plan[k0], q), L = "reduce" <=> q = r,
           Effect(r, L, <<q, i>>), OutOf(r),
           \E t \in Cta : phase'[r][t] # "idle",
           out' = [out EXCEPT ![r][ElemOf(plan[k0], q, i)] =
                     SumOfElem(k0, ElemOf(plan[k0], q, i))]
    PROVE  OutOf(r)'
<1> DEFINE e == ElemOf(plan[k0], q, i)
<1>1. /\ e \in Elem /\ out \in [Rank -> [Elem -> SUBSET Contribution]]
  BY Types, ElemIsNat, ElementOfIndex DEF TypeOK
<1>2. /\ out'[r][e] = SumOfElem(k0, e)
      /\ \A f \in Elem : f # e => out'[r][f] = out[r][f]
  BY <1>1
<1> HIDE DEF e
<1>3. ASSUME NEW k \in Call, NEW p \in Rank, NEW j \in Elem, k = done[r] + 1,
             j < Owned(plan[k], p),
             IF p = r THEN Summed(r, k, j)'
             ELSE plan[k].kind # "one_shot" /\ Gathered(r, k, p, j)'
      PROVE  out'[r][ElemOf(plan[k], p, j)] = SumOfElem(k, ElemOf(plan[k], p, j))
  <2> DEFINE f == ElemOf(plan[k], p, j)
  <2>1. f \in Elem
    BY <1>3, Types, ElemIsNat, ElementOfIndex
  <2>2. \/ IF p = r THEN Summed(r, k, j)
           ELSE plan[k].kind # "one_shot" /\ Gathered(r, k, p, j)
        \/ p = q /\ j = i
    BY <1>3 DEF Effect
  <2>3. CASE p = q /\ j = i
    BY <1>2, <1>3, <2>3 DEF e
  <2>4. CASE IF p = r THEN Summed(r, k, j)
             ELSE plan[k].kind # "one_shot" /\ Gathered(r, k, p, j)
    <3>1. out[r][f] = SumOfElem(k, f)
      BY <1>3, <2>4 DEF OutOf
    <3> QED
      BY <1>2, <1>3, <2>1, <3>1
  <2> QED
    BY <2>2, <2>3, <2>4
<1> QED
  BY <1>3 DEF OutOf, Elements, SumOfElem

(* When a call starts nothing of it is in the output. *)
LEMMA OutStart ==
    ASSUME TypeOK, UNCHANGED <<plan, done>>, NEW r \in Rank, NEW x, Effect(r, "none", x),
           \A t \in Cta : phase[r][t] = "idle", \E t \in Cta : phase'[r][t] # "idle"
    PROVE  OutOf(r)'
<1>1. ASSUME NEW k \in Call, NEW p \in Rank, NEW j \in Elem, k = done[r] + 1,
             j < Owned(plan[k], p)
      PROVE  ~ IF p = r THEN Summed(r, k, j)'
               ELSE plan[k].kind # "one_shot" /\ Gathered(r, k, p, j)'
  <2>1. CtaOf(plan[k], j) \in Cta /\ done[r] \in Nat /\ k \in Nat
    BY <1>1, Types, ItemHome
  <2>2. ~Summed(r, k, j) /\ ~Gathered(r, k, p, j)
    BY <1>1, <2>1, DoneAtEnds DEF Summed, Gathered, Has, Loops
  <2> QED
    BY <1>1, <2>2 DEF Effect
<1> QED
  BY <1>1 DEF OutOf, Elements, SumOfElem

(* When a rank returns, every element has been written. *)
LEMMA OutReturn ==
    ASSUME Control, NEW r \in Rank, Return(r), OutOf(r),
           done[r] \in Nat, done[r] + 1 \in Call, done'[r] = done[r] + 1,
           \A t \in Cta : phase'[r][t] = "idle"
    PROVE  OutOf(r)'
<1> DEFINE d == done[r]
           c == plan[d + 1]
<1>1. TypeOK /\ (\A t \in Cta : phase[r][t] = "end") /\ UNCHANGED <<plan, out>>
  BY DEF Control, Return
<1>2. ASSUME NEW p \in Rank, NEW j \in Elem, j < Owned(c, p)
      PROVE  Summed(r, d + 1, j) /\ Gathered(r, d + 1, p, j)
  <2>1. CtaOf(c, j) \in Cta /\ (d + 1) - 1 = d
    <3>1. CtaOf(c, j) \in Cta
      BY <1>1, <1>2, Types, ItemHome
    <3> QED
      BY <3>1
  <2>2. phase[r][CtaOf(c, j)] = "end"
    BY <1>1, <2>1
  <2> QED
    BY <2>1, <2>2, DoneAtEnds DEF Summed, Gathered, Has, Loops
<1>3. ASSUME NEW e \in Elements(d + 1)
      PROVE  out[r][e] = SumOfElem(d + 1, e)
  <2>1. e \in 0 .. c.size - 1 /\ c \in Message
    BY <1>1, Types DEF Elements
  <2>2. PICK p \in Rank, j \in Elem :
           /\ j < Owned(c, p) /\ ElemOf(c, p, j) = e
           /\ p # r => c.kind # "one_shot"
    <3>1. CASE c.kind = "one_shot"
      BY <2>1, <3>1, PartitionsCover
    <3>2. CASE c.kind # "one_shot"
      <4>1. PICK p \in Rank, j \in Nat : j < Owned(c, p) /\ ElemOf(c, p, j) = e
        BY <2>1, <3>2, PartitionsCover
      <4>2. j \in Elem
        BY <2>1, <4>1, IndexFacts
      <4> QED
        BY <3>2, <4>1, <4>2
    <3> QED
      BY <3>1, <3>2
  <2> QED
    BY <1>2, <2>2 DEF OutOf
<1>4. ASSUME NEW k \in Call, NEW p \in Rank, NEW j \in Elem, k = done'[r] + 1,
             j < Owned(plan[k], p)
      PROVE  ~Summed(r, k, j)' /\ ~Gathered(r, k, p, j)'
  <2>1. CtaOf(plan[k], j) \in Cta
    BY <1>1, <1>4, Types, ItemHome
  <2>2. ~(done'[r] >= k)
    BY <1>4
  <2>3. \A x : \A loop \in Loops : ~Has(r, k, CtaOf(plan[k], j), loop, x)'
    BY <1>1, <2>1, <2>2, DoneAtEnds, HasInStep
  <2>4. Summed(r, k, j)' <=> Has(r, k, CtaOf(plan[k], j), "reduce", <<r, j>>)'
    BY <1>1 DEF Summed
  <2>5. Gathered(r, k, p, j)' <=> Has(r, k, CtaOf(plan[k], j), "gather", <<p, j>>)'
    BY <1>1 DEF Gathered
  <2> QED
    BY <2>3, <2>4, <2>5 DEF Loops
<1>5. \A e \in Elements(done'[r]) : out'[r][e] = SumOfElem(done'[r], e)
  BY <1>1, <1>3
<1> QED
  BY <1>1, <1>4, <1>5 DEF OutOf, Elements, SumOfElem

-----------------------------------------------------------------------------
(* No step stores a pack over another. *)
NoOverwrite ==
    \A r \in Rank, s \in 0..2, a \in Addr :
        buf'[r][s][a] # {} => buf[r][s][a] \in {{}, buf'[r][s][a]}

LEMMA Assemble ==
    ASSUME TypeOK, ControlKept, plan' = plan,
           buf' \in [Rank -> [0..2 -> [Addr -> SUBSET Contribution]]],
           out' \in [Rank -> [Elem -> SUBSET Contribution]],
           trapped' \subseteq Rank, OrderOK', OriginOK', SentOK', OutOK'
    PROVE  FlagsInv'
BY DEF ControlKept, FlagsInv, Control, TypeOK

LEMMA StartStep ==
    ASSUME FlagsInv, NEW r \in Rank, Start(r)
    PROVE  FlagsInv' /\ NoOverwrite
<1>1. TypeOK /\ Control /\ OrderOK /\ OriginOK /\ SentOK /\ OutOK
  BY DEF FlagsInv, Control
<1>2. /\ \A t \in Cta : phase[r][t] = "idle"
      /\ phase' = [phase EXCEPT ![r] = [t \in Cta |-> IF t \in Grid(Now(r)) THEN "start" ELSE "end"]]
      /\ out' = [out EXCEPT ![r] = NoOutput]
      /\ UNCHANGED <<plan, done, buf, trapped>>
  BY DEF Start
<1>3. ControlKept /\ SameItems /\ phase'[r][0] = "start" /\ 0 \in Cta
  BY <1>1, StartControl, CtaZero
<1>4. /\ plan \in Plans /\ out \in [Rank -> [Elem -> SUBSET Contribution]]
      /\ phase \in [Rank -> [Cta -> Phases]]
      /\ trapped \subseteq Rank /\ buf \in [Rank -> [0..2 -> [Addr -> SUBSET Contribution]]]
  BY <1>1 DEF TypeOK
<1>5. Effect(r, "none", 0)
  BY <1>2, <1>3, <1>4, EffectOfNone
<1>6. OrderOK'
  BY <1>1, <1>2, <1>5, OrderStep
<1>7. OriginOK' /\ SentOK'
  BY <1>1, <1>2, <1>5, SameBuffers
<1>8. ASSUME NEW q \in Rank PROVE OutOf(q)'
  <2>1. OutOf(q)
    BY <1>1 DEF OutOK
  <2>2. CASE q = r
    BY <1>1, <1>2, <1>3, <1>5, <2>2, OutStart
  <2>3. CASE q # r
    <3>1. out'[q] = out[q] /\ phase'[q] = phase[q]
      BY <1>2, <1>4, <2>3
    <3> QED
      BY <1>1, <1>2, <1>5, <2>1, <2>3, <3>1, OutSame
  <2> QED
    BY <2>2, <2>3
<1>9. out' \in [Rank -> [Elem -> SUBSET Contribution]]
  BY <1>2, <1>4 DEF NoOutput
<1>10. OutOK'
  BY <1>8 DEF OutOK
<1> QED
  BY <1>1, <1>2, <1>3, <1>4, <1>6, <1>7, <1>9, <1>10, Assemble DEF NoOverwrite

(* A step that changes neither a buffer nor an output. *)
LEMMA QuietStep ==
    ASSUME FlagsInv, ControlKept, SameItems, UNCHANGED <<plan, done, buf, out>>,
           trapped' \subseteq Rank,
           \A q \in Rank : (\A t \in Cta : phase'[q][t] = "idle") =>
                             \A t \in Cta : phase[q][t] = "idle"
    PROVE  FlagsInv' /\ NoOverwrite
<1>1. TypeOK /\ OrderOK /\ OriginOK /\ SentOK /\ OutOK
  BY DEF FlagsInv, Control
<1>2. /\ plan \in Plans /\ out \in [Rank -> [Elem -> SUBSET Contribution]]
      /\ buf \in [Rank -> [0..2 -> [Addr -> SUBSET Contribution]]]
  BY <1>1 DEF TypeOK
<1>3. PICK r \in Rank : TRUE
  BY Constants
<1>4. Effect(r, "none", 0)
  BY <1>2, EffectOfNone
<1>5. OrderOK' /\ OriginOK' /\ SentOK'
  BY <1>1, <1>4, OrderStep, SameBuffers
<1>6. ASSUME NEW q \in Rank PROVE OutOf(q)'
  BY <1>1, <1>4, OutSame DEF OutOK
<1>7. OutOK'
  BY <1>6 DEF OutOK
<1> QED
  BY <1>1, <1>2, <1>5, <1>7, Assemble DEF NoOverwrite

LEMMA ReadStageStep ==
    ASSUME FlagsInv, NEW r \in Rank, NEW t \in Cta, ReadStage(r, t)
    PROVE  FlagsInv' /\ NoOverwrite
<1>1. /\ ControlKept /\ SameItems
      /\ \A q \in Rank, u \in Cta : q # r \/ u # t => phase'[q][u] = phase[q][u]
      /\ phase'[r][t] # "idle"
  BY ReadStageControl DEF FlagsInv
<1>2. UNCHANGED <<plan, done, buf, out>> /\ trapped' \subseteq Rank
  BY DEF ReadStage, FlagsInv, Control, TypeOK
<1>3. \A q \in Rank : (\A u \in Cta : phase'[q][u] = "idle") =>
                         \A u \in Cta : phase[q][u] = "idle"
  BY <1>1
<1> QED
  BY <1>1, <1>2, <1>3, QuietStep

LEMMA AdvanceStep ==
    ASSUME FlagsInv, NEW r \in Rank, AdvanceEpoch(r)
    PROVE  FlagsInv' /\ NoOverwrite
<1>1. /\ ControlKept /\ SameItems
      /\ \A q \in Rank, u \in Cta : q # r \/ u # 0 => phase'[q][u] = phase[q][u]
      /\ phase'[r][0] # "idle"
  BY AdvanceControl DEF FlagsInv
<1>2. UNCHANGED <<plan, done, buf, out>> /\ trapped' \subseteq Rank
  BY DEF AdvanceEpoch, FlagsInv, Control, TypeOK
<1>3. \A q \in Rank : (\A u \in Cta : phase'[q][u] = "idle") =>
                         \A u \in Cta : phase[q][u] = "idle"
  BY <1>1, CtaZero
<1> QED
  BY <1>1, <1>2, <1>3, QuietStep

LEMMA ReturnStep ==
    ASSUME FlagsInv, NEW r \in Rank, Return(r)
    PROVE  FlagsInv' /\ NoOverwrite
<1>1. TypeOK /\ Control /\ OrderOK /\ OriginOK /\ SentOK /\ OutOK
  BY DEF FlagsInv, Control
<1>2. /\ ControlKept /\ SameItems
      /\ done'[r] = done[r] + 1 /\ done[r] \in Nat /\ done[r] + 1 \in Call
      /\ \A q \in Rank : q # r => done'[q] = done[q] /\ phase'[q] = phase[q]
      /\ \A t \in Cta : phase'[r][t] = "idle"
  BY <1>1, ReturnControl
<1>3. UNCHANGED <<plan, buf, out, trapped>>
  BY DEF Return
<1>4. /\ plan \in Plans /\ out \in [Rank -> [Elem -> SUBSET Contribution]]
      /\ trapped \subseteq Rank /\ buf \in [Rank -> [0..2 -> [Addr -> SUBSET Contribution]]]
  BY <1>1 DEF TypeOK
<1>5. Effect(r, "none", 0)
  BY <1>2, <1>3, <1>4, EffectOfNone
<1>6. OrderOK'
  BY <1>1, <1>3, <1>5, OrderStep
<1>7. OriginOK' /\ SentOK'
  BY <1>1, <1>2, <1>5, ReturnData
<1>8. ASSUME NEW q \in Rank PROVE OutOf(q)'
  <2>1. OutOf(q)
    BY <1>1 DEF OutOK
  <2>2. CASE q = r
    BY <1>1, <1>2, <2>1, <2>2, OutReturn
  <2>3. CASE q # r
    BY <1>1, <1>2, <1>3, <1>5, <2>1, <2>3, OutSame
  <2> QED
    BY <2>2, <2>3
<1>9. OutOK'
  BY <1>8 DEF OutOK
<1> QED
  BY <1>1, <1>2, <1>3, <1>4, <1>6, <1>7, <1>9, Assemble DEF NoOverwrite

LEMMA PushStep ==
    ASSUME FlagsInv, NEW r \in Rank, NEW t \in Cta, NEW q \in Rank, NEW i \in Elem,
           Push(r, t, q, i)
    PROVE  FlagsInv' /\ NoOverwrite
<1> DEFINE k0 == done[r] + 1
           x == <<q, i>>
           A == ScatterAddr(plan[k0], r, i)
           v == {<<r, k0, ElemOf(plan[k0], q, i)>>}
<1>1. TypeOK /\ Control /\ OrderOK /\ OriginOK /\ SentOK /\ OutOK
  BY DEF FlagsInv, Control
<1>2. /\ phase[r][t] = "push" /\ x \in todo[r][t] /\ ItemDone(r, t, x)
      /\ UNCHANGED <<plan, done, w0, written, local, out, trapped>>
      /\ buf' = [buf EXCEPT ![q][local[r][t]][ScatterAddr(Now(r), r, i)] =
                   {<<r, done[r] + 1, ElemOf(Now(r), q, i)>>}]
  BY DEF Push, In
<1>3. "push" \in Loops
  BY DEF Loops
<1>4. /\ ControlKept /\ ItemOf(r, t, "push", x) /\ ~Has(r, k0, t, "push", x)
      /\ phase'[r][t] # "idle"
      /\ \A p \in Rank, u \in Cta : p # r \/ u # t => phase'[p][u] = phase[p][u]
      /\ OneItem(r, t, "push", x)
  BY <1>1, <1>2, <1>3, ItemControl
<1>5. /\ plan \in Plans /\ out \in [Rank -> [Elem -> SUBSET Contribution]]
      /\ trapped \subseteq Rank /\ buf \in [Rank -> [0..2 -> [Addr -> SUBSET Contribution]]]
  BY <1>1 DEF TypeOK
<1>6. /\ k0 \in Call /\ done[r] \in Nat /\ x \in ItemsIn(r, k0, t, "push")
      /\ local[r][t] = Stage(k0) /\ Now(r) = plan[k0] /\ plan[k0] \in Message
      /\ Stage(k0) \in 0..2
  <2>1. phase[r][t] # "idle" /\ phase[r][t] \in Loops
    BY <1>2, <1>3
  <2> QED
    BY <1>1, <1>4, <2>1, Working, StageFacts DEF ItemOf
<1>7. q \in Rank \ {r} /\ i < Owned(plan[k0], q) /\ CtaOf(plan[k0], i) = t /\ i \in Nat
  BY <1>5, <1>6, ItemsFacts, ElemIsNat
<1>8. Effect(r, "push", x)
  BY <1>2, <1>4, <1>5, EffectOfItem
<1>9. ~Pushed(r, k0, q, i)
  BY <1>4, <1>7 DEF Pushed
<1>10. buf' = [buf EXCEPT ![q][Stage(k0)][A] = v]
  BY <1>2, <1>6
<1>11. OrderOK'
  BY <1>1, <1>2, <1>8, OrderStep
<1>12. OriginOK' /\ SentOK'
  BY <1>1, <1>2, <1>6, <1>7, <1>8, <1>9, <1>10, PushData
<1>13. OutOK'
  <2> SUFFICES ASSUME NEW p \in Rank PROVE OutOf(p)'
    BY DEF OutOK
  <2>1. (\A u \in Cta : phase'[p][u] = "idle") => \A u \in Cta : phase[p][u] = "idle"
    BY <1>4
  <2> QED
    BY <1>1, <1>2, <1>8, <2>1, OutSame DEF OutOK
<1>14. v \in SUBSET Contribution
  BY <1>6, <1>7, ElementOfIndex DEF Contribution
<1>15. buf[q][Stage(k0)][A] = {} /\ A \in Addr
  BY <1>1, <1>6, <1>7, <1>9, PushTarget
<1> HIDE DEF k0, x, A, v
<1>16. buf' \in [Rank -> [0..2 -> [Addr -> SUBSET Contribution]]]
  BY <1>5, <1>10, <1>14
<1>17. NoOverwrite
  <2> SUFFICES ASSUME NEW p \in Rank, NEW s \in 0..2, NEW a \in Addr
               PROVE  buf[p][s][a] \in {{}, buf'[p][s][a]}
    BY DEF NoOverwrite
  <2>1. CASE p = q /\ s = Stage(k0) /\ a = A
    BY <1>15, <2>1
  <2>2. CASE ~(p = q /\ s = Stage(k0) /\ a = A)
    BY <1>5, <1>10, <2>2
  <2> QED
    BY <2>1, <2>2
<1> QED
  BY <1>1, <1>2, <1>4, <1>5, <1>11, <1>12, <1>13, <1>16, <1>17, Assemble

LEMMA RefillStep ==
    ASSUME FlagsInv, NEW r \in Rank, NEW t \in Cta, Refill(r, t)
    PROVE  FlagsInv' /\ NoOverwrite
<1> DEFINE d == done[r]
<1>1. TypeOK /\ Control /\ OrderOK /\ OriginOK /\ SentOK /\ OutOK
  BY DEF FlagsInv, Control
<1>2. PICK x \in todo[r][t] :
        /\ buf' = [buf EXCEPT ![r][(local[r][t] + 2) % 3][x[2]] = {}]
        /\ ItemDone(r, t, x)
  BY DEF Refill
<1>3. phase[r][t] = "refill" /\ "refill" \in Loops
      /\ UNCHANGED <<plan, done, w0, written, local, out, trapped>>
  BY DEF Refill, In, Loops
<1>4. /\ ControlKept /\ ItemOf(r, t, "refill", x) /\ ~Has(r, d + 1, t, "refill", x)
      /\ phase'[r][t] # "idle"
      /\ \A p \in Rank, u \in Cta : p # r \/ u # t => phase'[p][u] = phase[p][u]
      /\ OneItem(r, t, "refill", x)
  BY <1>1, <1>2, <1>3, ItemControl
<1>5. /\ plan \in Plans /\ out \in [Rank -> [Elem -> SUBSET Contribution]]
      /\ trapped \subseteq Rank /\ buf \in [Rank -> [0..2 -> [Addr -> SUBSET Contribution]]]
  BY <1>1 DEF TypeOK
<1>6. /\ d + 1 \in Call /\ d \in Nat /\ x \in ItemsIn(r, d + 1, t, "refill")
      /\ (local[r][t] + 2) % 3 = Stage(d)
  <2>1. phase[r][t] # "idle" /\ phase[r][t] \in Loops
    BY <1>3
  <2> QED
    BY <1>1, <1>4, <2>1, Working DEF ItemOf
<1>7. PICK A \in Dirty(plan[d + 1], Before(d + 1)) : x = <<r, A>>
  BY <1>5, <1>6, ItemsFacts
<1>8. d \in Call /\ A \in Dirty(plan[d], Extent(plan[d])) /\ A \in Addr
  <2>1. d # 0
    <3>1. d + 1 # 1
      BY <1>5, <1>6, <1>7, BeforeFacts
    <3> QED
      BY <3>1
  <2>2. d \in Call /\ d + 1 > 1 /\ (d + 1) - 1 = d
    BY <1>1, <1>6, <2>1, Types
  <2> HIDE DEF d
  <2>3. /\ Dirty(plan[d + 1], Before(d + 1)) = Dirty(plan[d], Extent(plan[d]))
        /\ Dirty(plan[d + 1], Before(d + 1)) \subseteq Addr
    BY <1>5, <1>6, <2>2, BeforeFacts
  <2> QED
    BY <1>7, <2>2, <2>3
<1>9. Effect(r, "refill", <<r, A>>)
  BY <1>3, <1>4, <1>5, <1>7, EffectOfItem
<1>10. ASSUME NEW k \in Call, k = d, A \in Dirty(plan[k], Extent(plan[k]))
       PROVE  Refilled(r, k, A)'
  BY <1>9, <1>10 DEF Effect
<1>11. buf' = [buf EXCEPT ![r][Stage(d)][A] = {}]
  BY <1>2, <1>6, <1>7
<1>12. OrderOK'
  BY <1>1, <1>3, <1>9, OrderStep
<1>13. OriginOK' /\ SentOK'
  BY <1>1, <1>3, <1>8, <1>9, <1>10, <1>11, RefillData
<1>14. OutOK'
  <2> SUFFICES ASSUME NEW p \in Rank PROVE OutOf(p)'
    BY DEF OutOK
  <2>1. (\A u \in Cta : phase'[p][u] = "idle") => \A u \in Cta : phase[p][u] = "idle"
    BY <1>4
  <2> QED
    BY <1>1, <1>3, <1>9, <2>1, OutSame DEF OutOK
<1> HIDE DEF d
<1>15. buf' \in [Rank -> [0..2 -> [Addr -> SUBSET Contribution]]]
  BY <1>5, <1>11
<1>16. NoOverwrite
  BY <1>5, <1>11 DEF NoOverwrite
<1> QED
  BY <1>1, <1>3, <1>4, <1>5, <1>12, <1>13, <1>14, <1>15, <1>16, Assemble

(* What a rank that has seen every peer's pack adds up. *)
LEMMA SumIsExact ==
    ASSUME TypeOK, OriginOK, SentOK, NEW r \in Rank, NEW k \in Call, k = done[r] + 1,
           NEW i \in Elem, i < Owned(plan[k], r),
           \A s \in Rank \ {r} : buf[r][Stage(k)][ScatterAddr(plan[k], s, i)] # {}
    PROVE  /\ {<<r, k, ElemOf(plan[k], r, i)>>} \cup
                UNION {buf[r][Stage(k)][ScatterAddr(plan[k], s, i)] : s \in Rank \ {r}}
                = SumOfElem(k, ElemOf(plan[k], r, i))
           /\ \A s \in Rank \ {r} : Pushed(s, k, r, i)
<1>1. done[r] \in Nat /\ done[r] <= k /\ k <= done[r] + 2
  BY Types
<1>2. ASSUME NEW s \in Rank \ {r}
      PROVE  /\ Pushed(s, k, r, i)
             /\ buf[r][Stage(k)][ScatterAddr(plan[k], s, i)] = {<<s, k, ElemOf(plan[k], r, i)>>}
  <2>1. Pushed(s, k, r, i) /\ ~Refilled(r, k, ScatterAddr(plan[k], s, i))
    BY <1>1, FoundInSlot
  <2> QED
    BY <1>1, <2>1 DEF SentOK
<1> QED
  BY <1>2 DEF SumOfElem

LEMMA ReduceStep ==
    ASSUME FlagsInv, NEW r \in Rank, NEW t \in Cta, NEW i \in Elem, Reduce(r, t, i)
    PROVE  FlagsInv' /\ NoOverwrite
<1> DEFINE k0 == done[r] + 1
           x == <<r, i>>
           A == GatherAddr(plan[k0], r, i)
           e == ElemOf(plan[k0], r, i)
           v == SumOfElem(k0, e)
           sum == {<<r, done[r] + 1, ElemOf(Now(r), r, i)>>} \cup
                    UNION {Received(r, t, s, i) : s \in Rank \ {r}}
<1>1. TypeOK /\ Control /\ OrderOK /\ OriginOK /\ SentOK /\ OutOK
  BY DEF FlagsInv, Control
<1>2. /\ phase[r][t] = "reduce" /\ x \in todo[r][t] /\ ItemDone(r, t, x)
      /\ UNCHANGED <<plan, done, w0, written, local, trapped>>
      /\ \A s \in Rank \ {r} : Received(r, t, s, i) # {}
      /\ out' = [out EXCEPT ![r][ElemOf(Now(r), r, i)] = sum]
      /\ buf' = IF Now(r).kind = "one_shot" THEN buf
                ELSE [q \in Rank |->
                        IF q = r THEN buf[q]
                        ELSE [buf[q] EXCEPT ![local[r][t]][GatherAddr(Now(r), r, i)] = sum]]
  BY DEF Reduce, In
<1>3. "reduce" \in Loops
  BY DEF Loops
<1>4. /\ ControlKept /\ ItemOf(r, t, "reduce", x) /\ ~Has(r, k0, t, "reduce", x)
      /\ phase'[r][t] # "idle"
      /\ \A p \in Rank, u \in Cta : p # r \/ u # t => phase'[p][u] = phase[p][u]
      /\ OneItem(r, t, "reduce", x)
  BY <1>1, <1>2, <1>3, ItemControl
<1>5. /\ plan \in Plans /\ out \in [Rank -> [Elem -> SUBSET Contribution]]
      /\ trapped \subseteq Rank /\ buf \in [Rank -> [0..2 -> [Addr -> SUBSET Contribution]]]
  BY <1>1 DEF TypeOK
<1>6. /\ k0 \in Call /\ done[r] \in Nat /\ x \in ItemsIn(r, k0, t, "reduce")
      /\ local[r][t] = Stage(k0) /\ Now(r) = plan[k0] /\ plan[k0] \in Message
      /\ Stage(k0) \in 0..2
  <2>1. phase[r][t] # "idle" /\ phase[r][t] \in Loops
    BY <1>2, <1>3
  <2> QED
    BY <1>1, <1>4, <2>1, Working, StageFacts DEF ItemOf
<1>7. i < Owned(plan[k0], r) /\ CtaOf(plan[k0], i) = t /\ i \in Nat
  BY <1>5, <1>6, ItemsFacts, ElemIsNat
<1>8. Effect(r, "reduce", x)
  BY <1>2, <1>4, <1>5, EffectOfItem
<1>9. ~Summed(r, k0, i)
  BY <1>4, <1>7 DEF Summed
<1>10. sum = v /\ \A s \in Rank \ {r} : Pushed(s, k0, r, i)
  <2>1. \A s \in Rank : Received(r, t, s, i) = buf[r][Stage(k0)][ScatterAddr(plan[k0], s, i)]
    BY <1>6 DEF Received
  <2>2. sum = {<<r, k0, ElemOf(plan[k0], r, i)>>} \cup
                UNION {buf[r][Stage(k0)][ScatterAddr(plan[k0], s, i)] : s \in Rank \ {r}}
    BY <1>6, <2>1
  <2> HIDE DEF sum
  <2> QED
    BY <1>1, <1>2, <1>6, <1>7, <2>1, <2>2, SumIsExact
<1>11. e \in Elem /\ v \in SUBSET Contribution
  BY <1>6, <1>7, ElementOfIndex DEF Contribution, SumOfElem
<1>12. out' = [out EXCEPT ![r][e] = v]
  BY <1>2, <1>6, <1>10
<1>13. OrderOK'
  BY <1>1, <1>2, <1>8, <1>10, OrderStep
<1>14. OutOK'
  <2> SUFFICES ASSUME NEW p \in Rank PROVE OutOf(p)'
    BY DEF OutOK
  <2>1. OutOf(p)
    BY <1>1 DEF OutOK
  <2>2. CASE p = r
    BY <1>1, <1>2, <1>4, <1>6, <1>7, <1>8, <1>12, <2>1, <2>2, OutItem
  <2>3. CASE p # r
    <3>1. out'[p] = out[p] /\ \A u \in Cta : phase'[p][u] = phase[p][u]
      BY <1>4, <1>5, <1>12, <2>3
    <3> QED
      BY <1>1, <1>2, <1>8, <2>1, <2>3, <3>1, OutSame
  <2> QED
    BY <2>2, <2>3
<1>15. out' \in [Rank -> [Elem -> SUBSET Contribution]]
  BY <1>5, <1>11, <1>12
<1>16. CASE plan[k0].kind = "one_shot"
  <2>1. buf' = buf
    BY <1>2, <1>6, <1>16
  <2>2. OriginOK' /\ SentOK'
    BY <1>1, <1>2, <1>8, <1>16, <2>1, SameBuffers
  <2>3. buf' \in [Rank -> [0..2 -> [Addr -> SUBSET Contribution]]] /\ NoOverwrite
    BY <1>5, <2>1 DEF NoOverwrite
  <2> QED
    BY <1>1, <1>2, <1>4, <1>5, <1>13, <1>14, <1>15, <2>2, <2>3, Assemble
<1>17. CASE plan[k0].kind # "one_shot"
  <2>1. buf' = [q \in Rank |->
                  IF q = r THEN buf[q] ELSE [buf[q] EXCEPT ![Stage(k0)][A] = v]]
    BY <1>2, <1>6, <1>10, <1>17
  <2>2. OriginOK' /\ SentOK'
    BY <1>1, <1>2, <1>6, <1>7, <1>8, <1>9, <1>17, <2>1, ReduceData
  <2>3. ASSUME NEW q \in Rank \ {r} PROVE buf[q][Stage(k0)][A] = {} /\ A \in Addr
    BY <1>1, <1>6, <1>7, <1>9, <1>17, SumTarget
  <2> HIDE DEF k0, x, A, e, v, sum
  <2>4. buf' \in [Rank -> [0..2 -> [Addr -> SUBSET Contribution]]]
    BY <1>5, <1>11, <2>1
  <2>5. NoOverwrite
    <3> SUFFICES ASSUME NEW p \in Rank, NEW s \in 0..2, NEW a \in Addr
                 PROVE  buf[p][s][a] \in {{}, buf'[p][s][a]}
      BY DEF NoOverwrite
    <3>1. CASE p = r
      BY <2>1, <3>1
    <3>2. CASE p # r
      <4>1. buf'[p] = [buf[p] EXCEPT ![Stage(k0)][A] = v]
        BY <2>1, <3>2
      <4>2. CASE s = Stage(k0) /\ a = A
        BY <2>3, <3>2, <4>2
      <4>3. CASE ~(s = Stage(k0) /\ a = A)
        BY <1>5, <4>1, <4>3
      <4> QED
        BY <4>2, <4>3
    <3> QED
      BY <3>1, <3>2
  <2> QED
    BY <1>1, <1>2, <1>4, <1>5, <1>13, <1>14, <1>15, <2>2, <2>4, <2>5, Assemble
<1> QED
  BY <1>16, <1>17

LEMMA GatherStep ==
    ASSUME FlagsInv, NEW r \in Rank, NEW t \in Cta, NEW q \in Rank, NEW i \in Elem,
           Gather(r, t, q, i)
    PROVE  FlagsInv' /\ NoOverwrite
<1> DEFINE k0 == done[r] + 1
           x == <<q, i>>
           e == ElemOf(plan[k0], q, i)
           v == SumOfElem(k0, e)
<1>1. TypeOK /\ Control /\ OrderOK /\ OriginOK /\ SentOK /\ OutOK
  BY DEF FlagsInv, Control
<1>2. /\ phase[r][t] = "gather" /\ x \in todo[r][t] /\ ItemDone(r, t, x)
      /\ UNCHANGED <<plan, done, w0, written, local, buf, trapped>>
      /\ buf[r][local[r][t]][GatherAddr(Now(r), q, i)] # {}
      /\ out' = [out EXCEPT ![r][ElemOf(Now(r), q, i)] =
                   buf[r][local[r][t]][GatherAddr(Now(r), q, i)]]
  BY DEF Gather, In
<1>3. "gather" \in Loops
  BY DEF Loops
<1>4. /\ ControlKept /\ ItemOf(r, t, "gather", x)
      /\ phase'[r][t] # "idle"
      /\ \A p \in Rank, u \in Cta : p # r \/ u # t => phase'[p][u] = phase[p][u]
      /\ OneItem(r, t, "gather", x)
  BY <1>1, <1>2, <1>3, ItemControl
<1>5. /\ plan \in Plans /\ out \in [Rank -> [Elem -> SUBSET Contribution]]
      /\ trapped \subseteq Rank /\ buf \in [Rank -> [0..2 -> [Addr -> SUBSET Contribution]]]
  BY <1>1 DEF TypeOK
<1>6. /\ k0 \in Call /\ done[r] \in Nat /\ x \in ItemsIn(r, k0, t, "gather")
      /\ local[r][t] = Stage(k0) /\ Now(r) = plan[k0] /\ plan[k0] \in Message
  <2>1. phase[r][t] # "idle" /\ phase[r][t] \in Loops
    BY <1>2, <1>3
  <2> QED
    BY <1>1, <1>4, <2>1, Working DEF ItemOf
<1>7. /\ plan[k0].kind # "one_shot" /\ q \in Rank \ {r} /\ i < Owned(plan[k0], q)
      /\ i \in Nat
  BY <1>5, <1>6, ItemsFacts, ElemIsNat
<1>8. Effect(r, "gather", x)
  BY <1>2, <1>4, <1>5, EffectOfItem
<1>9. Summed(q, k0, i) /\ buf[r][Stage(k0)][GatherAddr(plan[k0], q, i)] = v
  <2>1. done[r] <= k0 /\ k0 <= done[r] + 2
    BY <1>6
  <2>2. buf[r][Stage(k0)][GatherAddr(plan[k0], q, i)] # {}
    BY <1>2, <1>6
  <2> HIDE DEF k0
  <2>3. Summed(q, k0, i) /\ ~Refilled(r, k0, GatherAddr(plan[k0], q, i))
    BY <1>1, <1>6, <1>7, <2>1, <2>2, FoundInSlot
  <2> QED
    BY <1>1, <1>6, <1>7, <2>1, <2>3 DEF SentOK
<1>10. e \in Elem /\ v \in SUBSET Contribution
  BY <1>6, <1>7, ElementOfIndex DEF Contribution, SumOfElem
<1>11. out' = [out EXCEPT ![r][e] = v]
  BY <1>2, <1>6, <1>9
<1>12. OrderOK'
  BY <1>1, <1>2, <1>8, <1>9, OrderStep
<1>13. OriginOK' /\ SentOK'
  BY <1>1, <1>2, <1>8, SameBuffers
<1>14. OutOK'
  <2> SUFFICES ASSUME NEW p \in Rank PROVE OutOf(p)'
    BY DEF OutOK
  <2>1. OutOf(p)
    BY <1>1 DEF OutOK
  <2>2. CASE p = r
    BY <1>1, <1>2, <1>4, <1>6, <1>7, <1>8, <1>11, <2>1, <2>2, OutItem
  <2>3. CASE p # r
    <3>1. out'[p] = out[p] /\ \A u \in Cta : phase'[p][u] = phase[p][u]
      BY <1>4, <1>5, <1>11, <2>3
    <3> QED
      BY <1>1, <1>2, <1>8, <2>1, <2>3, <3>1, OutSame
  <2> QED
    BY <2>2, <2>3
<1>15. out' \in [Rank -> [Elem -> SUBSET Contribution]]
  BY <1>5, <1>10, <1>11
<1>16. buf' \in [Rank -> [0..2 -> [Addr -> SUBSET Contribution]]] /\ NoOverwrite
  BY <1>2, <1>5 DEF NoOverwrite
<1> QED
  BY <1>1, <1>2, <1>4, <1>5, <1>12, <1>13, <1>14, <1>15, <1>16, Assemble

(* A trap, or no step at all, changes nothing the invariant is about. *)
LEMMA StandStill ==
    ASSUME FlagsInv, UNCHANGED <<plan, done, w0, written, phase, local, todo, buf, out>>,
           trapped' \subseteq Rank
    PROVE  FlagsInv' /\ NoOverwrite
<1>1. PhaseOK' /\ TodoOK' /\ EpochOK'
  <2>1. PhaseOK'
    BY DEF FlagsInv, Control, PhaseOK, Now
  <2>2. TodoOK'
    BY DEF FlagsInv, Control, TodoOK, ItemsIn, Before
  <2>3. EpochOK'
    BY DEF FlagsInv, Control, EpochOK, Before, Now
  <2> QED
    BY <2>1, <2>2, <2>3
<1>2. ControlKept
  BY <1>1 DEF ControlKept, FlagsInv, Control, TypeOK
<1>3. SameItems
  BY DEF SameItems, Has, DoneAt
<1> QED
  BY <1>2, <1>3, QuietStep

(* Before the first call every buffer holds the sentinel. *)
LEMMA FlagsInit ==
    ASSUME Init
    PROVE  FlagsInv
<1>1. /\ plan \in Plans /\ \A r \in Rank : done[r] = 0 /\ w0[r] = 0
      /\ \A r \in Rank, s \in 0..2 : written[r][s] = 0
      /\ \A r \in Rank, t \in Cta : phase[r][t] = "idle" /\ todo[r][t] = {}
      /\ \A r \in Rank, s \in 0..2, a \in Addr : buf[r][s][a] = {}
  BY DEF Init
<1>2. TypeOK
  <2>1. done \in [Rank -> 0 .. MaxCalls] /\ phase \in [Rank -> [Cta -> Phases]]
    BY Constants DEF Init, Phases
  <2>2. /\ w0 \in [Rank -> 0..2] /\ local \in [Rank -> [Cta -> 0..2]]
        /\ written \in [Rank -> [0..2 -> {0} \cup {Extent(c) : c \in Message}]]
        /\ todo \in [Rank -> [Cta -> SUBSET (Rank \X (Elem \cup Addr))]]
    BY DEF Init
  <2>3. /\ buf \in [Rank -> [0..2 -> [Addr -> SUBSET Contribution]]]
        /\ out \in [Rank -> [Elem -> SUBSET Contribution]]
    BY DEF Init, NoOutput
  <2> QED
    BY <2>1, <2>2, <2>3 DEF Init, TypeOK
<1>3. PhaseOK
  BY <1>1 DEF PhaseOK
<1>4. TodoOK
  BY <1>1, PhasePlaces DEF TodoOK
<1>5. EpochOK
  <2>1. Stage(0) = 2 /\ Stage(1) = 0 /\ Before(1) = 0
    BY DEF Stage, Before
  <2> QED
    BY <1>1, <2>1, CtaZero DEF EpochOK
<1>6. ASSUME NEW r \in Rank, NEW k \in Call, NEW t \in Cta, NEW loop \in Loops, NEW x
      PROVE  ~Has(r, k, t, loop, x)
  <2>1. k \in Nat /\ k >= 1
    BY DEF Call
  <2> QED
    BY <1>1, <2>1, DoneAtEnds DEF Has
<1>7. ASSUME NEW k \in Call, NEW q \in Rank, NEW i \in Elem, i < Owned(plan[k], q)
      PROVE  ~Summed(q, k, i) /\ \A r \in Rank : ~Gathered(r, k, q, i) /\ ~Pushed(r, k, q, i)
  <2>1. CtaOf(plan[k], i) \in Cta
    BY <1>1, <1>7, ItemHome
  <2> QED
    BY <1>6, <2>1 DEF Summed, Gathered, Pushed, Loops
<1>8. OrderOK
  BY <1>7 DEF OrderOK
<1>9. ASSUME NEW r \in Rank, NEW k \in 0 .. 2
      PROVE  Stage(k) \in 0..2
  BY StageFacts
<1>10. OriginOK
  BY <1>1, <1>9 DEF OriginOK
<1>11. SentOK
  BY <1>7 DEF SentOK
<1>12. OutOK
  BY <1>1, <1>7 DEF OutOK, OutOf
<1> QED
  BY <1>2, <1>3, <1>4, <1>5, <1>8, <1>10, <1>11, <1>12 DEF FlagsInv, Control

LEMMA FlagsStep ==
    ASSUME FlagsInv, [Next]_vars
    PROVE  FlagsInv' /\ NoOverwrite
<1>1. ASSUME NEW r \in Rank, Start(r) PROVE FlagsInv' /\ NoOverwrite
  BY <1>1, StartStep
<1>2. ASSUME NEW r \in Rank, Return(r) PROVE FlagsInv' /\ NoOverwrite
  BY <1>2, ReturnStep
<1>3. ASSUME NEW r \in Rank, NEW t \in Cta, ReadStage(r, t) PROVE FlagsInv' /\ NoOverwrite
  BY <1>3, ReadStageStep
<1>4. ASSUME NEW r \in Rank, NEW t \in Cta, NEW q \in Rank, NEW i \in Elem, Push(r, t, q, i)
      PROVE  FlagsInv' /\ NoOverwrite
  BY <1>4, PushStep
<1>5. ASSUME NEW r \in Rank, NEW t \in Cta, NEW q \in Rank, NEW i \in Elem, Gather(r, t, q, i)
      PROVE  FlagsInv' /\ NoOverwrite
  BY <1>5, GatherStep
<1>6. ASSUME NEW r \in Rank, NEW t \in Cta, Refill(r, t) PROVE FlagsInv' /\ NoOverwrite
  BY <1>6, RefillStep
<1>7. ASSUME NEW r \in Rank, NEW t \in Cta, NEW i \in Elem, Reduce(r, t, i)
      PROVE  FlagsInv' /\ NoOverwrite
  BY <1>7, ReduceStep
<1>8. ASSUME NEW r \in Rank, AdvanceEpoch(r) PROVE FlagsInv' /\ NoOverwrite
  BY <1>8, AdvanceStep
<1>9. ASSUME NEW r \in Rank, NEW t \in Cta, Trap(r, t) PROVE FlagsInv' /\ NoOverwrite
  <2>1. trapped' \subseteq Rank
    BY <1>9 DEF Trap, FlagsInv, Control, TypeOK
  <2> QED
    BY <1>9, <2>1, StandStill DEF Trap
<1>10. ASSUME UNCHANGED vars PROVE FlagsInv' /\ NoOverwrite
  <2>1. trapped' \subseteq Rank
    BY <1>10 DEF vars, FlagsInv, Control, TypeOK
  <2> QED
    BY <1>10, <2>1, StandStill DEF vars
<1> QED
  BY <1>1, <1>2, <1>3, <1>4, <1>5, <1>6, <1>7, <1>8, <1>9, <1>10
     DEF Next, Progress, CtaProgress

-----------------------------------------------------------------------------
LEMMA InvImplies ==
    ASSUME FlagsInv
    PROVE  TypeOK /\ ReturnedIsExact /\ BlamedPeerIsLate
<1>1. TypeOK /\ Control /\ SentOK /\ OutOK
  BY DEF FlagsInv, Control
<1>2. ReturnedIsExact
  BY <1>1 DEF OutOK, OutOf, ReturnedIsExact
<1>3. ASSUME NEW r \in Rank, NEW t \in Cta, NEW q \in Awaited(r, t)
      PROVE  /\ done[q] <= done[r]
             /\ done[q] = done[r] =>
                  \E u \in Cta : phase[q][u] \in
                    (IF phase[r][t] = "reduce" THEN {"idle", "start", "push"}
                     ELSE {"idle", "start", "push", "refill", "reduce"})
  <2> DEFINE k == done[r] + 1
  <2>1. /\ phase[r][t] \in {"reduce", "gather"} /\ phase[r][t] # "idle" /\ phase[r][t] \in Loops
        /\ q \in Rank \ {r} /\ q \in Rank
    BY <1>3 DEF Awaited, Loops
  <2>2. /\ k \in Call /\ k \in Nat /\ done[r] \in Nat /\ done[q] \in Nat /\ done[r] < k
        /\ done[r] <= k /\ k <= done[r] + 2
        /\ Now(r) = plan[k] /\ local[r][t] = Stage(k) /\ plan \in Plans
        /\ todo[r][t] \subseteq ItemsIn(r, k, t, phase[r][t])
    BY <1>1, <2>1, Working, Types
  <2>3. phase[q] \in [Cta -> Phases]
    BY <1>1, <2>1 DEF TypeOK
  <2>4. k - 1 = done[r]
    BY <2>2
  <2> HIDE DEF k
  <2>5. \A a : ~Refilled(r, k, a)
    BY <1>1, <2>2, NotRefilledYet
  <2>6. CASE phase[r][t] = "reduce"
    <3>1. PICK x \in todo[r][t] : Received(r, t, q, x[2]) = {}
      BY <1>3, <2>6 DEF Awaited
    <3>2. PICK i \in Elem : x = <<r, i>> /\ i < Owned(plan[k], r)
      BY <2>2, <2>6, <3>1, ItemsFacts
    <3>3. buf[r][Stage(k)][ScatterAddr(plan[k], q, i)] = {}
      BY <2>2, <3>1, <3>2 DEF Received
    <3>4. ~Pushed(q, k, r, i)
      <4>1. {<<q, k, ElemOf(plan[k], r, i)>>} # {}
        OBVIOUS
      <4>2. i < Owned(plan[k], r) /\ ~Refilled(r, k, ScatterAddr(plan[k], q, i))
        BY <2>5, <3>2
      <4> QED
        BY <1>1, <2>1, <2>2, <3>3, <4>1, <4>2 DEF SentOK
    <3>5. CtaOf(plan[k], i) \in Cta
      BY <2>2, <3>2, ItemHome
    <3>6. /\ ~(done[q] >= k)
          /\ done[q] = done[r] =>
               ~(Place(plan[k], phase[q][CtaOf(plan[k], i)]) > Place(plan[k], "push"))
      BY <2>4, <3>4 DEF Pushed, Has, DoneAt
    <3>7. \A p \in Phases : ~(Place(plan[k], p) > Place(plan[k], "push"))
                              => p \in {"idle", "start", "push"}
      BY DEF Phases, Place
    <3>8. done[q] <= done[r]
      BY <2>2, <2>4, <3>6
    <3> QED
      BY <2>3, <2>6, <3>5, <3>6, <3>7, <3>8
  <2>7. CASE phase[r][t] = "gather"
    <3>1. PICK i \in Elem : /\ <<q, i>> \in todo[r][t]
                            /\ buf[r][local[r][t]][GatherAddr(Now(r), q, i)] = {}
      BY <1>3, <2>7 DEF Awaited
    <3>2. i < Owned(plan[k], q) /\ plan[k].kind # "one_shot"
      BY <2>2, <2>7, <3>1, ItemsFacts
    <3>3. buf[r][Stage(k)][GatherAddr(plan[k], q, i)] = {}
      BY <2>2, <3>1
    <3>4. ~Summed(q, k, i)
      <4>1. SumOfElem(k, ElemOf(plan[k], q, i)) # {}
        BY <2>1 DEF SumOfElem
      <4> QED
        BY <1>1, <2>1, <2>2, <2>5, <3>2, <3>3, <4>1 DEF SentOK
    <3>5. CtaOf(plan[k], i) \in Cta
      BY <2>1, <2>2, <3>2, ItemHome
    <3>6. /\ ~(done[q] >= k)
          /\ done[q] = done[r] =>
               ~(Place(plan[k], phase[q][CtaOf(plan[k], i)]) > Place(plan[k], "reduce"))
      BY <2>4, <3>4 DEF Summed, Has, DoneAt
    <3>7. \A p \in Phases : ~(Place(plan[k], p) > Place(plan[k], "reduce"))
                              => p \in {"idle", "start", "push", "refill", "reduce"}
      BY DEF Phases, Place
    <3>8. done[q] <= done[r]
      BY <2>2, <2>4, <3>6
    <3> QED
      BY <2>3, <2>7, <3>5, <3>6, <3>7, <3>8
  <2> QED
    BY <2>1, <2>6, <2>7
<1>4. BlamedPeerIsLate
  BY <1>3 DEF BlamedPeerIsLate
<1> QED
  BY <1>1, <1>2, <1>4

(* Every variable keeps to its type: no call beyond the last is issued, no  *)
(* epoch word or slot address leaves its range.                             *)
THEOREM TypeCorrect == Spec => []TypeOK
<1>1. FlagsInv /\ [Next]_vars => FlagsInv'
  BY FlagsStep
<1> QED
  BY <1>1, FlagsInit, InvImplies, PTL DEF Spec

(* The invariant holds in every reachable state: each CTA works on its own  *)
(* items in the stage of its call, items are pushed, summed and gathered in *)
(* that order, a slot holds what was sent there and not yet re-filled, and  *)
(* nothing else.                                                            *)
THEOREM InvariantHolds == Spec => []FlagsInv
<1>1. FlagsInv /\ [Next]_vars => FlagsInv'
  BY FlagsStep
<1> QED
  BY <1>1, FlagsInit, PTL DEF Spec

(* A call that returns has summed exactly one contribution of every rank to *)
(* this call in every element, whatever kernels and sizes the calls use.    *)
THEOREM ReturnsAreExact == Spec => []ReturnedIsExact
<1>1. FlagsInv /\ [Next]_vars => FlagsInv'
  BY FlagsStep
<1> QED
  BY <1>1, FlagsInit, InvImplies, PTL DEF Spec

(* A wait is unsatisfied only for a peer that has not yet run the matching  *)
(* phase of the same call, so the error record names a rank that is late.   *)
THEOREM BlameIsFair == Spec => []BlamedPeerIsLate
<1>1. FlagsInv /\ [Next]_vars => FlagsInv'
  BY FlagsStep
<1> QED
  BY <1>1, FlagsInit, InvImplies, PTL DEF Spec

(* No pack is ever stored over a pack that has not been re-filled.          *)
THEOREM NothingIsOverwritten == Spec => PushLandsOnSentinel
<1>1. FlagsInv /\ [Next]_vars => FlagsInv' /\ NoOverwrite
  BY FlagsStep
<1>2. NoOverwrite => [\A r \in Rank, s \in 0..2, a \in Addr :
                        buf'[r][s][a] # {} => buf[r][s][a] \in {{}, buf'[r][s][a]}]_vars
  BY DEF NoOverwrite
<1> QED
  BY <1>1, <1>2, FlagsInit, PTL DEF Spec, PushLandsOnSentinel

-----------------------------------------------------------------------------
(* The implementation of the abstract all-reduce. *)
LEMMA RefineInit == Init => Abstract!Init
<1> SUFFICES ASSUME Init PROVE Abstract!Init
  OBVIOUS
<1>1. /\ done = [r \in Rank |-> 0]
      /\ \A r \in Rank : Begun(r) = 0 /\ \A e \in Elem, q \in Rank : CallIn(r, e, q) = 0
  BY DEF Init, Between, Begun, CallIn
<1> QED
  BY <1>1 DEF Abstract!Init, Abstract!NoResult

(* A step that neither starts nor finishes a call is a stutter.             *)
LEMMA RefineStutter ==
    ASSUME UNCHANGED <<plan, done>>,
           \A r \in Rank : Between(r)' <=> Between(r),
           \A r \in Rank : Between(r) => out'[r] = out[r]
    PROVE  UNCHANGED Abstract!vars
<1>1. \A r \in Rank : Begun(r)' = Begun(r)
  BY DEF Begun
<1>2. ASSUME NEW r \in Rank, NEW e \in Elem, NEW q \in Rank
      PROVE  CallIn(r, e, q)' = CallIn(r, e, q)
  BY DEF CallIn, Elements
<1> QED
  BY <1>1, <1>2 DEF Abstract!vars

(* A CTA's step does not begin or end its call.                             *)
LEMMA CtaStutter ==
    ASSUME UNCHANGED <<plan, done>>, NEW r \in Rank, NEW t \in Cta,
           phase[r][t] # "idle", phase'[r][t] # "idle",
           \A q \in Rank, u \in Cta : q # r \/ u # t => phase'[q][u] = phase[q][u],
           \A q \in Rank : q # r => out'[q] = out[q]
    PROVE  UNCHANGED Abstract!vars
<1>1. \A q \in Rank : Between(q)' <=> Between(q)
  BY DEF Between
<1>2. \A q \in Rank : Between(q) => out'[q] = out[q]
  BY DEF Between
<1> QED
  BY <1>1, <1>2, RefineStutter

LEMMA ItemStutter ==
    ASSUME FlagsInv, NEW r \in Rank, NEW t \in Cta, phase[r][t] \in Loops, NEW x \in todo[r][t],
           ItemDone(r, t, x), UNCHANGED <<plan, done, w0, written, local>>,
           \A q \in Rank : q # r => out'[q] = out[q]
    PROVE  UNCHANGED Abstract!vars
<1>1. Control /\ phase[r][t] # "idle"
  BY PhasePlaces DEF FlagsInv
<1>2. /\ phase'[r][t] # "idle"
      /\ \A q \in Rank, u \in Cta : q # r \/ u # t => phase'[q][u] = phase[q][u]
  BY <1>1, ItemControl
<1> QED
  BY <1>1, <1>2, CtaStutter

LEMMA RefineBegin ==
    ASSUME FlagsInv, NEW r \in Rank, Start(r)
    PROVE  Abstract!Begin(r)
<1>1. /\ plan' = plan /\ done' = done /\ Between(r)
      /\ phase' = [phase EXCEPT ![r] = [t \in Cta |-> IF t \in Grid(Now(r)) THEN "start" ELSE "end"]]
      /\ out' = [out EXCEPT ![r] = NoOutput]
  BY DEF Start, Between
<1>2. /\ phase \in [Rank -> [Cta -> Phases]] /\ out \in [Rank -> [Elem -> SUBSET Contribution]]
      /\ \A q \in Rank : done[q] \in Nat
  BY Types DEF FlagsInv, Control, TypeOK
<1>3. ~Between(r)'
  BY <1>1, <1>2, CtaZero DEF Between
<1>4. \A q \in Rank : q # r => (Between(q)' <=> Between(q)) /\ out'[q] = out[q]
  BY <1>1, <1>2 DEF Between
<1>5. \A q \in Rank : Begun(q)' = IF q = r THEN Begun(r) + 1 ELSE Begun(q)
  BY <1>1, <1>3, <1>4 DEF Begun
<1>6. ASSUME NEW q \in Rank, NEW e \in Elem, NEW p \in Rank
      PROVE  CallIn(q, e, p)' = IF q = r THEN 0 ELSE CallIn(q, e, p)
  BY <1>1, <1>3, <1>4 DEF CallIn, Elements
<1>7. Begun(r) = done[r]
  BY <1>1 DEF Begun
<1> QED
  BY <1>1, <1>5, <1>6, <1>7 DEF Abstract!Begin, Abstract!NoResult

(* A call can finish only once every rank has begun it: each rank has       *)
(* pushed to the owner of the last partition, or is that owner.             *)
LEMMA AllHaveBegun ==
    ASSUME TypeOK, OrderOK, NEW r \in Rank, done[r] + 1 \in Call,
           \A t \in Cta : phase[r][t] = "end", NEW q \in Rank
    PROVE  Begun(q) >= done[r] + 1
<1> DEFINE k == done[r] + 1
           o == IF plan[k].kind = "one_shot" THEN r ELSE R - 1
<1>1. /\ k \in Nat /\ k \in Call /\ k - 1 = done[r] /\ plan[k] \in Message
      /\ done[q] \in Nat /\ plan \in Plans
  BY Types
<1>2. o \in Rank /\ 0 < Owned(plan[k], o) /\ 0 \in Elem
  BY <1>1, Constants, OwnedFacts, IndexFacts
<1> HIDE DEF k
<1>3. CtaOf(plan[k], 0) \in Cta
  BY <1>1, <1>2, ItemHome
<1>4. Summed(r, k, 0) /\ Gathered(r, k, o, 0)
  BY <1>1, <1>3, DoneAtEnds DEF Summed, Gathered, Has, Loops
<1>5. Summed(o, k, 0)
  <2>1. CASE o = r
    BY <1>4, <2>1
  <2>2. CASE o # r
    <3>1. plan[k].kind # "one_shot"
      BY <2>2
    <3> HIDE DEF o
    <3> QED
      BY <1>1, <1>2, <1>4, <2>2, <3>1 DEF OrderOK
  <2> QED
    BY <2>1, <2>2
<1> HIDE DEF o
<1>6. \E x : \E loop \in Loops : Has(q, k, CtaOf(plan[k], 0), loop, x)
  <2>1. CASE q = o
    BY <1>5, <2>1 DEF Summed, Loops
  <2>2. CASE q # o
    <3>1. Pushed(q, k, o, 0)
      BY <1>1, <1>2, <1>5, <2>2 DEF OrderOK
    <3> QED
      BY <3>1 DEF Pushed, Loops
  <2> QED
    BY <2>1, <2>2
<1>7. done[q] >= k \/ (done[q] = k - 1 /\ ~Between(q))
  BY <1>3, <1>6, DoneAtEnds DEF Has, Between
<1>8. Begun(q) >= k
  BY <1>1, <1>7 DEF Begun
<1> QED
  BY <1>8 DEF k

LEMMA RefineFinish ==
    ASSUME FlagsInv, FlagsInv', NEW r \in Rank, Return(r)
    PROVE  Abstract!Finish(r)
<1>1. /\ TypeOK /\ Control /\ OrderOK
      /\ \A t \in Cta : phase[r][t] = "end"
      /\ UNCHANGED <<plan, out>>
  BY DEF FlagsInv, Control, Return
<1>2. /\ done'[r] = done[r] + 1 /\ done[r] \in Nat /\ done[r] + 1 \in Call
      /\ \A q \in Rank : q # r => done'[q] = done[q] /\ phase'[q] = phase[q]
      /\ \A t \in Cta : phase'[r][t] = "idle"
      /\ done' = [done EXCEPT ![r] = done[r] + 1]
  BY <1>1, ReturnControl DEF Return
<1>3. ~Between(r) /\ Between(r)' /\ Begun(r) = done[r] + 1
  BY <1>1, <1>2, CtaZero DEF Between, Begun
<1>4. \A q \in Rank : Begun(q) >= Begun(r)
  BY <1>1, <1>2, <1>3, AllHaveBegun
<1>5. \A q \in Rank : Begun(q)' = Begun(q)
  BY <1>2, <1>3 DEF Begun, Between
<1>6. ASSUME NEW q \in Rank, q # r, NEW e \in Elem, NEW p \in Rank
      PROVE  CallIn(q, e, p)' = CallIn(q, e, p)
  BY <1>1, <1>2, <1>6 DEF CallIn, Between, Elements
<1>7. ASSUME NEW e \in Elem, NEW p \in Rank
      PROVE  CallIn(r, e, p)' = done[r] + 1
  <2>1. OutOf(r)'
    BY DEF FlagsInv, OutOK
  <2>2. e \in Elements(done[r])' => out'[r][e] = SumOfElem(done[r], e)'
    BY <1>2, <2>1 DEF OutOf
  <2>3. e \in Elements(done[r])' => <<p, done'[r], e>> \in out'[r][e]
    BY <2>2 DEF SumOfElem
  <2> QED
    BY <1>2, <1>3, <2>3 DEF CallIn
<1>8. done[r] < Begun(r)
  BY <1>2, <1>3
<1>9. [q \in Rank |-> Begun(q)]' = [q \in Rank |-> Begun(q)]
  BY <1>5
<1>10. [q \in Rank |-> [e \in Elem |-> [p \in Rank |-> CallIn(q, e, p)]]]' =
         [[q \in Rank |-> [e \in Elem |-> [p \in Rank |-> CallIn(q, e, p)]]]
            EXCEPT ![r] = [e \in Elem |-> [p \in Rank |-> Begun(r)]]]
  BY <1>3, <1>6, <1>7
<1> QED
  BY <1>2, <1>3, <1>4, <1>8, <1>9, <1>10 DEF Abstract!Finish, Abstract!SumOf

(* Every step is a step or a stutter of the abstract all-reduce.            *)
LEMMA RefineStep ==
    ASSUME FlagsInv, FlagsInv', [Next]_vars
    PROVE  [Abstract!Next]_(Abstract!vars)
<1>a. Control /\ out \in [Rank -> [Elem -> SUBSET Contribution]]
  BY DEF FlagsInv, Control, TypeOK
<1>1. ASSUME NEW r \in Rank, Start(r) PROVE Abstract!Next
  BY <1>1, RefineBegin DEF Abstract!Next
<1>2. ASSUME NEW r \in Rank, Return(r) PROVE Abstract!Next
  BY <1>2, RefineFinish DEF Abstract!Next
<1>3. ASSUME NEW r \in Rank, NEW t \in Cta, ReadStage(r, t) PROVE UNCHANGED Abstract!vars
  BY <1>a, <1>3, ReadStageControl, CtaStutter DEF ReadStage, In
<1>4. ASSUME NEW r \in Rank, NEW t \in Cta, NEW q \in Rank, NEW i \in Elem, Push(r, t, q, i)
      PROVE  UNCHANGED Abstract!vars
  <2>1. /\ phase[r][t] \in Loops /\ <<q, i>> \in todo[r][t] /\ ItemDone(r, t, <<q, i>>)
        /\ UNCHANGED <<plan, done, w0, written, local, out>>
    BY <1>4 DEF Push, In, Loops
  <2> QED
    BY <2>1, ItemStutter
<1>5. ASSUME NEW r \in Rank, NEW t \in Cta, NEW q \in Rank, NEW i \in Elem, Gather(r, t, q, i)
      PROVE  UNCHANGED Abstract!vars
  <2>1. /\ phase[r][t] \in Loops /\ <<q, i>> \in todo[r][t] /\ ItemDone(r, t, <<q, i>>)
        /\ UNCHANGED <<plan, done, w0, written, local>>
        /\ \A p \in Rank : p # r => out'[p] = out[p]
    BY <1>a, <1>5 DEF Gather, In, Loops
  <2> QED
    BY <2>1, ItemStutter
<1>6. ASSUME NEW r \in Rank, NEW t \in Cta, Refill(r, t) PROVE UNCHANGED Abstract!vars
  <2>1. PICK x \in todo[r][t] : ItemDone(r, t, x)
    BY <1>6 DEF Refill
  <2>2. phase[r][t] \in Loops /\ UNCHANGED <<plan, done, w0, written, local, out>>
    BY <1>6 DEF Refill, In, Loops
  <2> QED
    BY <2>1, <2>2, ItemStutter
<1>7. ASSUME NEW r \in Rank, NEW t \in Cta, NEW i \in Elem, Reduce(r, t, i)
      PROVE  UNCHANGED Abstract!vars
  <2>1. /\ phase[r][t] \in Loops /\ <<r, i>> \in todo[r][t] /\ ItemDone(r, t, <<r, i>>)
        /\ UNCHANGED <<plan, done, w0, written, local>>
        /\ \A p \in Rank : p # r => out'[p] = out[p]
    BY <1>a, <1>7 DEF Reduce, In, Loops
  <2> QED
    BY <2>1, ItemStutter
<1>8. ASSUME NEW r \in Rank, AdvanceEpoch(r) PROVE UNCHANGED Abstract!vars
  BY <1>a, <1>8, AdvanceControl, CtaStutter, CtaZero DEF AdvanceEpoch, In
<1>9. ASSUME UNCHANGED <<plan, done, phase, out>> PROVE UNCHANGED Abstract!vars
  BY <1>9, RefineStutter DEF Between
<1>10. ASSUME NEW r \in Rank, NEW t \in Cta, Trap(r, t) PROVE UNCHANGED Abstract!vars
  BY <1>9, <1>10 DEF Trap
<1>11. ASSUME UNCHANGED vars PROVE UNCHANGED Abstract!vars
  BY <1>9, <1>11 DEF vars
<1> QED
  BY <1>1, <1>2, <1>3, <1>4, <1>5, <1>6, <1>7, <1>8, <1>10, <1>11
     DEF Next, Progress, CtaProgress

(* The three kernels, in any mixture a workload selects, implement the      *)
(* abstract all-reduce.                                                     *)
THEOREM FlagsImplementAllReduce == Spec => ImplementsAllReduce
<1>1. FlagsInv /\ [Next]_vars => FlagsInv'
  BY FlagsStep
<1>2. FlagsInv /\ FlagsInv' /\ [Next]_vars => [Abstract!Next]_(Abstract!vars)
  BY RefineStep
<1> QED
  BY <1>1, <1>2, FlagsInit, RefineInit, PTL
     DEF Spec, ImplementsAllReduce, Abstract!Spec
=============================================================================
