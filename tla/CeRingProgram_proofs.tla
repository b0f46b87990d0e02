------------------------ MODULE CeRingProgram_proofs ------------------------
(***************************************************************************)
(* Facts about the programs of CeRingAllReduce, for any number of ranks:   *)
(* which operation stands where, who signals a flag, what a wait and a     *)
(* copy have before them, what a program's values are.                     *)
(***************************************************************************)
EXTENDS CeRingInvariant, TLAPS, SequenceTheorems

Place == {In(r, j) : r \in Rank, j \in Rank} \cup Location
Operation ==
    [op : {"set"}, rank : Rank, flag : Flag]
      \cup [op : {"wait"}, flag : Flag]
      \cup [op : {"copy"}, dst : Location, src : Place]
      \cup [op : {"sum"}, dst : Location, parts : SUBSET Place]

-----------------------------------------------------------------------------
(* Residues of the sums and differences of ranks. *)

(* W is a natural number above 1. *)
LEMMA WType == W \in Nat /\ W >= 2 /\ W - 1 \in Nat /\ Steps \in Nat /\ Steps = 2 * W - 2
  BY CeRingAssumption DEF Steps

(* A residue is the number itself within one period of it. *)
LEMMA ModOne ==
  ASSUME NEW a \in Int
  PROVE  /\ a \in 0 .. W - 1 => a % W = a
         /\ a \in -W .. -1 => a % W = a + W
         /\ a \in W .. 2 * W - 1 => a % W = a - W
  BY CeRingAssumption

(* A residue is a rank. *)
LEMMA ModRank == ASSUME NEW a \in Int PROVE a % W \in Rank
  BY CeRingAssumption DEF Rank

(* The distance between two ranks. *)
LEMMA Distance ==
  ASSUME NEW s \in Rank, NEW q \in Rank
  PROVE  (s - q) % W = IF s >= q THEN s - q ELSE s - q + W
  <1>1. s - q \in Int /\ W \in Nat /\ s \in 0 .. W - 1 /\ q \in 0 .. W - 1
    BY WType DEF Rank
  <1>2. CASE s >= q
    <2>1. s - q \in 0 .. W - 1
      BY <1>1, <1>2
    <2> QED
      BY <1>1, <1>2, <2>1, ModOne
  <1>3. CASE ~(s >= q)
    <2>1. s - q \in -W .. -1
      BY <1>1, <1>3
    <2> QED
      BY <1>1, <1>3, <2>1, ModOne
  <1> QED
    BY <1>2, <1>3

(* A rank some places on. *)
LEMMA Onward ==
  ASSUME NEW r \in Rank, NEW i \in 0 .. W
  PROVE  (r + i) % W = IF r + i < W THEN r + i ELSE r + i - W
  <1>1. r + i \in Int /\ W \in Nat /\ r \in 0 .. W - 1 /\ i \in 0 .. W
    BY WType DEF Rank
  <1>2. CASE r + i < W
    <2>1. r + i \in 0 .. W - 1
      BY <1>1, <1>2
    <2> QED
      BY <1>1, <1>2, <2>1, ModOne
  <1>3. CASE ~(r + i < W)
    <2>1. r + i \in W .. 2 * W - 1
      BY <1>1, <1>3
    <2> QED
      BY <1>1, <1>3, <2>1, ModOne
  <1> QED
    BY <1>2, <1>3

(* A rank some places back. *)
LEMMA Backward ==
  ASSUME NEW r \in Rank, NEW i \in 0 .. W
  PROVE  (r - i) % W = IF r >= i THEN r - i ELSE r - i + W
  <1>1. r - i \in Int /\ W \in Nat /\ r \in 0 .. W - 1 /\ i \in 0 .. W
    BY WType DEF Rank
  <1>2. CASE r >= i
    <2>1. r - i \in 0 .. W - 1
      BY <1>1, <1>2
    <2> QED
      BY <1>1, <1>2, <2>1, ModOne
  <1>3. CASE ~(r >= i)
    <2>1. r - i \in -W .. -1
      BY <1>1, <1>3
    <2> QED
      BY <1>1, <1>3, <2>1, ModOne
  <1> QED
    BY <1>2, <1>3

(* The i-th peer is i places on, and every other rank is some peer. *)
LEMMA Peers ==
  ASSUME NEW r \in Rank
  PROVE  /\ \A i \in Nth : /\ Peer(r, i) \in Rank \ {r}
                           /\ (Peer(r, i) - r) % W = i
                           /\ (r - Peer(r, i)) % W = W - i
         /\ \A q \in Rank \ {r} : /\ (q - r) % W \in Nth
                                  /\ Peer(r, (q - r) % W) = q
         /\ \A i, j \in Nth : Peer(r, i) = Peer(r, j) => i = j
  <1>0. W \in Nat /\ W >= 2 /\ r \in 0 .. W - 1 /\ r \in Nat
    BY WType DEF Rank
  <1>1. ASSUME NEW i \in Nth
        PROVE  /\ Peer(r, i) \in Rank \ {r}
               /\ (Peer(r, i) - r) % W = i
               /\ (r - Peer(r, i)) % W = W - i
    <2>1. i \in 1 .. W - 1 /\ i \in 0 .. W
      BY <1>0 DEF Nth
    <2>2. Peer(r, i) = IF r + i < W THEN r + i ELSE r + i - W
      BY <2>1, Onward DEF Peer
    <2>3. Peer(r, i) \in Rank
      BY <2>2, <2>1, <1>0 DEF Rank
    <2>4. /\ (Peer(r, i) - r) % W = IF Peer(r, i) >= r THEN Peer(r, i) - r ELSE Peer(r, i) - r + W
          /\ (r - Peer(r, i)) % W = IF r >= Peer(r, i) THEN r - Peer(r, i) ELSE r - Peer(r, i) + W
      BY <2>3, Distance
    <2> QED
      BY <2>1, <2>2, <2>3, <2>4, <1>0
  <1>2. ASSUME NEW q \in Rank \ {r}
        PROVE  (q - r) % W \in Nth /\ Peer(r, (q - r) % W) = q
    <2>0. q \in 0 .. W - 1 /\ q # r
      BY DEF Rank
    <2>1. (q - r) % W = IF q >= r THEN q - r ELSE q - r + W
      BY Distance
    <2>2. (q - r) % W \in Nth /\ (q - r) % W \in 0 .. W
      BY <2>0, <2>1, <1>0 DEF Nth
    <2>3. Peer(r, (q - r) % W) = IF r + ((q - r) % W) < W THEN r + ((q - r) % W) ELSE r + ((q - r) % W) - W
      BY <2>2, Onward DEF Peer
    <2> QED
      BY <2>0, <2>1, <2>2, <2>3, <1>0
  <1>3. ASSUME NEW i \in Nth, NEW j \in Nth, Peer(r, i) = Peer(r, j) PROVE i = j
    BY <1>1, <1>3
  <1> QED
    BY <1>1, <1>2, <1>3

-----------------------------------------------------------------------------
(* Sequences put together. *)

(* Concatenation. *)
LEMMA Joined ==
  ASSUME NEW T, NEW s \in Seq(T), NEW t \in Seq(T)
  PROVE  /\ s \o t \in Seq(T)
         /\ Len(s \o t) = Len(s) + Len(t)
         /\ \A i \in 1 .. Len(s) : (s \o t)[i] = s[i]
         /\ \A i \in 1 .. Len(t) : (s \o t)[Len(s) + i] = t[i]
  OBVIOUS

(* A function on 1 .. n is a sequence. *)
LEMMA Tabled ==
  ASSUME NEW T, NEW n \in Nat, NEW F \in [1 .. n -> T]
  PROVE  F \in Seq(T) /\ Len(F) = n
  OBVIOUS

(* Two sequences alternated. *)
IsAlternation(u, a, b, T) ==
    /\ u \in Seq(T) /\ Len(u) = 2 * (W - 1)
    /\ \A i \in Nth : u[2 * i - 1] = a[i] /\ u[2 * i] = b[i]

LEMMA Alternated ==
  ASSUME NEW T, NEW a \in [Nth -> T], NEW b \in [Nth -> T]
  PROVE  IsAlternation(Alternate(a, b), a, b, T)
  <1>0. W - 1 \in Nat /\ 2 * (W - 1) \in Nat
    BY WType
  <1>1. ASSUME NEW i \in 1 .. 2 * (W - 1)
        PROVE  /\ i % 2 = 1 => (i + 1) \div 2 \in Nth
               /\ i % 2 # 1 => i \div 2 \in Nth
    BY <1>0 DEF Nth
  <1>2. Alternate(a, b) \in [1 .. 2 * (W - 1) -> T]
    BY <1>1 DEF Alternate
  <1>3. Alternate(a, b) \in Seq(T) /\ Len(Alternate(a, b)) = 2 * (W - 1)
    BY <1>0, <1>2, Tabled
  <1>4. ASSUME NEW i \in Nth
        PROVE  /\ Alternate(a, b)[2 * i - 1] = a[i]
               /\ Alternate(a, b)[2 * i] = b[i]
    <2>1. /\ i \in Int /\ 2 * i - 1 \in 1 .. 2 * (W - 1) /\ 2 * i \in 1 .. 2 * (W - 1)
          /\ (2 * i - 1) % 2 = 1 /\ (2 * i - 1 + 1) \div 2 = i
          /\ (2 * i) % 2 # 1 /\ (2 * i) \div 2 = i
      BY <1>0 DEF Nth
    <2> QED
      BY <2>1 DEF Alternate
  <1> QED
    BY <1>3, <1>4 DEF IsAlternation
-----------------------------------------------------------------------------
(* The ring's program. *)

(* Shards and slots that occur. *)
LEMMA RingPlaces ==
  ASSUME NEW r \in Rank, NEW k \in 0 .. Steps - 1
  PROVE  /\ (r + 1) % W \in Rank /\ (r - 1) % W \in Rank
         /\ RingSend(r, k) \in Rank /\ RingRecv(r, k) \in Rank
         /\ k \in Flag /\ Ready \in Flag
         /\ Slot((r + 1) % W, k) \in Location /\ Slot(r, k) \in Location
         /\ Out(r, RingSend(r, k)) \in Location /\ Out(r, RingRecv(r, k)) \in Location
         /\ In(r, RingSend(r, k)) \in Place /\ In(r, RingRecv(r, k)) \in Place
  <1>1. r \in Int /\ k \in Int /\ W \in Int
    BY WType DEF Rank
  <1>2. /\ (r + 1) % W \in Rank /\ (r - 1) % W \in Rank
        /\ RingSend(r, k) \in Rank /\ RingRecv(r, k) \in Rank
    <2>1. /\ r + 1 \in Int /\ r - 1 \in Int /\ r - k \in Int /\ r - k - 1 \in Int
          /\ r + 1 - (k - (W - 1)) \in Int /\ r - (k - (W - 1)) \in Int
      BY <1>1
    <2>2. /\ (r + 1) % W \in Rank /\ (r - 1) % W \in Rank
          /\ (r - k) % W \in Rank /\ (r - k - 1) % W \in Rank
          /\ (r + 1 - (k - (W - 1))) % W \in Rank /\ (r - (k - (W - 1))) % W \in Rank
      BY <2>1, ModRank
    <2> QED
      BY <2>2 DEF RingSend, RingRecv
  <1>3. k \in Flag /\ Ready \in Flag
    BY WType DEF Flag, Ready
  <1> QED
    BY <1>2, <1>3 DEF Location, Place

RingSrc(r, k) == IF k = 0 THEN In(r, RingSend(r, k)) ELSE Out(r, RingSend(r, k))
RingEnd(r, k) ==
    IF k < W - 1 THEN Sum(Out(r, RingRecv(r, k)), {In(r, RingRecv(r, k)), Slot(r, k)})
                 ELSE Copy(Out(r, RingRecv(r, k)), Slot(r, k))

LEMMA RingStepAt ==
  ASSUME NEW r \in Rank, NEW k \in 0 .. Steps - 1
  PROVE  /\ RingStep(r, k)[1] = Copy(Slot((r + 1) % W, k), RingSrc(r, k))
         /\ RingStep(r, k)[2] = SetFlag((r + 1) % W, k)
         /\ RingStep(r, k)[3] = WaitFlag(k)
         /\ RingStep(r, k)[4] = RingEnd(r, k)
         /\ \A i \in 1 .. 4 : RingStep(r, k)[i] \in Operation
  <1>1. /\ RingStep(r, k)[1] = Copy(Slot((r + 1) % W, k), RingSrc(r, k))
        /\ RingStep(r, k)[2] = SetFlag((r + 1) % W, k)
        /\ RingStep(r, k)[3] = WaitFlag(k)
        /\ RingStep(r, k)[4] = RingEnd(r, k)
    BY DEF RingStep, RingSrc, RingEnd
  <1>2. RingSrc(r, k) \in Place /\ Slot(r, k) \in Place
    BY RingPlaces DEF RingSrc, Place
  <1>3. Copy(Slot((r + 1) % W, k), RingSrc(r, k)) \in Operation
    BY <1>2, RingPlaces DEF Copy, Operation
  <1>4. SetFlag((r + 1) % W, k) \in Operation /\ WaitFlag(k) \in Operation
    BY RingPlaces DEF SetFlag, WaitFlag, Operation
  <1>5. RingEnd(r, k) \in Operation
    <2>1. Sum(Out(r, RingRecv(r, k)), {In(r, RingRecv(r, k)), Slot(r, k)}) \in Operation
      BY <1>2, RingPlaces DEF Sum, Operation
    <2>2. Copy(Out(r, RingRecv(r, k)), Slot(r, k)) \in Operation
      BY <1>2, RingPlaces DEF Copy, Operation
    <2> QED
      BY <2>1, <2>2 DEF RingEnd
  <1> QED
    BY <1>1, <1>3, <1>4, <1>5

(* What stands where in the ring's program. *)
LEMMA RingAt ==
  ASSUME NEW r \in Rank
  PROVE  /\ RingOps(r) \in Seq(Operation)
         /\ Len(RingOps(r)) = 2 + 4 * Steps
         /\ RingOps(r)[1] = SetFlag((r - 1) % W, Ready)
         /\ RingOps(r)[2] = WaitFlag(Ready)
         /\ \A k \in 0 .. Steps - 1 :
              /\ RingOps(r)[3 + 4 * k] = Copy(Slot((r + 1) % W, k), RingSrc(r, k))
              /\ RingOps(r)[4 + 4 * k] = SetFlag((r + 1) % W, k)
              /\ RingOps(r)[5 + 4 * k] = WaitFlag(k)
              /\ RingOps(r)[6 + 4 * k] = RingEnd(r, k)
  <1> DEFINE head == << SetFlag((r - 1) % W, Ready), WaitFlag(Ready) >>
  <1>0. Steps \in Nat /\ Steps > 0 /\ 4 * Steps \in Nat
    BY WType
  <1>1. head \in Seq(Operation) /\ Len(head) = 2
        /\ head[1] = SetFlag((r - 1) % W, Ready) /\ head[2] = WaitFlag(Ready)
    <2>1. 0 \in 0 .. Steps - 1
      BY <1>0
    <2>2. SetFlag((r - 1) % W, Ready) \in Operation /\ WaitFlag(Ready) \in Operation
      BY <2>1, RingPlaces DEF SetFlag, WaitFlag, Operation
    <2> QED
      BY <2>2
  <1>2. \A i \in 1 .. 4 * Steps : (i - 1) \div 4 \in 0 .. Steps - 1 /\ ((i - 1) % 4) + 1 \in 1 .. 4
    BY <1>0
  <1>3. RingSteps(r) \in [1 .. 4 * Steps -> Operation]
    BY <1>2, RingStepAt DEF RingSteps
  <1>4. RingSteps(r) \in Seq(Operation) /\ Len(RingSteps(r)) = 4 * Steps
    BY <1>0, <1>3, Tabled
  <1>5. RingOps(r) = head \o RingSteps(r)
    BY DEF RingOps
  <1> HIDE DEF head
  <1>5a. head \in Seq(Operation)
     BY <1>1
  <1>5b. RingSteps(r) \in Seq(Operation)
     BY <1>4
  <1>6. /\ RingOps(r) \in Seq(Operation)
        /\ Len(RingOps(r)) = 2 + 4 * Steps
        /\ \A i \in 1 .. 2 : RingOps(r)[i] = head[i]
        /\ \A i \in 1 .. 4 * Steps : RingOps(r)[2 + i] = RingSteps(r)[i]
    <2>1. /\ head \o RingSteps(r) \in Seq(Operation)
          /\ Len(head \o RingSteps(r)) = Len(head) + Len(RingSteps(r))
          /\ \A i \in 1 .. Len(head) : (head \o RingSteps(r))[i] = head[i]
          /\ \A i \in 1 .. Len(RingSteps(r)) : (head \o RingSteps(r))[Len(head) + i] = RingSteps(r)[i]
      BY <1>5a, <1>5b, Joined
    <2> QED
      BY <2>1, <1>1, <1>4, <1>5
  <1>7. ASSUME NEW k \in 0 .. Steps - 1, NEW m \in 1 .. 4
        PROVE  RingOps(r)[2 + m + 4 * k] = RingStep(r, k)[m]
    <2>1. /\ 4 * k + m \in 1 .. 4 * Steps
          /\ (4 * k + m - 1) \div 4 = k /\ ((4 * k + m - 1) % 4) + 1 = m
          /\ 2 + m + 4 * k = 2 + (4 * k + m)
      BY <1>0
    <2> QED
      BY <2>1, <1>6 DEF RingSteps
  <1>8. ASSUME NEW k \in 0 .. Steps - 1
        PROVE  /\ RingOps(r)[3 + 4 * k] = Copy(Slot((r + 1) % W, k), RingSrc(r, k))
               /\ RingOps(r)[4 + 4 * k] = SetFlag((r + 1) % W, k)
               /\ RingOps(r)[5 + 4 * k] = WaitFlag(k)
               /\ RingOps(r)[6 + 4 * k] = RingEnd(r, k)
    <2>1. 2 + 1 = 3 /\ 2 + 2 = 4 /\ 2 + 3 = 5 /\ 2 + 4 = 6
      OBVIOUS
    <2> QED
      BY <2>1, <1>7, RingStepAt
  <1> QED
    BY <1>1, <1>6, <1>8

(* Every index of the ring's program is one of those. *)
LEMMA RingShape ==
  ASSUME NEW i \in 1 .. 2 + 4 * Steps
  PROVE  \/ i = 1 \/ i = 2
         \/ \E k \in 0 .. Steps - 1 : i \in {3 + 4 * k, 4 + 4 * k, 5 + 4 * k, 6 + 4 * k}
  <1>0. Steps \in Nat
    BY WType
  <1>1. CASE i > 2
    <2>1. (i - 3) \div 4 \in 0 .. Steps - 1 /\ i - 3 = 4 * ((i - 3) \div 4) + ((i - 3) % 4) /\ (i - 3) % 4 \in 0 .. 3
      BY <1>0, <1>1
    <2> QED
      BY <2>1
  <1> QED
    BY <1>0, <1>1

-----------------------------------------------------------------------------
(* The owner sum's program. *)

(* Concatenation of sequences of known lengths. *)
IsJoin(u, s, t, m, n, T) ==
    /\ u \in Seq(T) /\ Len(u) = m + n
    /\ \A i \in 1 .. m : u[i] = s[i]
    /\ \A i \in 1 .. n : u[m + i] = t[i]

LEMMA JoinedAt ==
  ASSUME NEW T, NEW s \in Seq(T), NEW t \in Seq(T),
         NEW m \in Nat, NEW n \in Nat, Len(s) = m, Len(t) = n
  PROVE  IsJoin(s \o t, s, t, m, n, T)
  <1>1. /\ s \o t \in Seq(T) /\ Len(s \o t) = Len(s) + Len(t)
        /\ \A i \in 1 .. Len(s) : (s \o t)[i] = s[i]
        /\ \A i \in 1 .. Len(t) : (s \o t)[Len(s) + i] = t[i]
    BY Joined
  <1> DEFINE u == s \o t
             p == Len(s)
             q == Len(t)
  <1>2. /\ u \in Seq(T) /\ Len(u) = p + q
        /\ \A i \in 1 .. p : u[i] = s[i]
        /\ \A i \in 1 .. q : u[p + i] = t[i]
    BY <1>1
  <1>3. p = m /\ q = n
    OBVIOUS
  <1> HIDE DEF u, p, q
  <1>4. /\ u \in Seq(T) /\ Len(u) = m + n
        /\ \A i \in 1 .. m : u[i] = s[i]
        /\ \A i \in 1 .. n : u[m + i] = t[i]
    BY <1>2, <1>3
  <1> QED
    BY <1>4 DEF u, IsJoin

(* Seven sequences of the lengths of its sections, joined. *)
AreJoined(s, a, b, c, d, e, f, g, n, T) ==
    /\ s \in Seq(T) /\ Len(s) = 9 * n + 1
    /\ \A i \in 1 .. n : s[i] = a[i]
    /\ \A i \in 1 .. n : s[n + i] = b[i]
    /\ \A i \in 1 .. 2 * n : s[2 * n + i] = c[i]
    /\ \A i \in 1 .. n : s[4 * n + i] = d[i]
    /\ s[5 * n + 1] = e[1]
    /\ \A i \in 1 .. 2 * n : s[5 * n + 1 + i] = f[i]
    /\ \A i \in 1 .. 2 * n : s[7 * n + 1 + i] = g[i]

LEMMA SevenJoined ==
  ASSUME NEW T, NEW n \in Nat,
         NEW a \in Seq(T), NEW b \in Seq(T), NEW c \in Seq(T), NEW d \in Seq(T),
         NEW e \in Seq(T), NEW f \in Seq(T), NEW g \in Seq(T),
         Len(a) = n, Len(b) = n, Len(c) = 2 * n, Len(d) = n, Len(e) = 1,
         Len(f) = 2 * n, Len(g) = 2 * n,
         NEW s, s = a \o b \o c \o d \o e \o f \o g
  PROVE  AreJoined(s, a, b, c, d, e, f, g, n, T)
  <1> DEFINE ab == a \o b
             abc == ab \o c
             abcd == abc \o d
             abcde == abcd \o e
             abcdef == abcde \o f
             l2 == 2 * n
             l4 == l2 + l2
             l5 == l4 + n
             l6 == l5 + 1
             l8 == l6 + l2
  <1>a. l2 \in Nat /\ l4 \in Nat /\ l5 \in Nat /\ l6 \in Nat /\ l8 \in Nat /\ 1 \in Nat
    OBVIOUS
  <1>b. l2 = n + n /\ l4 = l2 + l2 /\ l5 = l4 + n /\ l6 = l5 + 1 /\ l8 = l6 + l2
    OBVIOUS
  <1>c. Len(c) = l2 /\ Len(f) = l2 /\ Len(g) = l2
    OBVIOUS
  <1>s. s = abcdef \o g
    OBVIOUS
  <1> HIDE DEF l2, l4, l5, l6, l8
  <1>1. /\ ab \in Seq(T) /\ Len(ab) = n + n
        /\ \A i \in 1 .. n : ab[i] = a[i]
        /\ \A i \in 1 .. n : ab[n + i] = b[i]
    <2>1. IsJoin(ab, a, b, n, n, T)
      BY JoinedAt
    <2> QED
      BY <2>1 DEF IsJoin
  <1>1a. ab \in Seq(T) /\ Len(ab) = l2
    BY <1>1, <1>b
  <1> HIDE DEF ab
  <1>2. /\ abc \in Seq(T) /\ Len(abc) = l2 + l2
        /\ \A i \in 1 .. l2 : abc[i] = ab[i]
        /\ \A i \in 1 .. l2 : abc[l2 + i] = c[i]
    <2>1. IsJoin(abc, ab, c, l2, l2, T)
      BY <1>a, <1>c, <1>1a, JoinedAt
    <2> QED
      BY <2>1 DEF IsJoin
  <1>2a. abc \in Seq(T) /\ Len(abc) = l4
    BY <1>2, <1>b
  <1> HIDE DEF abc
  <1>3. /\ abcd \in Seq(T) /\ Len(abcd) = l4 + n
        /\ \A i \in 1 .. l4 : abcd[i] = abc[i]
        /\ \A i \in 1 .. n : abcd[l4 + i] = d[i]
    <2>1. IsJoin(abcd, abc, d, l4, n, T)
      BY <1>a, <1>2a, JoinedAt
    <2> QED
      BY <2>1 DEF IsJoin
  <1>3a. abcd \in Seq(T) /\ Len(abcd) = l5
    BY <1>3, <1>b
  <1> HIDE DEF abcd
  <1>4. /\ abcde \in Seq(T) /\ Len(abcde) = l5 + 1
        /\ \A i \in 1 .. l5 : abcde[i] = abcd[i]
        /\ \A i \in 1 .. 1 : abcde[l5 + i] = e[i]
    <2>1. IsJoin(abcde, abcd, e, l5, 1, T)
      BY <1>a, <1>3a, JoinedAt
    <2> QED
      BY <2>1 DEF IsJoin
  <1>4a. abcde \in Seq(T) /\ Len(abcde) = l6
    BY <1>4, <1>b
  <1> HIDE DEF abcde
  <1>5. /\ abcdef \in Seq(T) /\ Len(abcdef) = l6 + l2
        /\ \A i \in 1 .. l6 : abcdef[i] = abcde[i]
        /\ \A i \in 1 .. l2 : abcdef[l6 + i] = f[i]
    <2>1. IsJoin(abcdef, abcde, f, l6, l2, T)
      BY <1>a, <1>c, <1>4a, JoinedAt
    <2> QED
      BY <2>1 DEF IsJoin
  <1>5a. abcdef \in Seq(T) /\ Len(abcdef) = l8
    BY <1>5, <1>b
  <1> HIDE DEF abcdef
  <1>6. /\ abcdef \o g \in Seq(T) /\ Len(abcdef \o g) = l8 + l2
        /\ \A i \in 1 .. l8 : (abcdef \o g)[i] = abcdef[i]
        /\ \A i \in 1 .. l2 : (abcdef \o g)[l8 + i] = g[i]
    <2>1. IsJoin(abcdef \o g, abcdef, g, l8, l2, T)
      BY <1>a, <1>c, <1>5a, JoinedAt
    <2> QED
      BY <2>1 DEF IsJoin
  <1>7. /\ s \in Seq(T) /\ Len(s) = l8 + l2
        /\ \A i \in 1 .. l8 : s[i] = abcdef[i]
        /\ \A i \in 1 .. l2 : s[l8 + i] = g[i]
    BY <1>6, <1>s
  <1>8. \A i \in 1 .. l6 : i \in 1 .. l8
    BY <1>a, <1>b
  <1>9. \A i \in 1 .. l5 : i \in 1 .. l6
    BY <1>a, <1>b
  <1>10. \A i \in 1 .. l4 : i \in 1 .. l5
    BY <1>a, <1>b
  <1>11. \A i \in 1 .. l2 : i \in 1 .. l4
    BY <1>a, <1>b
  <1>12. \A i \in 1 .. n : i \in 1 .. l2 /\ n + i \in 1 .. l2
    BY <1>a, <1>b
  <1>13. \A i \in 1 .. l2 : l2 + i \in 1 .. l4 /\ l6 + i \in 1 .. l8
    BY <1>a, <1>b
  <1>14. \A i \in 1 .. n : l4 + i \in 1 .. l5
    BY <1>a, <1>b
  <1>15. l5 + 1 \in 1 .. l6 /\ 1 \in 1 .. 1
    BY <1>a, <1>b
  <1>16. \A i \in 1 .. l6 : s[i] = abcde[i]
    BY <1>5, <1>7, <1>8, Zenon
  <1>17. \A i \in 1 .. l5 : s[i] = abcd[i]
    BY <1>4, <1>16, <1>9, Zenon
  <1>18. \A i \in 1 .. l4 : s[i] = abc[i]
    BY <1>3, <1>17, <1>10, Zenon
  <1>19. \A i \in 1 .. l2 : s[i] = ab[i]
    BY <1>2, <1>18, <1>11, Zenon
  <1>20. \A i \in 1 .. n : s[i] = a[i] /\ s[n + i] = b[i]
    BY <1>1, <1>19, <1>12, Zenon
  <1>21. \A i \in 1 .. l2 : s[l2 + i] = c[i]
    BY <1>2, <1>18, <1>13, Zenon
  <1>22. \A i \in 1 .. n : s[l4 + i] = d[i]
    BY <1>3, <1>17, <1>14, Zenon
  <1>23. s[l5 + 1] = e[1]
    BY <1>4, <1>16, <1>15, Zenon
  <1>24. \A i \in 1 .. l2 : s[l6 + i] = f[i]
    BY <1>5, <1>7, <1>13, Zenon
  <1>25. l2 = 2 * n /\ l4 = 4 * n /\ l5 = 5 * n /\ l6 = 5 * n + 1 /\ l8 = 7 * n + 1 /\ l8 + l2 = 9 * n + 1
    BY DEF l2, l4, l5, l6, l8
  <1> QED
    BY <1>7, <1>20, <1>21, <1>22, <1>23, <1>24, <1>25, Zenon DEF AreJoined

(* Which slots and flags an owner sum names. *)
LEMMA OwnerIndices ==
  ASSUME NEW r \in Rank
  PROVE  /\ \A i \in Nth : /\ OwnerReady(Peer(r, i), r) = Steps + i
                           /\ OwnerReady(r, Peer(r, i)) = Steps + W - i
                           /\ SlotIndex(r, Peer(r, i)) = W - 1 - i
                           /\ Gather(r, Peer(r, i)) = 2 * W - 2 - i
                           /\ Gather(Peer(r, i), r) = W + i - 2
         /\ \A s \in Rank \ {r} : SlotIndex(s, r) \in 0 .. W - 2
         /\ \A i \in Nth : Sender(r, i) \in Rank \ {r}
  <1>0. W \in Nat /\ W >= 2 /\ Steps = 2 * W - 2 /\ r \in 0 .. W - 1
    BY WType DEF Rank
  <1>1. ASSUME NEW i \in Nth
        PROVE  /\ OwnerReady(Peer(r, i), r) = Steps + i
               /\ OwnerReady(r, Peer(r, i)) = Steps + W - i
               /\ SlotIndex(r, Peer(r, i)) = W - 1 - i
               /\ Gather(r, Peer(r, i)) = 2 * W - 2 - i
               /\ Gather(Peer(r, i), r) = W + i - 2
    <2>1. (Peer(r, i) - r) % W = i /\ (r - Peer(r, i)) % W = W - i /\ i \in Int
      BY Peers, <1>0 DEF Nth
    <2> QED
      BY <2>1, <1>0 DEF OwnerReady, SlotIndex, Gather
  <1>2. ASSUME NEW s \in Rank \ {r} PROVE SlotIndex(s, r) \in 0 .. W - 2
    <2>1. (s - r) % W \in 1 .. W - 1
      BY Peers DEF Nth
    <2> QED
      BY <2>1, <1>0 DEF SlotIndex
  <1>3. ASSUME NEW i \in Nth PROVE Sender(r, i) \in Rank \ {r}
    BY <1>0 DEF Sender, Nth, Rank
  <1> QED
    BY <1>1, <1>2, <1>3

(* The copy, the signal and so on of an owner sum, by the place of the peer. *)
OwnerSum(r) == Sum(Out(r, r), {In(r, r)} \cup {Slot(r, SlotIndex(s, r)) : s \in Rank \ {r}})

(* The sections of the owner sum's program. *)
LEMMA OwnerSections ==
  ASSUME NEW r \in Rank
  PROVE  LET a == [i \in Nth |-> SetFlag(Peer(r, i), OwnerReady(Peer(r, i), r))]
             b == [i \in Nth |-> WaitFlag(OwnerReady(r, Peer(r, i)))]
             c1 == [i \in Nth |-> Copy(Slot(Peer(r, i), SlotIndex(r, Peer(r, i))), In(r, Peer(r, i)))]
             c2 == [i \in Nth |-> SetFlag(Peer(r, i), SlotIndex(r, Peer(r, i)))]
             d == [i \in Nth |-> WaitFlag(SlotIndex(Sender(r, i), r))]
             f1 == [i \in Nth |-> Copy(Slot(Peer(r, i), Gather(r, Peer(r, i))), Out(r, r))]
             f2 == [i \in Nth |-> SetFlag(Peer(r, i), Gather(r, Peer(r, i)))]
             g1 == [i \in Nth |-> WaitFlag(Gather(Peer(r, i), r))]
             g2 == [i \in Nth |-> Copy(Out(r, Peer(r, i)), Slot(r, Gather(Peer(r, i), r)))]
         IN  /\ a \in [Nth -> Operation] /\ b \in [Nth -> Operation]
             /\ c1 \in [Nth -> Operation] /\ c2 \in [Nth -> Operation]
             /\ d \in [Nth -> Operation]
             /\ f1 \in [Nth -> Operation] /\ f2 \in [Nth -> Operation]
             /\ g1 \in [Nth -> Operation] /\ g2 \in [Nth -> Operation]
             /\ OwnerSum(r) \in Operation
  <1>0. W \in Nat /\ W >= 2 /\ Steps = 2 * W - 2 /\ r \in 0 .. W - 1
    BY WType DEF Rank
  <1>1. ASSUME NEW q \in Rank, NEW f \in Flag
        PROVE  SetFlag(q, f) \in Operation /\ WaitFlag(f) \in Operation
    BY DEF SetFlag, WaitFlag, Operation
  <1>2. ASSUME NEW l \in Location, NEW m \in Place PROVE Copy(l, m) \in Operation
    BY DEF Copy, Operation
  <1>3. ASSUME NEW i \in Nth
        PROVE  /\ Peer(r, i) \in Rank
               /\ Steps + i \in Flag /\ Steps + W - i \in Flag
               /\ W - 1 - i \in Flag /\ 2 * W - 2 - i \in Flag /\ W + i - 2 \in Flag
               /\ SlotIndex(Sender(r, i), r) \in Flag
               /\ W - 1 - i \in 0 .. Steps - 1 /\ 2 * W - 2 - i \in 0 .. Steps - 1
               /\ W + i - 2 \in 0 .. Steps - 1
    <2>1. i \in 1 .. W - 1
      BY DEF Nth
    <2>2. SlotIndex(Sender(r, i), r) \in 0 .. W - 2
      BY OwnerIndices
    <2> QED
      BY <2>1, <2>2, <1>0, Peers DEF Flag
  <1>4. ASSUME NEW q \in Rank, NEW k \in 0 .. Steps - 1
        PROVE  Slot(q, k) \in Location /\ Slot(q, k) \in Place
    BY DEF Location, Place
  <1>5. ASSUME NEW q \in Rank, NEW j \in Rank
        PROVE  Out(q, j) \in Location /\ Out(q, j) \in Place /\ In(q, j) \in Place
    BY DEF Location, Place
  <1>6. ASSUME NEW i \in Nth
        PROVE  /\ SetFlag(Peer(r, i), OwnerReady(Peer(r, i), r)) \in Operation
               /\ WaitFlag(OwnerReady(r, Peer(r, i))) \in Operation
               /\ Copy(Slot(Peer(r, i), SlotIndex(r, Peer(r, i))), In(r, Peer(r, i))) \in Operation
               /\ SetFlag(Peer(r, i), SlotIndex(r, Peer(r, i))) \in Operation
               /\ WaitFlag(SlotIndex(Sender(r, i), r)) \in Operation
               /\ Copy(Slot(Peer(r, i), Gather(r, Peer(r, i))), Out(r, r)) \in Operation
               /\ SetFlag(Peer(r, i), Gather(r, Peer(r, i))) \in Operation
               /\ WaitFlag(Gather(Peer(r, i), r)) \in Operation
               /\ Copy(Out(r, Peer(r, i)), Slot(r, Gather(Peer(r, i), r))) \in Operation
    <2>1. /\ OwnerReady(Peer(r, i), r) = Steps + i
          /\ OwnerReady(r, Peer(r, i)) = Steps + W - i
          /\ SlotIndex(r, Peer(r, i)) = W - 1 - i
          /\ Gather(r, Peer(r, i)) = 2 * W - 2 - i
          /\ Gather(Peer(r, i), r) = W + i - 2
      BY OwnerIndices
    <2> QED
      BY <2>1, <1>1, <1>2, <1>3, <1>4, <1>5
  <1>7. OwnerSum(r) \in Operation
    <2>1. \A s \in Rank \ {r} : SlotIndex(s, r) \in 0 .. Steps - 1
      BY OwnerIndices, <1>0
    <2>2. {In(r, r)} \cup {Slot(r, SlotIndex(s, r)) : s \in Rank \ {r}} \subseteq Place
      BY <2>1, <1>4, <1>5
    <2>3. Out(r, r) \in Location
      BY <1>5
    <2> QED
      BY <2>2, <2>3 DEF OwnerSum, Sum, Operation
  <1> QED
    BY <1>6, <1>7

(* What stands where in the owner sum's program. *)
LEMMA OwnerAt ==
  ASSUME NEW r \in Rank
  PROVE  /\ OwnerOps(r) \in Seq(Operation)
         /\ Len(OwnerOps(r)) = 9 * (W - 1) + 1
         /\ \A i \in Nth :
              /\ OwnerOps(r)[i] = SetFlag(Peer(r, i), Steps + i)
              /\ OwnerOps(r)[W - 1 + i] = WaitFlag(Steps + W - i)
              /\ OwnerOps(r)[2 * (W - 1) + 2 * i - 1] = Copy(Slot(Peer(r, i), W - 1 - i), In(r, Peer(r, i)))
              /\ OwnerOps(r)[2 * (W - 1) + 2 * i] = SetFlag(Peer(r, i), W - 1 - i)
              /\ OwnerOps(r)[4 * (W - 1) + i] = WaitFlag(SlotIndex(Sender(r, i), r))
              /\ OwnerOps(r)[5 * (W - 1) + 2 * i] = Copy(Slot(Peer(r, i), 2 * W - 2 - i), Out(r, r))
              /\ OwnerOps(r)[5 * (W - 1) + 1 + 2 * i] = SetFlag(Peer(r, i), 2 * W - 2 - i)
              /\ OwnerOps(r)[7 * (W - 1) + 2 * i] = WaitFlag(W + i - 2)
              /\ OwnerOps(r)[7 * (W - 1) + 1 + 2 * i] = Copy(Out(r, Peer(r, i)), Slot(r, W + i - 2))
         /\ OwnerOps(r)[5 * (W - 1) + 1] = OwnerSum(r)
  <1> DEFINE n == W - 1
             a == [i \in Nth |-> SetFlag(Peer(r, i), OwnerReady(Peer(r, i), r))]
             b == [i \in Nth |-> WaitFlag(OwnerReady(r, Peer(r, i)))]
             c1 == [i \in Nth |-> Copy(Slot(Peer(r, i), SlotIndex(r, Peer(r, i))), In(r, Peer(r, i)))]
             c2 == [i \in Nth |-> SetFlag(Peer(r, i), SlotIndex(r, Peer(r, i)))]
             d == [i \in Nth |-> WaitFlag(SlotIndex(Sender(r, i), r))]
             e == << OwnerSum(r) >>
             f1 == [i \in Nth |-> Copy(Slot(Peer(r, i), Gather(r, Peer(r, i))), Out(r, r))]
             f2 == [i \in Nth |-> SetFlag(Peer(r, i), Gather(r, Peer(r, i)))]
             g1 == [i \in Nth |-> WaitFlag(Gather(Peer(r, i), r))]
             g2 == [i \in Nth |-> Copy(Out(r, Peer(r, i)), Slot(r, Gather(Peer(r, i), r)))]
             c == Alternate(c1, c2)
             f == Alternate(f1, f2)
             g == Alternate(g1, g2)
             s == OwnerOps(r)
  <1>0. n \in Nat /\ Nth = 1 .. n
    BY WType DEF Nth
  <1>1. s = a \o b \o c \o d \o e \o f \o g
    BY DEF OwnerOps, OwnerSum
  <1>2. /\ a \in [Nth -> Operation] /\ b \in [Nth -> Operation]
        /\ c1 \in [Nth -> Operation] /\ c2 \in [Nth -> Operation]
        /\ d \in [Nth -> Operation]
        /\ f1 \in [Nth -> Operation] /\ f2 \in [Nth -> Operation]
        /\ g1 \in [Nth -> Operation] /\ g2 \in [Nth -> Operation]
        /\ OwnerSum(r) \in Operation
    BY OwnerSections
  <1>3. ASSUME NEW i \in Nth
        PROVE  /\ a[i] = SetFlag(Peer(r, i), Steps + i)
               /\ b[i] = WaitFlag(Steps + W - i)
               /\ c1[i] = Copy(Slot(Peer(r, i), W - 1 - i), In(r, Peer(r, i)))
               /\ c2[i] = SetFlag(Peer(r, i), W - 1 - i)
               /\ d[i] = WaitFlag(SlotIndex(Sender(r, i), r))
               /\ f1[i] = Copy(Slot(Peer(r, i), 2 * W - 2 - i), Out(r, r))
               /\ f2[i] = SetFlag(Peer(r, i), 2 * W - 2 - i)
               /\ g1[i] = WaitFlag(W + i - 2)
               /\ g2[i] = Copy(Out(r, Peer(r, i)), Slot(r, W + i - 2))
    BY OwnerIndices
  <1>e. e \in Seq(Operation) /\ Len(e) = 1 /\ e[1] = OwnerSum(r)
    BY <1>2
  <1> HIDE DEF a, b, c1, c2, d, e, f1, f2, g1, g2, s
  <1>4. /\ a \in Seq(Operation) /\ Len(a) = n
        /\ b \in Seq(Operation) /\ Len(b) = n
        /\ d \in Seq(Operation) /\ Len(d) = n
    BY <1>0, <1>2, Tabled
  <1>5. /\ c \in Seq(Operation) /\ Len(c) = 2 * n
        /\ \A i \in Nth : c[2 * i - 1] = c1[i] /\ c[2 * i] = c2[i]
    <2>1. IsAlternation(c, c1, c2, Operation)
      BY <1>2, Alternated
    <2> QED
      BY <2>1 DEF IsAlternation
  <1>6. /\ f \in Seq(Operation) /\ Len(f) = 2 * n
        /\ \A i \in Nth : f[2 * i - 1] = f1[i] /\ f[2 * i] = f2[i]
    <2>1. IsAlternation(f, f1, f2, Operation)
      BY <1>2, Alternated
    <2> QED
      BY <2>1 DEF IsAlternation
  <1>7. /\ g \in Seq(Operation) /\ Len(g) = 2 * n
        /\ \A i \in Nth : g[2 * i - 1] = g1[i] /\ g[2 * i] = g2[i]
    <2>1. IsAlternation(g, g1, g2, Operation)
      BY <1>2, Alternated
    <2> QED
      BY <2>1 DEF IsAlternation
  <1>d. /\ c \in Seq(Operation) /\ f \in Seq(Operation) /\ g \in Seq(Operation)
        /\ Len(c) = 2 * n /\ Len(f) = 2 * n /\ Len(g) = 2 * n
    BY <1>5, <1>6, <1>7
  <1> HIDE DEF n, c, f, g
  <1>8. /\ s \in Seq(Operation) /\ Len(s) = 9 * n + 1
        /\ \A i \in 1 .. n : s[i] = a[i]
        /\ \A i \in 1 .. n : s[n + i] = b[i]
        /\ \A i \in 1 .. 2 * n : s[2 * n + i] = c[i]
        /\ \A i \in 1 .. n : s[4 * n + i] = d[i]
        /\ s[5 * n + 1] = e[1]
        /\ \A i \in 1 .. 2 * n : s[5 * n + 1 + i] = f[i]
        /\ \A i \in 1 .. 2 * n : s[7 * n + 1 + i] = g[i]
    <2>1. AreJoined(s, a, b, c, d, e, f, g, n, Operation)
      BY <1>0, <1>1, <1>4, <1>5, <1>6, <1>7, <1>e, SevenJoined
    <2> QED
      BY <2>1 DEF AreJoined
  <1>9. ASSUME NEW i \in Nth
        PROVE  /\ s[i] = a[i] /\ s[n + i] = b[i]
               /\ s[2 * n + 2 * i - 1] = c1[i] /\ s[2 * n + 2 * i] = c2[i]
               /\ s[4 * n + i] = d[i]
               /\ s[5 * n + 2 * i] = f1[i] /\ s[5 * n + 1 + 2 * i] = f2[i]
               /\ s[7 * n + 2 * i] = g1[i] /\ s[7 * n + 1 + 2 * i] = g2[i]
    <2>1. /\ i \in 1 .. n /\ 2 * i - 1 \in 1 .. 2 * n /\ 2 * i \in 1 .. 2 * n
          /\ 2 * n + 2 * i - 1 = 2 * n + (2 * i - 1)
          /\ 5 * n + 2 * i = 5 * n + 1 + (2 * i - 1)
          /\ 7 * n + 2 * i = 7 * n + 1 + (2 * i - 1)
      BY <1>0
    <2>2. s[i] = a[i] /\ s[n + i] = b[i] /\ s[4 * n + i] = d[i]
      BY <2>1, <1>8
    <2>3. s[2 * n + 2 * i - 1] = c1[i] /\ s[2 * n + 2 * i] = c2[i]
      BY <2>1, <1>8, <1>5
    <2>4. s[5 * n + 2 * i] = f1[i] /\ s[5 * n + 1 + 2 * i] = f2[i]
      BY <2>1, <1>8, <1>6
    <2>5. s[7 * n + 2 * i] = g1[i] /\ s[7 * n + 1 + 2 * i] = g2[i]
      BY <2>1, <1>8, <1>7
    <2> QED
      BY <2>2, <2>3, <2>4, <2>5
  <1>10. /\ s \in Seq(Operation) /\ Len(s) = 9 * n + 1 /\ s[5 * n + 1] = OwnerSum(r)
    BY <1>8, <1>e
  <1> QED
    BY <1>3, <1>9, <1>10 DEF n, s

(* Every index of the owner sum's program is one of those. *)
LEMMA OwnerShape ==
  ASSUME NEW j \in 1 .. 9 * (W - 1) + 1
  PROVE  \/ j = 5 * (W - 1) + 1
         \/ \E i \in Nth :
              j \in {i, W - 1 + i, 2 * (W - 1) + 2 * i - 1, 2 * (W - 1) + 2 * i, 4 * (W - 1) + i,
                     5 * (W - 1) + 2 * i, 5 * (W - 1) + 1 + 2 * i,
                     7 * (W - 1) + 2 * i, 7 * (W - 1) + 1 + 2 * i}
  <1> DEFINE n == W - 1
  <1>0. n \in Nat /\ Nth = 1 .. n /\ j \in 1 .. 9 * n + 1
    BY WType DEF Nth
  <1> SUFFICES \/ j = 5 * n + 1
               \/ \E i \in 1 .. n :
                    j \in {i, n + i, 2 * n + 2 * i - 1, 2 * n + 2 * i, 4 * n + i,
                           5 * n + 2 * i, 5 * n + 1 + 2 * i, 7 * n + 2 * i, 7 * n + 1 + 2 * i}
    BY <1>0
  <1> HIDE DEF n
  <1> DEFINE half(x) == (j - x + 1) \div 2
  <1>1. \A x \in Int : half(x) \in Int /\ (j - x = 2 * half(x) - 1 \/ j - x = 2 * half(x))
    BY <1>0
  <1>2. CASE j \in 1 .. n
    BY <1>2
  <1>3. CASE j \in n + 1 .. 2 * n
    <2>1. j - n \in 1 .. n /\ j = n + (j - n)
      BY <1>0, <1>3
    <2> QED
      BY <2>1
  <1>4. CASE j \in 2 * n + 1 .. 4 * n
    <2>1. half(2 * n) \in 1 .. n /\ (j = 2 * n + 2 * half(2 * n) - 1 \/ j = 2 * n + 2 * half(2 * n))
      BY <1>0, <1>4
    <2> QED
      BY <2>1
  <1>5. CASE j \in 4 * n + 1 .. 5 * n
    <2>1. j - 4 * n \in 1 .. n /\ j = 4 * n + (j - 4 * n)
      BY <1>0, <1>5
    <2> QED
      BY <2>1
  <1>6. CASE j = 5 * n + 1
    BY <1>6
  <1>7. CASE j \in 5 * n + 2 .. 7 * n + 1
    <2> DEFINE i == half(5 * n + 1)
    <2>1. i \in 1 .. n /\ (j = 5 * n + 2 * i \/ j = 5 * n + 1 + 2 * i)
      BY <1>0, <1>7
    <2> QED
      BY <2>1
  <1>8. CASE j \in 7 * n + 2 .. 9 * n + 1
    <2> DEFINE i == half(7 * n + 1)
    <2>1. i \in 1 .. n /\ (j = 7 * n + 2 * i \/ j = 7 * n + 1 + 2 * i)
      BY <1>0, <1>8
    <2> QED
      BY <2>1
  <1> QED
    BY <1>0, <1>2, <1>3, <1>4, <1>5, <1>6, <1>7, <1>8

-----------------------------------------------------------------------------
(* Programs of either kind. *)

LEMMA ProgramType ==
  ASSUME NEW c \in AnyKind, NEW r \in Rank
  PROVE  /\ Program[c][r] = IF c = "ring" THEN RingOps(r) ELSE OwnerOps(r)
         /\ Program[c][r] \in Seq(Operation)
         /\ Len(Program[c][r]) = IF c = "ring" THEN 2 + 4 * Steps ELSE 9 * (W - 1) + 1
         /\ Len(Program[c][r]) \in Nat /\ Len(Program[c][r]) > 1
         /\ DOMAIN Program[c][r] = 1 .. Len(Program[c][r])
         /\ \A i \in 1 .. Len(Program[c][r]) : Program[c][r][i] \in Operation
  <1>1. Program[c][r] = IF c = "ring" THEN RingOps(r) ELSE OwnerOps(r)
    BY DEF Program, AnyKind
  <1>2. /\ Program[c][r] \in Seq(Operation)
        /\ Len(Program[c][r]) = IF c = "ring" THEN 2 + 4 * Steps ELSE 9 * (W - 1) + 1
    BY <1>1, RingAt, OwnerAt
  <1>3. Len(Program[c][r]) \in Nat /\ Len(Program[c][r]) > 1
    BY <1>2, WType
  <1>4. /\ DOMAIN Program[c][r] = 1 .. Len(Program[c][r])
        /\ \A i \in 1 .. Len(Program[c][r]) : Program[c][r][i] \in Operation
    BY <1>2
  <1> QED
    BY <1>1, <1>2, <1>3, <1>4

(* A point is a rank and an index of its program. *)
LEMMA PointType ==
  ASSUME NEW c \in AnyKind
  PROVE  /\ \A s \in Point(c) : /\ s[1] \in Rank /\ s[2] \in DOMAIN Program[c][s[1]]
                                /\ s = <<s[1], s[2]>>
         /\ \A r \in Rank : \A i \in DOMAIN Program[c][r] : <<r, i>> \in Point(c)
  <1>1. ASSUME NEW s \in Point(c)
        PROVE  s[1] \in Rank /\ s[2] \in DOMAIN Program[c][s[1]] /\ s = <<s[1], s[2]>>
    <2>1. PICK r \in Rank : s \in {r} \X DOMAIN Program[c][r]
      BY DEF Point
    <2> QED
      BY <2>1
  <1>2. ASSUME NEW r \in Rank, NEW i \in DOMAIN Program[c][r] PROVE <<r, i>> \in Point(c)
    BY DEF Point
  <1> QED
    BY <1>1, <1>2

(* What a signal and a copy are. *)
LEMMA SignalIs ==
  ASSUME NEW c \in AnyKind, NEW q \in Rank, NEW f \in Flag
  PROVE  /\ \A s \in Signals[c][q][f] : /\ s[1] \in Rank /\ s[2] \in DOMAIN Program[c][s[1]]
                                        /\ s = <<s[1], s[2]>>
                                        /\ Program[c][s[1]][s[2]] = SetFlag(q, f)
         /\ \A r \in Rank : \A i \in DOMAIN Program[c][r] :
              Program[c][r][i] = SetFlag(q, f) => <<r, i>> \in Signals[c][q][f]
  BY PointType DEF Signals

LEMMA CopyIs ==
  ASSUME NEW c \in AnyKind, NEW q \in Rank, NEW k \in 0 .. Steps - 1
  PROVE  /\ \A s \in Copies[c][q][k] : /\ s[1] \in Rank /\ s[2] \in DOMAIN Program[c][s[1]]
                                       /\ s = <<s[1], s[2]>>
                                       /\ Program[c][s[1]][s[2]].op = "copy"
                                       /\ Program[c][s[1]][s[2]].dst = Slot(q, k)
         /\ \A r \in Rank : \A i \in DOMAIN Program[c][r] :
              Program[c][r][i].op = "copy" /\ Program[c][r][i].dst = Slot(q, k) => <<r, i>> \in Copies[c][q][k]
  BY PointType DEF Copies, Opcode

(* The operations of a ring rank, told by their kind. *)
LEMMA RingKinds ==
  ASSUME NEW r \in Rank, NEW i \in 1 .. 2 + 4 * Steps
  PROVE  /\ RingOps(r)[i].op = "set" =>
              \/ i = 1 /\ RingOps(r)[i] = SetFlag((r - 1) % W, Ready)
              \/ \E k \in 0 .. Steps - 1 : i = 4 + 4 * k /\ RingOps(r)[i] = SetFlag((r + 1) % W, k)
         /\ RingOps(r)[i].op = "wait" =>
              \/ i = 2 /\ RingOps(r)[i] = WaitFlag(Ready)
              \/ \E k \in 0 .. Steps - 1 : i = 5 + 4 * k /\ RingOps(r)[i] = WaitFlag(k)
         /\ RingOps(r)[i].op = "copy" =>
              \E k \in 0 .. Steps - 1 :
                 \/ i = 3 + 4 * k /\ RingOps(r)[i] = Copy(Slot((r + 1) % W, k), RingSrc(r, k))
                 \/ i = 6 + 4 * k /\ k >= W - 1 /\ RingOps(r)[i] = Copy(Out(r, RingRecv(r, k)), Slot(r, k))
         /\ RingOps(r)[i].op = "sum" =>
              \E k \in 0 .. Steps - 1 :
                 i = 6 + 4 * k /\ k < W - 1
                   /\ RingOps(r)[i] = Sum(Out(r, RingRecv(r, k)), {In(r, RingRecv(r, k)), Slot(r, k)})
  <1> USE DEF SetFlag, WaitFlag, Copy, Sum
  <1>1. CASE i = 1
    BY <1>1, RingAt
  <1>2. CASE i = 2
    <2>1. RingOps(r)[i] = WaitFlag(Ready)
      BY <1>2, RingAt
    <2> QED
      BY <1>2, <2>1
  <1>3. ASSUME NEW k \in 0 .. Steps - 1, i \in {3 + 4 * k, 4 + 4 * k, 5 + 4 * k, 6 + 4 * k}
        PROVE  /\ RingOps(r)[i].op = "set" => i = 4 + 4 * k /\ RingOps(r)[i] = SetFlag((r + 1) % W, k)
               /\ RingOps(r)[i].op = "wait" => i = 5 + 4 * k /\ RingOps(r)[i] = WaitFlag(k)
               /\ RingOps(r)[i].op = "copy" =>
                    \/ i = 3 + 4 * k /\ RingOps(r)[i] = Copy(Slot((r + 1) % W, k), RingSrc(r, k))
                    \/ i = 6 + 4 * k /\ k >= W - 1 /\ RingOps(r)[i] = Copy(Out(r, RingRecv(r, k)), Slot(r, k))
               /\ RingOps(r)[i].op = "sum" =>
                    i = 6 + 4 * k /\ k < W - 1
                      /\ RingOps(r)[i] = Sum(Out(r, RingRecv(r, k)), {In(r, RingRecv(r, k)), Slot(r, k)})
    <2>0. W \in Nat /\ k \in Int
      BY WType
    <2>1. CASE i = 3 + 4 * k
      <3>1. RingOps(r)[i] = Copy(Slot((r + 1) % W, k), RingSrc(r, k))
        BY <2>1, RingAt
      <3> QED
        BY <2>1, <3>1
    <2>2. CASE i = 4 + 4 * k
      <3>1. RingOps(r)[i] = SetFlag((r + 1) % W, k)
        BY <2>2, RingAt
      <3> QED
        BY <2>2, <3>1
    <2>3. CASE i = 5 + 4 * k
      <3>1. RingOps(r)[i] = WaitFlag(k)
        BY <2>3, RingAt
      <3> QED
        BY <2>3, <3>1
    <2>4. CASE i = 6 + 4 * k
      <3>1. RingOps(r)[i] = RingEnd(r, k)
        BY <2>4, RingAt
      <3>2. CASE k < W - 1
        BY <2>0, <2>4, <3>1, <3>2 DEF RingEnd
      <3>3. CASE ~(k < W - 1)
        BY <2>0, <2>4, <3>1, <3>3 DEF RingEnd
      <3> QED
        BY <3>2, <3>3
    <2> QED
      BY <1>3, <2>1, <2>2, <2>3, <2>4
  <1> QED
    BY <1>1, <1>2, <1>3, RingShape

(* The operations of an owner, told by their kind. *)
LEMMA OwnerKinds ==
  ASSUME NEW r \in Rank, NEW j \in 1 .. 9 * (W - 1) + 1
  PROVE  /\ OwnerOps(r)[j].op = "set" =>
              \E i \in Nth :
                 \/ j = i /\ OwnerOps(r)[j] = SetFlag(Peer(r, i), Steps + i)
                 \/ j = 2 * (W - 1) + 2 * i /\ OwnerOps(r)[j] = SetFlag(Peer(r, i), W - 1 - i)
                 \/ j = 5 * (W - 1) + 1 + 2 * i /\ OwnerOps(r)[j] = SetFlag(Peer(r, i), 2 * W - 2 - i)
         /\ OwnerOps(r)[j].op = "wait" =>
              \E i \in Nth :
                 \/ j = W - 1 + i /\ OwnerOps(r)[j] = WaitFlag(Steps + W - i)
                 \/ j = 4 * (W - 1) + i /\ OwnerOps(r)[j] = WaitFlag(SlotIndex(Sender(r, i), r))
                 \/ j = 7 * (W - 1) + 2 * i /\ OwnerOps(r)[j] = WaitFlag(W + i - 2)
         /\ OwnerOps(r)[j].op = "copy" =>
              \E i \in Nth :
                 \/ /\ j = 2 * (W - 1) + 2 * i - 1
                    /\ OwnerOps(r)[j] = Copy(Slot(Peer(r, i), W - 1 - i), In(r, Peer(r, i)))
                 \/ /\ j = 5 * (W - 1) + 2 * i
                    /\ OwnerOps(r)[j] = Copy(Slot(Peer(r, i), 2 * W - 2 - i), Out(r, r))
                 \/ /\ j = 7 * (W - 1) + 1 + 2 * i
                    /\ OwnerOps(r)[j] = Copy(Out(r, Peer(r, i)), Slot(r, W + i - 2))
         /\ OwnerOps(r)[j].op = "sum" => j = 5 * (W - 1) + 1 /\ OwnerOps(r)[j] = OwnerSum(r)
  <1> USE DEF SetFlag, WaitFlag, Copy, Sum
  <1>1. CASE j = 5 * (W - 1) + 1
    <2>1. OwnerOps(r)[j] = OwnerSum(r)
      BY <1>1, OwnerAt
    <2> QED
      BY <1>1, <2>1 DEF OwnerSum
  <1>2. ASSUME NEW i \in Nth,
               j \in {i, W - 1 + i, 2 * (W - 1) + 2 * i - 1, 2 * (W - 1) + 2 * i, 4 * (W - 1) + i,
                      5 * (W - 1) + 2 * i, 5 * (W - 1) + 1 + 2 * i,
                      7 * (W - 1) + 2 * i, 7 * (W - 1) + 1 + 2 * i}
        PROVE  /\ OwnerOps(r)[j].op = "set" =>
                     \/ j = i /\ OwnerOps(r)[j] = SetFlag(Peer(r, i), Steps + i)
                     \/ j = 2 * (W - 1) + 2 * i /\ OwnerOps(r)[j] = SetFlag(Peer(r, i), W - 1 - i)
                     \/ j = 5 * (W - 1) + 1 + 2 * i /\ OwnerOps(r)[j] = SetFlag(Peer(r, i), 2 * W - 2 - i)
               /\ OwnerOps(r)[j].op = "wait" =>
                     \/ j = W - 1 + i /\ OwnerOps(r)[j] = WaitFlag(Steps + W - i)
                     \/ j = 4 * (W - 1) + i /\ OwnerOps(r)[j] = WaitFlag(SlotIndex(Sender(r, i), r))
                     \/ j = 7 * (W - 1) + 2 * i /\ OwnerOps(r)[j] = WaitFlag(W + i - 2)
               /\ OwnerOps(r)[j].op = "copy" =>
                     \/ /\ j = 2 * (W - 1) + 2 * i - 1
                        /\ OwnerOps(r)[j] = Copy(Slot(Peer(r, i), W - 1 - i), In(r, Peer(r, i)))
                     \/ /\ j = 5 * (W - 1) + 2 * i
                        /\ OwnerOps(r)[j] = Copy(Slot(Peer(r, i), 2 * W - 2 - i), Out(r, r))
                     \/ /\ j = 7 * (W - 1) + 1 + 2 * i
                        /\ OwnerOps(r)[j] = Copy(Out(r, Peer(r, i)), Slot(r, W + i - 2))
               /\ OwnerOps(r)[j].op # "sum"
    <2>1. CASE j = i
      <3>1. OwnerOps(r)[j] = SetFlag(Peer(r, i), Steps + i)
        BY <2>1, OwnerAt
      <3> QED
        BY <2>1, <3>1
    <2>2. CASE j = W - 1 + i
      <3>1. OwnerOps(r)[j] = WaitFlag(Steps + W - i)
        BY <2>2, OwnerAt
      <3> QED
        BY <2>2, <3>1
    <2>3. CASE j = 2 * (W - 1) + 2 * i - 1
      <3>1. OwnerOps(r)[j] = Copy(Slot(Peer(r, i), W - 1 - i), In(r, Peer(r, i)))
        BY <2>3, OwnerAt
      <3> QED
        BY <2>3, <3>1
    <2>4. CASE j = 2 * (W - 1) + 2 * i
      <3>1. OwnerOps(r)[j] = SetFlag(Peer(r, i), W - 1 - i)
        BY <2>4, OwnerAt
      <3> QED
        BY <2>4, <3>1
    <2>5. CASE j = 4 * (W - 1) + i
      <3>1. OwnerOps(r)[j] = WaitFlag(SlotIndex(Sender(r, i), r))
        BY <2>5, OwnerAt
      <3> QED
        BY <2>5, <3>1
    <2>6. CASE j = 5 * (W - 1) + 2 * i
      <3>1. OwnerOps(r)[j] = Copy(Slot(Peer(r, i), 2 * W - 2 - i), Out(r, r))
        BY <2>6, OwnerAt
      <3> QED
        BY <2>6, <3>1
    <2>7. CASE j = 5 * (W - 1) + 1 + 2 * i
      <3>1. OwnerOps(r)[j] = SetFlag(Peer(r, i), 2 * W - 2 - i)
        BY <2>7, OwnerAt
      <3> QED
        BY <2>7, <3>1
    <2>8. CASE j = 7 * (W - 1) + 2 * i
      <3>1. OwnerOps(r)[j] = WaitFlag(W + i - 2)
        BY <2>8, OwnerAt
      <3> QED
        BY <2>8, <3>1
    <2>9. CASE j = 7 * (W - 1) + 1 + 2 * i
      <3>1. OwnerOps(r)[j] = Copy(Out(r, Peer(r, i)), Slot(r, W + i - 2))
        BY <2>9, OwnerAt
      <3> QED
        BY <2>9, <3>1
    <2> QED
      BY <1>2, <2>1, <2>2, <2>3, <2>4, <2>5, <2>6, <2>7, <2>8, <2>9
  <1>4. CASE j # 5 * (W - 1) + 1
    <2>1. PICK i \in Nth :
               j \in {i, W - 1 + i, 2 * (W - 1) + 2 * i - 1, 2 * (W - 1) + 2 * i, 4 * (W - 1) + i,
                      5 * (W - 1) + 2 * i, 5 * (W - 1) + 1 + 2 * i,
                      7 * (W - 1) + 2 * i, 7 * (W - 1) + 1 + 2 * i}
      BY <1>4, OwnerShape
    <2> QED
      BY <1>2, <2>1
  <1> QED
    BY <1>1, <1>4
-----------------------------------------------------------------------------
(* Who signals a flag of q, and with which operation. *)
SignalBy(c, q, f) ==
    IF c = "ring" THEN IF f = Ready THEN (q + 1) % W ELSE (q - 1) % W
    ELSE IF f > Steps THEN (q - (f - Steps)) % W
    ELSE IF f < W - 1 THEN (q + (f + 1)) % W
    ELSE (q + (f + 2 - W)) % W
SignalAt(c, f) ==
    IF c = "ring" THEN IF f = Ready THEN 1 ELSE 4 + 4 * f
    ELSE IF f > Steps THEN f - Steps
    ELSE IF f < W - 1 THEN 2 * (W - 1) + 2 * (W - 1 - f)
    ELSE 5 * (W - 1) + 1 + 2 * (2 * W - 2 - f)

(* A flag has one signal in a kind of call at most; flags above Steps are   *)
(* the owners', flag Steps is the ring's.                                   *)
LEMMA SignalUnique ==
  ASSUME NEW c \in AnyKind, NEW q \in Rank, NEW f \in Flag, NEW s \in Signals[c][q][f]
  PROVE  /\ s = <<SignalBy(c, q, f), SignalAt(c, f)>>
         /\ s[1] \in Rank \ {q}
         /\ f > Steps => c = "owner"
         /\ f = Steps => c = "ring"
  <1>0. /\ W \in Nat /\ W >= 2 /\ Steps = 2 * W - 2 /\ Ready = Steps /\ q \in 0 .. W - 1
        /\ f \in 0 .. Steps + W - 1 /\ q \in Nat
    BY WType DEF Rank, Flag, Ready
  <1> DEFINE p == s[1]
             x == s[2]
  <1>1. /\ p \in Rank /\ x \in DOMAIN Program[c][p] /\ s = <<p, x>>
        /\ Program[c][p][x] = SetFlag(q, f)
    BY SignalIs
  <1> HIDE DEF p, x
  <1>2. Program[c][p][x].op = "set"
    BY <1>1 DEF SetFlag
  <1>p. p \in 0 .. W - 1 /\ p \in Nat
    BY <1>0, <1>1 DEF Rank
  <1>3. CASE c = "ring"
    <2>1. Program[c][p] = RingOps(p) /\ x \in 1 .. 2 + 4 * Steps
      BY <1>1, <1>3, ProgramType
    <2>2. CASE x = 1 /\ RingOps(p)[x] = SetFlag((p - 1) % W, Ready)
      <3>1. q = (p - 1) % W /\ f = Ready
        BY <1>1, <2>1, <2>2 DEF SetFlag
      <3>2. 1 \in 0 .. W
        BY <1>0
      <3>3. /\ (p - 1) % W = IF p >= 1 THEN p - 1 ELSE p - 1 + W
            /\ (q + 1) % W = IF q + 1 < W THEN q + 1 ELSE q + 1 - W
        BY <1>1, <3>2, Backward, Onward
      <3>4. p = (q + 1) % W /\ p # q
        BY <3>1, <3>3, <1>0, <1>p
      <3> QED
        BY <1>0, <1>1, <1>3, <2>2, <3>1, <3>4 DEF SignalBy, SignalAt, p
    <2>3. ASSUME NEW k \in 0 .. Steps - 1, x = 4 + 4 * k, RingOps(p)[x] = SetFlag((p + 1) % W, k)
          PROVE  /\ s = <<SignalBy(c, q, f), SignalAt(c, f)>>
                 /\ p # q /\ f < Steps
      <3>1. q = (p + 1) % W /\ f = k
        BY <1>1, <2>1, <2>3 DEF SetFlag
      <3>2. 1 \in 0 .. W
        BY <1>0
      <3>3. /\ (q - 1) % W = IF q >= 1 THEN q - 1 ELSE q - 1 + W
            /\ (p + 1) % W = IF p + 1 < W THEN p + 1 ELSE p + 1 - W
        BY <1>1, <3>2, Backward, Onward
      <3>4. p = (q - 1) % W /\ p # q
        BY <3>1, <3>3, <1>0, <1>p
      <3>5. f # Ready /\ f < Steps
        BY <3>1, <1>0
      <3> QED
        BY <1>1, <1>3, <2>3, <3>1, <3>4, <3>5 DEF SignalBy, SignalAt
    <2>4. \/ x = 1 /\ RingOps(p)[x] = SetFlag((p - 1) % W, Ready)
          \/ \E k \in 0 .. Steps - 1 : x = 4 + 4 * k /\ RingOps(p)[x] = SetFlag((p + 1) % W, k)
      BY <1>1, <1>2, <2>1, RingKinds
    <2>5. CASE \E k \in 0 .. Steps - 1 : x = 4 + 4 * k /\ RingOps(p)[x] = SetFlag((p + 1) % W, k)
      BY <2>3, <2>5, <1>0, <1>1, <1>3 DEF p
    <2> QED
      BY <2>2, <2>4, <2>5
  <1>4. CASE c = "owner"
    <2>1. Program[c][p] = OwnerOps(p) /\ x \in 1 .. 9 * (W - 1) + 1
      BY <1>1, <1>4, ProgramType
    <2>2. PICK i \in Nth :
                 \/ x = i /\ OwnerOps(p)[x] = SetFlag(Peer(p, i), Steps + i)
                 \/ x = 2 * (W - 1) + 2 * i /\ OwnerOps(p)[x] = SetFlag(Peer(p, i), W - 1 - i)
                 \/ x = 5 * (W - 1) + 1 + 2 * i /\ OwnerOps(p)[x] = SetFlag(Peer(p, i), 2 * W - 2 - i)
      BY <1>1, <1>2, <2>1, OwnerKinds
    <2>3. i \in 1 .. W - 1 /\ i \in 0 .. W /\ W - i \in 0 .. W
      BY <1>0 DEF Nth
    <2>4. q = Peer(p, i)
      BY <1>1, <2>1, <2>2 DEF SetFlag
    <2>5. p # q
      BY <2>4, <1>1, Peers
    <2>6. q = IF p + i < W THEN p + i ELSE p + i - W
      BY <2>3, <2>4, <1>1, Onward DEF Peer
    <2>7. p = (q - i) % W /\ p = (q + (W - i)) % W
      <3>1. /\ (q - i) % W = IF q >= i THEN q - i ELSE q - i + W
            /\ (q + (W - i)) % W = IF q + (W - i) < W THEN q + (W - i) ELSE q + (W - i) - W
        BY <2>3, Backward, Onward
      <3> QED
        BY <3>1, <2>3, <2>6, <1>0, <1>p
    <2>8. CASE x = i /\ OwnerOps(p)[x] = SetFlag(Peer(p, i), Steps + i)
      <3>1. f = Steps + i
        BY <1>1, <2>1, <2>8 DEF SetFlag
      <3>2. f > Steps /\ f - Steps = i
        BY <3>1, <2>3, <1>0
      <3> QED
        BY <1>1, <1>4, <2>5, <2>7, <2>8, <3>2, <1>0 DEF SignalBy, SignalAt, p
    <2>9. CASE x = 2 * (W - 1) + 2 * i /\ OwnerOps(p)[x] = SetFlag(Peer(p, i), W - 1 - i)
      <3>1. f = W - 1 - i
        BY <1>1, <2>1, <2>9 DEF SetFlag
      <3>2. ~(f > Steps) /\ f < W - 1 /\ f # Steps /\ f + 1 = W - i /\ W - 1 - f = i
        BY <3>1, <2>3, <1>0
      <3> QED
        BY <1>1, <1>4, <2>5, <2>7, <2>9, <3>2, <1>0 DEF SignalBy, SignalAt, p
    <2>10. CASE x = 5 * (W - 1) + 1 + 2 * i /\ OwnerOps(p)[x] = SetFlag(Peer(p, i), 2 * W - 2 - i)
      <3>1. f = 2 * W - 2 - i
        BY <1>1, <2>1, <2>10 DEF SetFlag
      <3>2. ~(f > Steps) /\ ~(f < W - 1) /\ f # Steps /\ f + 2 - W = W - i /\ 2 * W - 2 - f = i
        BY <3>1, <2>3, <1>0
      <3> QED
        BY <1>1, <1>4, <2>5, <2>7, <2>10, <3>2, <1>0 DEF SignalBy, SignalAt, p
    <2> QED
      BY <2>2, <2>8, <2>9, <2>10
  <1> QED
    BY <1>3, <1>4 DEF AnyKind

(* A copy into a peer's slot is followed by the slot's signal, and every    *)
(* signal of a slot by a copy preceded.                                     *)
LEMMA CopyThenSignal ==
  ASSUME NEW c \in AnyKind, NEW q \in Rank, NEW k \in 0 .. Steps - 1
  PROVE  /\ \A s \in Copies[c][q][k] : <<s[1], s[2] + 1>> \in Signals[c][q][k]
         /\ \A s \in Signals[c][q][k] : <<s[1], s[2] - 1>> \in Copies[c][q][k]
  <1>0. W \in Nat /\ W >= 2 /\ Steps = 2 * W - 2 /\ k \in Flag /\ k # Ready /\ k \in Int
    BY WType DEF Flag, Ready
  <1>1. ASSUME NEW s \in Copies[c][q][k]
        PROVE  <<s[1], s[2] + 1>> \in Signals[c][q][k]
    <2> DEFINE p == s[1]
               x == s[2]
    <2>1. /\ p \in Rank /\ x \in DOMAIN Program[c][p]
          /\ Program[c][p][x].op = "copy" /\ Program[c][p][x].dst = Slot(q, k)
      BY CopyIs
    <2> HIDE DEF p, x
    <2>2. CASE c = "ring"
      <3>1. Program[c][p] = RingOps(p) /\ DOMAIN Program[c][p] = 1 .. 2 + 4 * Steps
        BY <2>1, <2>2, ProgramType
      <3>2. PICK m \in 0 .. Steps - 1 :
                 \/ x = 3 + 4 * m /\ RingOps(p)[x] = Copy(Slot((p + 1) % W, m), RingSrc(p, m))
                 \/ x = 6 + 4 * m /\ RingOps(p)[x] = Copy(Out(p, RingRecv(p, m)), Slot(p, m))
        BY <2>1, <3>1, RingKinds
      <3>3. x = 3 + 4 * m /\ Slot((p + 1) % W, m) = Slot(q, k)
        BY <2>1, <3>1, <3>2 DEF Copy, Out, Slot
      <3>4. q = (p + 1) % W /\ m = k
        BY <3>3 DEF Slot
      <3>5. x + 1 = 4 + 4 * m /\ x + 1 \in 1 .. 2 + 4 * Steps
        BY <3>3, <1>0
      <3>6. Program[c][p][x + 1] = SetFlag(q, k)
        BY <2>1, <3>1, <3>4, <3>5, RingAt
      <3> QED
        BY <2>1, <3>1, <3>5, <3>6, <1>0, SignalIs DEF p, x
    <2>3. CASE c = "owner"
      <3>1. Program[c][p] = OwnerOps(p) /\ DOMAIN Program[c][p] = 1 .. 9 * (W - 1) + 1
        BY <2>1, <2>3, ProgramType
      <3>2. PICK i \in Nth :
                 \/ /\ x = 2 * (W - 1) + 2 * i - 1
                    /\ OwnerOps(p)[x] = Copy(Slot(Peer(p, i), W - 1 - i), In(p, Peer(p, i)))
                 \/ /\ x = 5 * (W - 1) + 2 * i
                    /\ OwnerOps(p)[x] = Copy(Slot(Peer(p, i), 2 * W - 2 - i), Out(p, p))
                 \/ /\ x = 7 * (W - 1) + 1 + 2 * i
                    /\ OwnerOps(p)[x] = Copy(Out(p, Peer(p, i)), Slot(p, W + i - 2))
        <4>1. x \in 1 .. 9 * (W - 1) + 1 /\ OwnerOps(p)[x].op = "copy"
          BY <2>1, <3>1
        <4> QED
          BY <2>1, <4>1, OwnerKinds
      <3>i. i \in 1 .. W - 1
        BY DEF Nth
      <3>3. CASE /\ x = 2 * (W - 1) + 2 * i - 1
                 /\ OwnerOps(p)[x] = Copy(Slot(Peer(p, i), W - 1 - i), In(p, Peer(p, i)))
        <4>1. q = Peer(p, i) /\ k = W - 1 - i
          BY <2>1, <3>1, <3>3 DEF Copy, Slot
        <4>2. x + 1 = 2 * (W - 1) + 2 * i /\ x + 1 \in 1 .. 9 * (W - 1) + 1
          BY <3>3, <3>i, <1>0
        <4>3. Program[c][p][x + 1] = SetFlag(q, k)
          BY <2>1, <3>1, <4>1, <4>2, OwnerAt
        <4> QED
          BY <2>1, <3>1, <4>2, <4>3, <1>0, SignalIs DEF p, x
      <3>4. CASE /\ x = 5 * (W - 1) + 2 * i
                 /\ OwnerOps(p)[x] = Copy(Slot(Peer(p, i), 2 * W - 2 - i), Out(p, p))
        <4>1. q = Peer(p, i) /\ k = 2 * W - 2 - i
          BY <2>1, <3>1, <3>4 DEF Copy, Slot
        <4>2. x + 1 = 5 * (W - 1) + 1 + 2 * i /\ x + 1 \in 1 .. 9 * (W - 1) + 1
          BY <3>4, <3>i, <1>0
        <4>3. Program[c][p][x + 1] = SetFlag(q, k)
          BY <2>1, <3>1, <4>1, <4>2, OwnerAt
        <4> QED
          BY <2>1, <3>1, <4>2, <4>3, <1>0, SignalIs DEF p, x
      <3>5. CASE /\ x = 7 * (W - 1) + 1 + 2 * i
                 /\ OwnerOps(p)[x] = Copy(Out(p, Peer(p, i)), Slot(p, W + i - 2))
        BY <2>1, <3>1, <3>5 DEF Copy, Out, Slot
      <3> QED
        BY <3>2, <3>3, <3>4, <3>5
    <2> QED
      BY <2>2, <2>3 DEF AnyKind
  <1>2. ASSUME NEW s \in Signals[c][q][k]
        PROVE  <<s[1], s[2] - 1>> \in Copies[c][q][k]
    <2> DEFINE p == s[1]
               x == s[2]
    <2>1. /\ p \in Rank /\ x \in DOMAIN Program[c][p] /\ Program[c][p][x] = SetFlag(q, k)
          /\ x = SignalAt(c, k) /\ p = SignalBy(c, q, k)
      BY <1>0, SignalIs, SignalUnique
    <2> HIDE DEF p, x
    <2>2. CASE c = "ring"
      <3>1. Program[c][p] = RingOps(p) /\ DOMAIN Program[c][p] = 1 .. 2 + 4 * Steps
        BY <2>1, <2>2, ProgramType
      <3>2. x = 4 + 4 * k /\ x - 1 = 3 + 4 * k /\ x - 1 \in 1 .. 2 + 4 * Steps
        BY <2>1, <2>2, <1>0 DEF SignalAt
      <3>3. RingOps(p)[x] = SetFlag((p + 1) % W, k)
        BY <2>1, <3>2, RingAt
      <3>4. q = (p + 1) % W
        BY <2>1, <3>1, <3>3 DEF SetFlag
      <3>5. Program[c][p][x - 1] = Copy(Slot(q, k), RingSrc(p, k))
        BY <2>1, <3>1, <3>2, <3>4, RingAt
      <3>6. Program[c][p][x - 1].op = "copy" /\ Program[c][p][x - 1].dst = Slot(q, k)
        BY <3>5 DEF Copy
      <3> QED
        BY <2>1, <3>1, <3>2, <3>6, CopyIs DEF p, x
    <2>3. CASE c = "owner"
      <3>1. Program[c][p] = OwnerOps(p) /\ DOMAIN Program[c][p] = 1 .. 9 * (W - 1) + 1
        BY <2>1, <2>3, ProgramType
      <3>2. ~(k > Steps)
        BY <1>0
      <3>3. CASE k < W - 1
        <4> DEFINE i == W - 1 - k
        <4>1. x = 2 * (W - 1) + 2 * i
          BY <2>1, <2>3, <3>2, <3>3 DEF SignalAt
        <4>2. i \in Nth /\ i \in 1 .. W - 1 /\ k = W - 1 - i
          BY <3>3, <1>0 DEF Nth
        <4> HIDE DEF i
        <4>3. x - 1 = 2 * (W - 1) + 2 * i - 1 /\ x - 1 \in 1 .. 9 * (W - 1) + 1
          BY <4>1, <4>2, <1>0
        <4>4. OwnerOps(p)[x] = SetFlag(Peer(p, i), W - 1 - i)
          BY <2>1, <4>1, <4>2, OwnerAt
        <4>5. q = Peer(p, i)
          BY <2>1, <3>1, <4>4 DEF SetFlag
        <4>6. Program[c][p][x - 1] = Copy(Slot(q, k), In(p, q))
          BY <2>1, <3>1, <4>2, <4>3, <4>5, OwnerAt
        <4>7. Program[c][p][x - 1].op = "copy" /\ Program[c][p][x - 1].dst = Slot(q, k)
          BY <4>6 DEF Copy
        <4> QED
          BY <2>1, <3>1, <4>3, <4>7, CopyIs DEF p, x
      <3>4. CASE ~(k < W - 1)
        <4> DEFINE i == 2 * W - 2 - k
        <4>1. x = 5 * (W - 1) + 1 + 2 * i
          BY <2>1, <2>3, <3>2, <3>4 DEF SignalAt
        <4>2. i \in Nth /\ i \in 1 .. W - 1 /\ k = 2 * W - 2 - i
          BY <3>4, <1>0 DEF Nth
        <4> HIDE DEF i
        <4>3. x - 1 = 5 * (W - 1) + 2 * i /\ x - 1 \in 1 .. 9 * (W - 1) + 1
          BY <4>1, <4>2, <1>0
        <4>4. OwnerOps(p)[x] = SetFlag(Peer(p, i), 2 * W - 2 - i)
          BY <2>1, <4>1, <4>2, OwnerAt
        <4>5. q = Peer(p, i)
          BY <2>1, <3>1, <4>4 DEF SetFlag
        <4>6. Program[c][p][x - 1] = Copy(Slot(q, k), Out(p, p))
          BY <2>1, <3>1, <4>2, <4>3, <4>5, OwnerAt
        <4>7. Program[c][p][x - 1].op = "copy" /\ Program[c][p][x - 1].dst = Slot(q, k)
          BY <4>6 DEF Copy
        <4> QED
          BY <2>1, <3>1, <4>3, <4>7, CopyIs DEF p, x
      <3> QED
        BY <3>3, <3>4
    <2> QED
      BY <2>2, <2>3 DEF AnyKind
  <1> QED
    BY <1>1, <1>2

(* A wait's flag is of its program's kind. *)
LEMMA WaitFlags ==
  ASSUME NEW c \in AnyKind, NEW q \in Rank, NEW i \in DOMAIN Program[c][q],
         Program[c][q][i].op = "wait"
  PROVE  /\ Program[c][q][i].flag \in Flag
         /\ Program[c][q][i].flag > Steps => c = "owner"
         /\ Program[c][q][i].flag = Steps => c = "ring"
  <1> DEFINE f == Program[c][q][i].flag
  <1>0. W \in Nat /\ W >= 2 /\ Steps = 2 * W - 2 /\ Ready = Steps
    BY WType DEF Ready
  <1>1. f \in Flag
    BY ProgramType DEF Operation
  <1>2. f \in Int
    BY <1>0, <1>1 DEF Flag
  <1>3. ASSUME c = "ring" PROVE f <= Steps
    <2>1. Program[c][q] = RingOps(q) /\ i \in 1 .. 2 + 4 * Steps /\ RingOps(q)[i].op = "wait"
      BY <1>3, ProgramType
    <2>2. \/ RingOps(q)[i] = WaitFlag(Ready)
          \/ \E k \in 0 .. Steps - 1 : RingOps(q)[i] = WaitFlag(k)
      BY <2>1, RingKinds
    <2>3. f = Ready \/ f \in 0 .. Steps - 1
      BY <2>1, <2>2 DEF WaitFlag
    <2> QED
      BY <2>3, <1>0
  <1>4. ASSUME c = "owner" PROVE f # Steps
    <2>1. Program[c][q] = OwnerOps(q) /\ i \in 1 .. 9 * (W - 1) + 1 /\ OwnerOps(q)[i].op = "wait"
      BY <1>4, ProgramType
    <2>2. PICK j \in Nth : OwnerOps(q)[i] \in {WaitFlag(Steps + W - j), WaitFlag(SlotIndex(Sender(q, j), q)),
                                              WaitFlag(W + j - 2)}
      BY <2>1, OwnerKinds
    <2>3. f \in {Steps + W - j, SlotIndex(Sender(q, j), q), W + j - 2}
      BY <2>1, <2>2 DEF WaitFlag
    <2>4. j \in 1 .. W - 1 /\ SlotIndex(Sender(q, j), q) \in 0 .. W - 2
      BY OwnerIndices DEF Nth
    <2> QED
      BY <2>3, <2>4, <1>0
  <1> QED
    BY <1>0, <1>1, <1>2, <1>3, <1>4 DEF AnyKind

(* A slot's copy and signal stand behind a wait for a flag that only the    *)
(* slot's owner signals.                                                    *)
LEMMA Gated ==
  ASSUME NEW c \in AnyKind, NEW q \in Rank, NEW k \in 0 .. Steps - 1, NEW s \in Copies[c][q][k]
  PROVE  \E i \in DOMAIN Program[c][s[1]] :
            /\ i < s[2]
            /\ Program[c][s[1]][i].op = "wait"
            /\ \A t \in Signals[c][s[1]][Program[c][s[1]][i].flag] : t[1] = q
  <1>0. W \in Nat /\ W >= 2 /\ Steps = 2 * W - 2 /\ k \in Flag /\ k # Ready /\ k \in Int /\ Ready = Steps
        /\ q \in 0 .. W - 1 /\ q \in Nat
    BY WType DEF Flag, Ready, Rank
  <1> DEFINE p == s[1]
             x == s[2]
  <1>1. /\ p \in Rank /\ x \in DOMAIN Program[c][p]
        /\ p = SignalBy(c, q, k) /\ x + 1 = SignalAt(c, k) /\ p # q
    <2>1. <<p, x + 1>> \in Signals[c][q][k]
      BY CopyThenSignal
    <2>2. <<p, x + 1>> = <<SignalBy(c, q, k), SignalAt(c, k)>> /\ p # q
      BY <2>1, <1>0, SignalUnique
    <2> QED
      BY <2>2, CopyIs
  <1> HIDE DEF p, x
  <1>p. p \in 0 .. W - 1 /\ p \in Nat
    BY <1>0, <1>1 DEF Rank
  <1>d. x \in 1 .. Len(Program[c][p]) /\ Len(Program[c][p]) \in Nat
    BY <1>1, ProgramType
  <1>2. CASE c = "ring"
    <2>1. Program[c][p] = RingOps(p) /\ DOMAIN Program[c][p] = 1 .. 2 + 4 * Steps
      BY <1>1, <1>2, ProgramType
    <2>2. x = 3 + 4 * k /\ p = (q - 1) % W
      <3>1. x + 1 = 4 + 4 * k /\ p = (q - 1) % W
        BY <1>0, <1>1, <1>2 DEF SignalAt, SignalBy
      <3> QED
        BY <3>1, <1>0, <1>d
    <2>3. 2 \in DOMAIN Program[c][p] /\ 2 < x
      BY <2>1, <2>2, <1>0
    <2>4. Program[c][p][2] = WaitFlag(Ready)
      BY <2>1, <1>1, RingAt
    <2>5. Program[c][p][2].op = "wait" /\ Program[c][p][2].flag = Ready
      BY <2>4 DEF WaitFlag
    <2>6. ASSUME NEW t \in Signals[c][p][Ready] PROVE t[1] = q
      <3>1. t[1] = (p + 1) % W
        <4>1. Ready \in Flag
          BY <1>0 DEF Flag
        <4>2. t = <<SignalBy(c, p, Ready), SignalAt(c, Ready)>>
          BY <4>1, <1>1, SignalUnique
        <4> QED
          BY <4>2, <1>2 DEF SignalBy
      <3>2. 1 \in 0 .. W
        BY <1>0
      <3>3. /\ (q - 1) % W = IF q >= 1 THEN q - 1 ELSE q - 1 + W
            /\ (p + 1) % W = IF p + 1 < W THEN p + 1 ELSE p + 1 - W
        BY <1>1, <3>2, Backward, Onward
      <3> QED
        BY <3>1, <3>3, <2>2, <1>0, <1>p
    <2> QED
      BY <2>3, <2>5, <2>6 DEF p, x
  <1>3. CASE c = "owner"
    <2> DEFINE i == (q - p) % W
    <2>1. Program[c][p] = OwnerOps(p) /\ DOMAIN Program[c][p] = 1 .. 9 * (W - 1) + 1
      BY <1>1, <1>3, ProgramType
    <2>2. i \in Nth /\ Peer(p, i) = q
      BY <1>1, Peers
    <2>3. i \in 1 .. W - 1 /\ i = IF q >= p THEN q - p ELSE q - p + W
      BY <2>2, <1>1, Distance DEF Nth
    <2> HIDE DEF i
    <2>4. x >= 2 * (W - 1) + 1
      BY <1>0, <1>1, <1>3, <1>d DEF SignalAt
    <2>5. W - 1 + i \in DOMAIN Program[c][p] /\ W - 1 + i < x
      BY <2>1, <2>3, <2>4, <1>0, <1>d
    <2>6. Program[c][p][W - 1 + i] = WaitFlag(Steps + W - i)
      BY <2>1, <2>2, <1>1, OwnerAt
    <2>7. Program[c][p][W - 1 + i].op = "wait" /\ Program[c][p][W - 1 + i].flag = Steps + W - i
      BY <2>6 DEF WaitFlag
    <2>8. ASSUME NEW t \in Signals[c][p][Steps + W - i] PROVE t[1] = q
      <3>1. Steps + W - i \in Flag /\ Steps + W - i > Steps /\ (Steps + W - i) - Steps = W - i
            /\ W - i \in 0 .. W
        BY <1>0, <2>3 DEF Flag
      <3>2. t = <<SignalBy(c, p, Steps + W - i), SignalAt(c, Steps + W - i)>>
        BY <3>1, <1>1, SignalUnique
      <3>3. t[1] = (p - (W - i)) % W
        BY <3>1, <3>2, <1>3 DEF SignalBy
      <3>4. (p - (W - i)) % W = IF p >= W - i THEN p - (W - i) ELSE p - (W - i) + W
        BY <3>1, <1>1, Backward
      <3> QED
        BY <3>3, <3>4, <2>3, <1>0, <1>p
    <2> QED
      BY <2>5, <2>7, <2>8 DEF p, x
  <1> QED
    BY <1>2, <1>3 DEF AnyKind

(* Every rank awaits every slot in every call. *)
LEMMA EverySlotAwaited ==
  ASSUME NEW c \in AnyKind, NEW q \in Rank, NEW k \in 0 .. Steps - 1
  PROVE  \E i \in DOMAIN Program[c][q] : Program[c][q][i] = WaitFlag(k)
  <1>0. W \in Nat /\ W >= 2 /\ Steps = 2 * W - 2 /\ k \in Int /\ q \in 0 .. W - 1 /\ q \in Nat
    BY WType DEF Rank
  <1>1. CASE c = "ring"
    <2>1. Program[c][q][5 + 4 * k] = WaitFlag(k) /\ DOMAIN Program[c][q] = 1 .. 2 + 4 * Steps
      BY <1>1, ProgramType, RingAt
    <2>2. 5 + 4 * k \in 1 .. 2 + 4 * Steps
      BY <1>0
    <2> QED
      BY <2>1, <2>2
  <1>2. CASE c = "owner"
    <2>1. Program[c][q] = OwnerOps(q) /\ DOMAIN Program[c][q] = 1 .. 9 * (W - 1) + 1
      BY <1>2, ProgramType
    <2>2. CASE k < W - 1
      <3> DEFINE s == (q + (k + 1)) % W
                 i == IF s < q THEN s + 1 ELSE s
      <3>1. k + 1 \in Nth /\ k + 1 \in 0 .. W
        BY <2>2, <1>0 DEF Nth
      <3>2. s = Peer(q, k + 1) /\ s \in Rank \ {q} /\ (s - q) % W = k + 1
        BY <3>1, Peers DEF Peer
      <3>3. s \in 0 .. W - 1 /\ s # q
        BY <3>2 DEF Rank
      <3> HIDE DEF s
      <3>4. i \in Nth /\ i \in 1 .. W - 1 /\ Sender(q, i) = s
        BY <3>3, <1>0 DEF Nth, Sender
      <3>5. SlotIndex(s, q) = k
        BY <3>2, <1>0 DEF SlotIndex
      <3>6. Program[c][q][4 * (W - 1) + i] = WaitFlag(k)
        BY <2>1, <3>4, <3>5, OwnerAt
      <3>7. 4 * (W - 1) + i \in 1 .. 9 * (W - 1) + 1
        BY <3>4, <1>0
      <3> QED
        BY <2>1, <3>6, <3>7
    <2>3. CASE ~(k < W - 1)
      <3> DEFINE i == k - (W - 2)
      <3>1. i \in Nth /\ i \in 1 .. W - 1 /\ W + i - 2 = k
        BY <2>3, <1>0 DEF Nth
      <3> HIDE DEF i
      <3>2. Program[c][q][7 * (W - 1) + 2 * i] = WaitFlag(k)
        BY <2>1, <3>1, OwnerAt
      <3>3. 7 * (W - 1) + 2 * i \in 1 .. 9 * (W - 1) + 1
        BY <3>1, <1>0
      <3> QED
        BY <2>1, <3>2, <3>3
    <2> QED
      BY <2>2, <2>3
  <1> QED
    BY <1>1, <1>2 DEF AnyKind

-----------------------------------------------------------------------------
(* What the ring's shards hold. *)

(* A step's shard and the shard's step. *)
LEMMA RingShards ==
  ASSUME NEW r \in Rank
  PROVE  /\ \A j \in Rank : /\ Added(r, j) \in 0 .. W - 1 /\ Gathered(r, j) \in 0 .. W - 1
                            /\ Added(r, j) = IF r > j THEN r - 1 - j ELSE r - 1 - j + W
                            /\ Gathered(r, j) = IF r >= j THEN r - j ELSE r - j + W
                            /\ Added(r, j) <= W - 2 => RingRecv(r, Added(r, j)) = j
                            /\ Gathered(r, j) <= W - 2 => RingRecv(r, W - 1 + Gathered(r, j)) = j
         /\ \A k \in 0 .. Steps - 1 : /\ RingRecv(r, k) \in Rank
                                      /\ k < W - 1 => Added(r, RingRecv(r, k)) = k
                                      /\ k >= W - 1 => Gathered(r, RingRecv(r, k)) = k - (W - 1)
  <1>0. W \in Nat /\ W >= 2 /\ Steps = 2 * W - 2 /\ r \in 0 .. W - 1 /\ r \in Nat
    BY WType DEF Rank
  <1>1. ASSUME NEW j \in Rank
        PROVE  /\ Added(r, j) = IF r > j THEN r - 1 - j ELSE r - 1 - j + W
               /\ Gathered(r, j) = IF r >= j THEN r - j ELSE r - j + W
    <2>1. j \in 0 .. W - 1
      BY DEF Rank
    <2>2. Gathered(r, j) = IF r >= j THEN r - j ELSE r - j + W
      BY Distance DEF Gathered
    <2>3. CASE r > j
      <3>1. r - 1 - j \in 0 .. W - 1 /\ r - 1 - j \in Int
        BY <2>1, <2>3, <1>0
      <3> QED
        BY <2>2, <2>3, <3>1, ModOne DEF Added
    <2>4. CASE ~(r > j)
      <3>1. r - 1 - j \in -W .. -1 /\ r - 1 - j \in Int
        BY <2>1, <2>4, <1>0
      <3> QED
        BY <2>2, <2>4, <3>1, ModOne DEF Added
    <2> QED
      BY <2>3, <2>4
  <1>2. ASSUME NEW k \in 0 .. Steps - 1
        PROVE  /\ RingRecv(r, k) = IF k < W - 1 THEN IF r > k THEN r - k - 1 ELSE r - k - 1 + W
                                   ELSE IF r >= k - (W - 1) THEN r - (k - (W - 1)) ELSE r - (k - (W - 1)) + W
    <2>1. CASE k < W - 1
      <3>1. k + 1 \in 0 .. W /\ r - k - 1 = r - (k + 1)
        BY <2>1, <1>0
      <3>2. (r - (k + 1)) % W = IF r >= k + 1 THEN r - (k + 1) ELSE r - (k + 1) + W
        BY <3>1, Backward
      <3> QED
        BY <2>1, <3>1, <3>2, <1>0 DEF RingRecv
    <2>2. CASE ~(k < W - 1)
      <3>1. k - (W - 1) \in 0 .. W
        BY <2>2, <1>0
      <3> QED
        BY <2>2, <3>1, Backward DEF RingRecv
    <2> QED
      BY <2>1, <2>2
  <1>3. ASSUME NEW j \in Rank
        PROVE  /\ Added(r, j) \in 0 .. W - 1 /\ Gathered(r, j) \in 0 .. W - 1
               /\ Added(r, j) <= W - 2 => RingRecv(r, Added(r, j)) = j
               /\ Gathered(r, j) <= W - 2 => RingRecv(r, W - 1 + Gathered(r, j)) = j
    <2>1. j \in 0 .. W - 1
      BY DEF Rank
    <2>2. Added(r, j) \in 0 .. W - 1 /\ Gathered(r, j) \in 0 .. W - 1
      BY <2>1, <1>0, <1>1
    <2>3. ASSUME Added(r, j) <= W - 2 PROVE RingRecv(r, Added(r, j)) = j
      <3>1. Added(r, j) \in 0 .. Steps - 1 /\ Added(r, j) < W - 1
        BY <2>2, <2>3, <1>0
      <3> QED
        BY <2>1, <3>1, <1>0, <1>1, <1>2
    <2>4. ASSUME Gathered(r, j) <= W - 2 PROVE RingRecv(r, W - 1 + Gathered(r, j)) = j
      <3>1. W - 1 + Gathered(r, j) \in 0 .. Steps - 1 /\ ~(W - 1 + Gathered(r, j) < W - 1)
            /\ W - 1 + Gathered(r, j) - (W - 1) = Gathered(r, j)
        BY <2>2, <2>4, <1>0
      <3> QED
        BY <2>1, <3>1, <1>0, <1>1, <1>2
    <2> QED
      BY <2>2, <2>3, <2>4
  <1>4. ASSUME NEW k \in 0 .. Steps - 1
        PROVE  /\ RingRecv(r, k) \in Rank
               /\ k < W - 1 => Added(r, RingRecv(r, k)) = k
               /\ k >= W - 1 => Gathered(r, RingRecv(r, k)) = k - (W - 1)
    <2>1. RingRecv(r, k) \in Rank /\ RingRecv(r, k) \in 0 .. W - 1
      BY RingPlaces DEF Rank
    <2> QED
      BY <2>1, <1>0, <1>1, <1>2
  <1> QED
    BY <1>1, <1>3, <1>4

(* What is behind a rank. *)
LEMMA BehindIs ==
  ASSUME NEW r \in Rank
  PROVE  /\ Behind(r, 0) = {r}
         /\ Behind(r, W - 1) = Rank
         /\ \A k \in 0 .. W - 2 : Behind(r, k + 1) = {r} \cup Behind((r - 1) % W, k)
  <1>0. W \in Nat /\ W >= 2 /\ r \in 0 .. W - 1 /\ r \in Nat
    BY WType DEF Rank
  <1>1. \A q \in Rank : (r - q) % W = IF r >= q THEN r - q ELSE r - q + W
    BY Distance
  <1>2. Behind(r, 0) = {r}
    BY <1>0, <1>1 DEF Behind, Rank
  <1>3. Behind(r, W - 1) = Rank
    BY <1>0, <1>1 DEF Behind, Rank
  <1>4. ASSUME NEW k \in 0 .. W - 2
        PROVE  Behind(r, k + 1) = {r} \cup Behind((r - 1) % W, k)
    <2> DEFINE p == (r - 1) % W
    <2>1. 1 \in 0 .. W /\ p \in Rank
      BY <1>0, ModRank
    <2>2. p = IF r >= 1 THEN r - 1 ELSE r - 1 + W
      BY <2>1, Backward
    <2> HIDE DEF p
    <2>3. \A q \in Rank : (p - q) % W = IF p >= q THEN p - q ELSE p - q + W
      BY <2>1, Distance
    <2>4. ASSUME NEW q \in Rank
          PROVE  (r - q) % W <= k + 1 <=> q = r \/ (p - q) % W <= k
      <3>1. q \in 0 .. W - 1
        BY DEF Rank
      <3> QED
        BY <3>1, <1>0, <1>1, <2>2, <2>3
    <2>5. Behind(r, k + 1) = {r} \cup Behind(p, k)
      BY <2>4 DEF Behind
    <2> QED
      BY <2>5 DEF p
  <1> QED
    BY <1>2, <1>3, <1>4

(* Before the first and after the last operation of a ring. *)
LEMMA RingEnds ==
  ASSUME NEW r \in Rank, NEW j \in Rank
  PROVE  RingHolds(r, 1, j) = {} /\ RingHolds(r, 3 + 4 * Steps, j) = Rank
  <1>0. W \in Nat /\ W >= 2 /\ Steps = 2 * W - 2 /\ r \in 0 .. W - 1 /\ j \in 0 .. W - 1
    BY WType DEF Rank
  <1>1. /\ Added(r, j) \in 0 .. W - 1 /\ Gathered(r, j) \in 0 .. W - 1
        /\ Added(r, j) = IF r > j THEN r - 1 - j ELSE r - 1 - j + W
        /\ Gathered(r, j) = IF r >= j THEN r - j ELSE r - j + W
    BY RingShards
  <1>2. RingHolds(r, 1, j) = {}
    BY <1>0, <1>1 DEF RingHolds
  <1>3. CASE Gathered(r, j) <= W - 2
    BY <1>0, <1>1, <1>3 DEF RingHolds
  <1>4. CASE ~(Gathered(r, j) <= W - 2)
    <2>1. Added(r, j) = W - 2 /\ Added(r, j) <= W - 2 /\ Added(r, j) + 1 = W - 1
          /\ 3 + 4 * Steps > 6 + 4 * Added(r, j)
      BY <1>0, <1>1, <1>4
    <2>2. RingHolds(r, 3 + 4 * Steps, j) = Behind(r, W - 1)
      BY <1>4, <2>1 DEF RingHolds
    <2> QED
      BY <1>2, <2>2, BehindIs
  <1> QED
    BY <1>2, <1>3, <1>4

(* The wait for slot k comes before operation i. *)
Awaited(c, r, k, i) == \E h \in DOMAIN Program[c][r] : h < i /\ Program[c][r][h] = WaitFlag(k)

(* Operation op of rank r writes its output shard j. *)
WritesOut(op, r, j) == op.op \in {"copy", "sum"} /\ op.dst = Out(r, j)

(* An operation that does not write a shard of a ring leaves what it holds. *)
LEMMA RingHoldsStep ==
  ASSUME NEW r \in Rank, NEW j \in Rank, NEW i \in 1 .. 2 + 4 * Steps,
         ~WritesOut(RingOps(r)[i], r, j)
  PROVE  RingHolds(r, i + 1, j) = RingHolds(r, i, j)
  <1>0. W \in Nat /\ W >= 2 /\ Steps = 2 * W - 2 /\ i \in Nat
    BY WType
  <1>1. Added(r, j) \in 0 .. W - 1 /\ Gathered(r, j) \in 0 .. W - 1
    BY RingShards
  <1>2. ASSUME Added(r, j) <= W - 2 PROVE i # 6 + 4 * Added(r, j)
    <2> DEFINE k == Added(r, j)
    <2>1. k \in 0 .. Steps - 1 /\ k < W - 1
      BY <1>0, <1>1, <1>2
    <2>2. RingRecv(r, k) = j
      BY <1>2, RingShards
    <2>3. RingOps(r)[6 + 4 * k] = RingEnd(r, k)
      BY <2>1, RingAt
    <2>4. RingEnd(r, k) = Sum(Out(r, j), {In(r, j), Slot(r, k)})
      BY <2>1, <2>2 DEF RingEnd
    <2>5. WritesOut(RingOps(r)[6 + 4 * k], r, j)
      BY <2>3, <2>4 DEF WritesOut, Sum
    <2> QED
      BY <2>5
  <1>3. ASSUME Gathered(r, j) <= W - 2 PROVE i # 6 + 4 * (W - 1 + Gathered(r, j))
    <2> DEFINE k == W - 1 + Gathered(r, j)
    <2>1. k \in 0 .. Steps - 1 /\ ~(k < W - 1)
      BY <1>0, <1>1, <1>3
    <2>2. RingRecv(r, k) = j
      BY <1>3, RingShards
    <2>3. RingOps(r)[6 + 4 * k] = RingEnd(r, k)
      BY <2>1, RingAt
    <2>4. RingEnd(r, k) = Copy(Out(r, j), Slot(r, k))
      BY <2>1, <2>2 DEF RingEnd
    <2>5. WritesOut(RingOps(r)[6 + 4 * k], r, j)
      BY <2>3, <2>4 DEF WritesOut, Copy
    <2> QED
      BY <2>5
  <1>4. /\ Gathered(r, j) <= W - 2 =>
             (i + 1 > 6 + 4 * (W - 1 + Gathered(r, j)) <=> i > 6 + 4 * (W - 1 + Gathered(r, j)))
        /\ Added(r, j) <= W - 2 => (i + 1 > 6 + 4 * Added(r, j) <=> i > 6 + 4 * Added(r, j))
    BY <1>0, <1>1, <1>2, <1>3
  <1> QED
    BY <1>4 DEF RingHolds

(* What a ring rank copies into the next rank's slot k. *)
LEMMA RingCopies ==
  ASSUME NEW p \in Rank, NEW k \in 0 .. Steps - 1, NEW q, q = (p + 1) % W
  PROVE  /\ RingSend(p, k) = SlotShard("ring", q, k)
         /\ k = 0 => SlotRanks("ring", q, k) = {p}
         /\ k > 0 => RingHolds(p, 3 + 4 * k, RingSend(p, k)) = SlotRanks("ring", q, k)
  <1>0. W \in Nat /\ W >= 2 /\ Steps = 2 * W - 2 /\ p \in 0 .. W - 1 /\ p \in Nat /\ k \in Nat /\ 1 \in 0 .. W
    BY WType DEF Rank
  <1>1. q \in Rank /\ q \in 0 .. W - 1 /\ q = IF p + 1 < W THEN p + 1 ELSE p + 1 - W
    BY <1>0, Onward, ModRank DEF Rank
  <1>2. (q - 1) % W = p
    <2>1. (q - 1) % W = IF q >= 1 THEN q - 1 ELSE q - 1 + W
      BY <1>0, <1>1, Backward
    <2> QED
      BY <2>1, <1>0, <1>1
  <1>3. RingSend(p, k) = RingRecv(q, k)
    <2>1. CASE k < W - 1
      <3>1. k \in 0 .. W /\ k + 1 \in 0 .. W /\ q - k - 1 = q - (k + 1)
        BY <2>1, <1>0, <1>1
      <3>2. /\ (p - k) % W = IF p >= k THEN p - k ELSE p - k + W
            /\ (q - (k + 1)) % W = IF q >= k + 1 THEN q - (k + 1) ELSE q - (k + 1) + W
        BY <3>1, <1>1, Backward
      <3>3. (p - k) % W = (q - k - 1) % W
        BY <2>1, <3>1, <3>2, <1>0, <1>1
      <3> QED
        BY <2>1, <3>3 DEF RingSend, RingRecv
    <2>2. CASE ~(k < W - 1)
      <3> DEFINE m == k - (W - 1)
      <3>1. m \in 0 .. W - 2 /\ m \in 0 .. W
        BY <2>2, <1>0
      <3> HIDE DEF m
      <3>2. (q - m) % W = IF q >= m THEN q - m ELSE q - m + W
        BY <3>1, <1>1, Backward
      <3>3. (p + 1 - m) % W = (q - m) % W
        <4>1. CASE p + 1 - m \in 0 .. W - 1
          <5>1. (p + 1 - m) % W = p + 1 - m
            BY <4>1, <1>0, <3>1, ModOne
          <5> QED
            BY <5>1, <4>1, <3>1, <3>2, <1>0, <1>1
        <4>2. CASE p + 1 - m \in -W .. -1
          <5>1. (p + 1 - m) % W = p + 1 - m + W
            BY <4>2, <1>0, <3>1, ModOne
          <5> QED
            BY <5>1, <4>2, <3>1, <3>2, <1>0, <1>1
        <4>3. CASE p + 1 - m \in W .. 2 * W - 1
          <5>1. (p + 1 - m) % W = p + 1 - m - W
            BY <4>3, <1>0, <3>1, ModOne
          <5> QED
            BY <5>1, <4>3, <3>1, <3>2, <1>0, <1>1
        <4> QED
          BY <4>1, <4>2, <4>3, <3>1, <1>0
      <3> QED
        BY <2>2, <3>3 DEF RingSend, RingRecv, m
    <2> QED
      BY <2>1, <2>2
  <1>4. SlotShard("ring", q, k) = RingRecv(q, k)
    BY DEF SlotShard
  <1>5. SlotRanks("ring", q, k) = IF k >= W - 1 THEN Rank ELSE Behind(p, k)
    BY <1>2 DEF SlotRanks
  <1>6. ASSUME k = 0 PROVE SlotRanks("ring", q, k) = {p}
    BY <1>0, <1>5, <1>6, BehindIs
  <1>7. ASSUME k > 0 PROVE RingHolds(p, 3 + 4 * k, RingSend(p, k)) = SlotRanks("ring", q, k)
    <2> DEFINE j == RingSend(p, k)
    <2>0. j \in Rank /\ j \in 0 .. W - 1
      BY RingPlaces DEF Rank
    <2>1. /\ Added(p, j) = IF p > j THEN p - 1 - j ELSE p - 1 - j + W
          /\ Gathered(p, j) = IF p >= j THEN p - j ELSE p - j + W
      BY <2>0, RingShards
    <2>2. CASE k < W - 1
      <3>1. j = (p - k) % W /\ k \in 0 .. W
        BY <2>2, <1>0 DEF RingSend
      <3>2. j = IF p >= k THEN p - k ELSE p - k + W
        BY <3>1, Backward
      <3>3. Added(p, j) = k - 1 /\ Gathered(p, j) = k
        BY <3>2, <2>0, <2>1, <1>0, <1>7, <2>2
      <3>4. /\ Gathered(p, j) <= W - 2 /\ ~(3 + 4 * k > 6 + 4 * (W - 1 + Gathered(p, j)))
            /\ Added(p, j) <= W - 2 /\ 3 + 4 * k > 6 + 4 * Added(p, j) /\ Added(p, j) + 1 = k
        BY <3>3, <1>0, <2>2
      <3>5. RingHolds(p, 3 + 4 * k, j) = Behind(p, k)
        BY <3>4 DEF RingHolds
      <3> QED
        BY <3>5, <1>0, <1>5, <2>2
    <2>3. CASE k = W - 1
      <3>1. j = q
        <4>1. j = (p + 1 - 0) % W
          BY <2>3, <1>0 DEF RingSend
        <4>2. p + 1 - 0 = p + 1
          BY <1>0
        <4> QED
          BY <4>1, <4>2
      <3>2. Added(p, j) = W - 2 /\ Gathered(p, j) = W - 1
        BY <3>1, <2>0, <2>1, <1>0, <1>1
      <3>3. /\ ~(Gathered(p, j) <= W - 2)
            /\ Added(p, j) <= W - 2 /\ 3 + 4 * k > 6 + 4 * Added(p, j) /\ Added(p, j) + 1 = W - 1
        BY <3>2, <1>0, <2>3
      <3>4. RingHolds(p, 3 + 4 * k, j) = Behind(p, W - 1)
        BY <3>3 DEF RingHolds
      <3> QED
        BY <3>4, <1>0, <1>5, <2>3, BehindIs
    <2>4. CASE k > W - 1
      <3>1. k - W \in 0 .. W /\ ~(k < W - 1) /\ p + 1 - (k - (W - 1)) = p - (k - W)
        BY <2>4, <1>0
      <3>2. j = (p - (k - W)) % W
        BY <3>1 DEF RingSend
      <3>3. j = IF p >= k - W THEN p - (k - W) ELSE p - (k - W) + W
        BY <3>1, <3>2, Backward
      <3>4. Gathered(p, j) = k - W
        BY <3>1, <3>3, <2>0, <2>1, <2>4, <1>0
      <3>5. Gathered(p, j) <= W - 2 /\ 3 + 4 * k > 6 + 4 * (W - 1 + Gathered(p, j))
        BY <3>4, <2>4, <1>0
      <3>6. RingHolds(p, 3 + 4 * k, j) = Rank
        BY <3>5 DEF RingHolds
      <3> QED
        BY <3>6, <1>0, <1>5, <2>4
    <2> QED
      BY <1>0, <2>2, <2>3, <2>4
  <1> QED
    BY <1>3, <1>4, <1>6, <1>7

(* What a ring rank's shard holds after the step that writes it. *)
LEMMA RingWrites ==
  ASSUME NEW r \in Rank, NEW k \in 0 .. Steps - 1
  PROVE  /\ RingRecv(r, k) = SlotShard("ring", r, k)
         /\ k < W - 1 => RingHolds(r, 7 + 4 * k, RingRecv(r, k)) = {r} \cup SlotRanks("ring", r, k)
         /\ k >= W - 1 => RingHolds(r, 7 + 4 * k, RingRecv(r, k)) = SlotRanks("ring", r, k)
  <1>0. W \in Nat /\ W >= 2 /\ Steps = 2 * W - 2 /\ k \in Nat
    BY WType
  <1> DEFINE j == RingRecv(r, k)
  <1>1. j \in Rank /\ Gathered(r, j) \in 0 .. W - 1
    BY RingShards
  <1>2. j = SlotShard("ring", r, k)
    BY DEF SlotShard
  <1>3. ASSUME k < W - 1 PROVE RingHolds(r, 7 + 4 * k, j) = {r} \cup SlotRanks("ring", r, k)
    <2>1. Added(r, j) = k
      BY <1>3, RingShards
    <2>2. /\ ~(7 + 4 * k > 6 + 4 * (W - 1 + Gathered(r, j)))
          /\ Added(r, j) <= W - 2 /\ 7 + 4 * k > 6 + 4 * Added(r, j)
      BY <2>1, <1>0, <1>1, <1>3
    <2>3. RingHolds(r, 7 + 4 * k, j) = Behind(r, k + 1)
      BY <2>1, <2>2 DEF RingHolds
    <2>4. SlotRanks("ring", r, k) = Behind((r - 1) % W, k)
      BY <1>0, <1>3 DEF SlotRanks
    <2>5. k \in 0 .. W - 2
      BY <1>0, <1>3
    <2> QED
      BY <2>3, <2>4, <2>5, BehindIs
  <1>4. ASSUME k >= W - 1 PROVE RingHolds(r, 7 + 4 * k, j) = SlotRanks("ring", r, k)
    <2>1. Gathered(r, j) = k - (W - 1)
      BY <1>4, RingShards
    <2>2. Gathered(r, j) <= W - 2 /\ 7 + 4 * k > 6 + 4 * (W - 1 + Gathered(r, j))
      BY <2>1, <1>0, <1>4
    <2> QED
      BY <2>2, <1>4 DEF RingHolds, SlotRanks
  <1> QED
    BY <1>2, <1>3, <1>4

-----------------------------------------------------------------------------
(* What an owner's shards hold. *)
LEMMA OwnerEnds ==
  ASSUME NEW r \in Rank, NEW j \in Rank
  PROVE  OwnerHolds(r, 1, j) = {} /\ OwnerHolds(r, 9 * (W - 1) + 2, j) = Rank
  <1>0. W \in Nat /\ W >= 2
    BY WType
  <1>1. CASE j = r
    BY <1>0, <1>1 DEF OwnerHolds
  <1>2. CASE j # r
    <2>1. (j - r) % W \in 1 .. W - 1
      BY <1>2, Peers DEF Nth
    <2>2. /\ ~(1 > 7 * W - 6 + 2 * ((j - r) % W))
          /\ 9 * (W - 1) + 2 > 7 * W - 6 + 2 * ((j - r) % W)
      BY <2>1, <1>0
    <2> QED
      BY <1>2, <2>2 DEF OwnerHolds
  <1> QED
    BY <1>1, <1>2

(* An operation that does not write a shard of an owner leaves what it      *)
(* holds.                                                                   *)
LEMMA OwnerHoldsStep ==
  ASSUME NEW r \in Rank, NEW j \in Rank, NEW i \in 1 .. 9 * (W - 1) + 1,
         ~WritesOut(OwnerOps(r)[i], r, j)
  PROVE  OwnerHolds(r, i + 1, j) = OwnerHolds(r, i, j)
  <1>0. W \in Nat /\ W >= 2 /\ i \in Nat
    BY WType
  <1>1. CASE j = r
    <2>1. WritesOut(OwnerOps(r)[5 * (W - 1) + 1], r, j)
      <3>1. OwnerOps(r)[5 * (W - 1) + 1] = OwnerSum(r)
        BY OwnerAt
      <3> QED
        BY <1>1, <3>1 DEF WritesOut, OwnerSum, Sum
    <2>2. i # 5 * W - 4
      <3>1. 5 * W - 4 = 5 * (W - 1) + 1
        BY <1>0
      <3> QED
        BY <2>1, <3>1
    <2>3. i + 1 > 5 * W - 4 <=> i > 5 * W - 4
      BY <2>2, <1>0
    <2> QED
      BY <1>1, <2>3 DEF OwnerHolds
  <1>2. CASE j # r
    <2> DEFINE d == (j - r) % W
    <2>1. d \in Nth /\ Peer(r, d) = j
      BY <1>2, Peers
    <2>2. d \in 1 .. W - 1
      BY <2>1 DEF Nth
    <2>3. WritesOut(OwnerOps(r)[7 * (W - 1) + 1 + 2 * d], r, j)
      <3>1. OwnerOps(r)[7 * (W - 1) + 1 + 2 * d] = Copy(Out(r, Peer(r, d)), Slot(r, W + d - 2))
        BY <2>1, OwnerAt
      <3> QED
        BY <2>1, <3>1 DEF WritesOut, Copy
    <2> HIDE DEF d
    <2>4. i # 7 * W - 6 + 2 * d
      <3>1. 7 * W - 6 + 2 * d = 7 * (W - 1) + 1 + 2 * d
        BY <1>0, <2>2
      <3> QED
        BY <2>3, <3>1
    <2>5. i + 1 > 7 * W - 6 + 2 * d <=> i > 7 * W - 6 + 2 * d
      BY <2>2, <2>4, <1>0
    <2> QED
      BY <1>2, <2>5 DEF OwnerHolds, d
  <1> QED
    BY <1>1, <1>2
-----------------------------------------------------------------------------
(* The same of either kind. *)

(* At first an output shard holds nothing, in the end everybody's part. *)
LEMMA HoldsEnds ==
  ASSUME NEW c \in AnyKind, NEW r \in Rank, NEW j \in Rank
  PROVE  Holds(c, r, 1, j) = {} /\ Holds(c, r, Len(Program[c][r]) + 1, j) = Rank
  <1>0. 2 + 4 * Steps + 1 = 3 + 4 * Steps /\ 9 * (W - 1) + 1 + 1 = 9 * (W - 1) + 2
    BY WType
  <1>1. CASE c = "ring"
    BY <1>0, <1>1, ProgramType, RingEnds DEF Holds
  <1>2. CASE c = "owner"
    BY <1>0, <1>2, ProgramType, OwnerEnds DEF Holds
  <1> QED
    BY <1>1, <1>2 DEF AnyKind

LEMMA HoldsStep ==
  ASSUME NEW c \in AnyKind, NEW r \in Rank, NEW j \in Rank, NEW i \in DOMAIN Program[c][r],
         ~WritesOut(Program[c][r][i], r, j)
  PROVE  Holds(c, r, i + 1, j) = Holds(c, r, i, j)
  <1>1. CASE c = "ring"
    <2>1. Program[c][r] = RingOps(r) /\ i \in 1 .. 2 + 4 * Steps
      BY <1>1, ProgramType
    <2> QED
      BY <1>1, <2>1, RingHoldsStep DEF Holds
  <1>2. CASE c = "owner"
    <2>1. Program[c][r] = OwnerOps(r) /\ i \in 1 .. 9 * (W - 1) + 1
      BY <1>2, ProgramType
    <2> QED
      BY <1>2, <2>1, OwnerHoldsStep DEF Holds
  <1> QED
    BY <1>1, <1>2 DEF AnyKind

(* What is copied into a slot is what the slot is to hold: a part of the    *)
(* input or an output shard as it is at that operation.                     *)
LEMMA SlotValue ==
  ASSUME NEW c \in AnyKind, NEW q \in Rank, NEW k \in 0 .. Steps - 1, NEW s \in Copies[c][q][k]
  PROVE  LET p == s[1]
             src == Program[c][p][s[2]].src
             j == SlotShard(c, q, k)
         IN  /\ j \in Rank
             /\ \/ src = In(p, j) /\ SlotRanks(c, q, k) = {p}
                \/ src = Out(p, j) /\ Holds(c, p, s[2], j) = SlotRanks(c, q, k)
  <1> DEFINE p == s[1]
             x == s[2]
  <1>0. W \in Nat /\ W >= 2 /\ Steps = 2 * W - 2 /\ k \in Nat /\ k \in 0 .. Steps - 1
    BY WType
  <1>1. /\ p \in Rank /\ x \in DOMAIN Program[c][p]
        /\ Program[c][p][x].op = "copy" /\ Program[c][p][x].dst = Slot(q, k)
    BY CopyIs
  <1> HIDE DEF p, x
  <1> SUFFICES LET j == SlotShard(c, q, k)
               IN  /\ j \in Rank
                   /\ \/ Program[c][p][x].src = In(p, j) /\ SlotRanks(c, q, k) = {p}
                      \/ Program[c][p][x].src = Out(p, j) /\ Holds(c, p, x, j) = SlotRanks(c, q, k)
    BY DEF p, x
  <1>2. CASE c = "ring"
    <2>1. Program[c][p] = RingOps(p) /\ x \in 1 .. 2 + 4 * Steps
      BY <1>1, <1>2, ProgramType
    <2>2. PICK m \in 0 .. Steps - 1 :
               \/ x = 3 + 4 * m /\ RingOps(p)[x] = Copy(Slot((p + 1) % W, m), RingSrc(p, m))
               \/ x = 6 + 4 * m /\ RingOps(p)[x] = Copy(Out(p, RingRecv(p, m)), Slot(p, m))
      BY <1>1, <2>1, RingKinds
    <2>3. /\ x = 3 + 4 * m /\ RingOps(p)[x] = Copy(Slot((p + 1) % W, m), RingSrc(p, m))
          /\ Slot((p + 1) % W, m) = Slot(q, k)
      BY <1>1, <2>1, <2>2 DEF Copy, Out, Slot
    <2>4. q = (p + 1) % W /\ m = k
      BY <2>3 DEF Slot
    <2>5. Program[c][p][x].src = RingSrc(p, k)
      BY <2>1, <2>3, <2>4 DEF Copy
    <2>6. /\ RingSend(p, k) = SlotShard(c, q, k)
          /\ k = 0 => SlotRanks(c, q, k) = {p}
          /\ k > 0 => RingHolds(p, 3 + 4 * k, RingSend(p, k)) = SlotRanks(c, q, k)
      BY <1>1, <1>2, <2>4, RingCopies
    <2>7. RingSend(p, k) \in Rank
      BY <1>1, RingPlaces
    <2>8. CASE k = 0
      BY <2>5, <2>6, <2>7, <2>8 DEF RingSrc
    <2>9. CASE k > 0
      <3>1. Program[c][p][x].src = Out(p, RingSend(p, k))
        BY <2>5, <2>9, <1>0 DEF RingSrc
      <3>2. Holds(c, p, x, RingSend(p, k)) = SlotRanks(c, q, k)
        BY <1>2, <2>3, <2>4, <2>6, <2>9 DEF Holds
      <3> QED
        BY <3>1, <3>2, <2>6, <2>7
    <2> QED
      BY <2>8, <2>9, <1>0
  <1>3. CASE c = "owner"
    <2>1. Program[c][p] = OwnerOps(p) /\ x \in 1 .. 9 * (W - 1) + 1 /\ OwnerOps(p)[x].op = "copy"
      BY <1>1, <1>3, ProgramType
    <2>2. PICK i \in Nth :
               \/ /\ x = 2 * (W - 1) + 2 * i - 1
                  /\ OwnerOps(p)[x] = Copy(Slot(Peer(p, i), W - 1 - i), In(p, Peer(p, i)))
               \/ /\ x = 5 * (W - 1) + 2 * i
                  /\ OwnerOps(p)[x] = Copy(Slot(Peer(p, i), 2 * W - 2 - i), Out(p, p))
               \/ /\ x = 7 * (W - 1) + 1 + 2 * i
                  /\ OwnerOps(p)[x] = Copy(Out(p, Peer(p, i)), Slot(p, W + i - 2))
      BY <1>1, <2>1, OwnerKinds
    <2>i. i \in 1 .. W - 1 /\ i \in 0 .. W /\ W - i \in 0 .. W
      BY <1>0 DEF Nth
    <2>b. q = Peer(p, i) => (q + (W - i)) % W = p
      <3>1. Peer(p, i) = IF p + i < W THEN p + i ELSE p + i - W
        BY <2>i, <1>1, Onward DEF Peer
      <3>2. (q + (W - i)) % W = IF q + (W - i) < W THEN q + (W - i) ELSE q + (W - i) - W
        BY <2>i, Onward
      <3>3. p \in 0 .. W - 1
        BY <1>1 DEF Rank
      <3> QED
        BY <3>1, <3>2, <3>3, <2>i, <1>0
    <2>3. CASE /\ x = 2 * (W - 1) + 2 * i - 1
               /\ OwnerOps(p)[x] = Copy(Slot(Peer(p, i), W - 1 - i), In(p, Peer(p, i)))
      <3>1. q = Peer(p, i) /\ k = W - 1 - i /\ Program[c][p][x].src = In(p, q)
        BY <1>1, <2>1, <2>3 DEF Copy, Slot
      <3>2. k < W - 1 /\ ~(k >= W - 1) /\ q + k + 1 = q + (W - i)
        <4>1. q \in Int
          BY <1>0 DEF Rank
        <4> QED
          BY <3>1, <4>1, <2>i, <1>0
      <3>3. SlotShard(c, q, k) = q
        BY <1>3, <3>2 DEF SlotShard
      <3>4. SlotRanks(c, q, k) = {p}
        BY <1>3, <3>1, <3>2, <2>b DEF SlotRanks
      <3> QED
        BY <3>1, <3>3, <3>4
    <2>4. CASE /\ x = 5 * (W - 1) + 2 * i
               /\ OwnerOps(p)[x] = Copy(Slot(Peer(p, i), 2 * W - 2 - i), Out(p, p))
      <3>1. q = Peer(p, i) /\ k = 2 * W - 2 - i /\ Program[c][p][x].src = Out(p, p)
        BY <1>1, <2>1, <2>4 DEF Copy, Slot
      <3>2. ~(k < W - 1) /\ k >= W - 1 /\ q + k - (W - 2) = q + (W - i)
        <4>1. q \in Int
          BY <1>0 DEF Rank
        <4> QED
          BY <3>1, <4>1, <2>i, <1>0
      <3>3. SlotShard(c, q, k) = p
        BY <1>3, <3>1, <3>2, <2>b DEF SlotShard
      <3>4. SlotRanks(c, q, k) = Rank
        BY <3>2 DEF SlotRanks
      <3>5. Holds(c, p, x, p) = Rank
        <4>1. x > 5 * W - 4
          BY <2>4, <2>i, <1>0
        <4> QED
          BY <1>3, <4>1 DEF Holds, OwnerHolds
      <3> QED
        BY <1>1, <3>1, <3>3, <3>4, <3>5
    <2>5. CASE /\ x = 7 * (W - 1) + 1 + 2 * i
               /\ OwnerOps(p)[x] = Copy(Out(p, Peer(p, i)), Slot(p, W + i - 2))
      BY <1>1, <2>1, <2>5 DEF Copy, Out, Slot
    <2> QED
      BY <2>2, <2>3, <2>4, <2>5
  <1> QED
    BY <1>2, <1>3 DEF AnyKind

(* A copy that is not into a peer's slot brings a slot's content into the   *)
(* output, after the wait for that slot.                                    *)
LEMMA CopyForms ==
  ASSUME NEW c \in AnyKind, NEW r \in Rank, NEW i \in DOMAIN Program[c][r],
         Program[c][r][i].op = "copy"
  PROVE  \/ \E q \in Rank \ {r}, k \in 0 .. Steps - 1 :
              Program[c][r][i].dst = Slot(q, k) /\ <<r, i>> \in Copies[c][q][k]
         \/ \E k \in 0 .. Steps - 1 :
              /\ SlotShard(c, r, k) \in Rank
              /\ Program[c][r][i] = Copy(Out(r, SlotShard(c, r, k)), Slot(r, k))
              /\ Holds(c, r, i + 1, SlotShard(c, r, k)) = SlotRanks(c, r, k)
              /\ Awaited(c, r, k, i)
  <1>0. W \in Nat /\ W >= 2 /\ Steps = 2 * W - 2
    BY WType
  <1>a. ASSUME NEW q \in Rank, NEW k \in 0 .. Steps - 1, Program[c][r][i].dst = Slot(q, k)
        PROVE  q \in Rank \ {r} /\ <<r, i>> \in Copies[c][q][k]
    <2>1. <<r, i>> \in Copies[c][q][k]
      BY <1>a, CopyIs
    <2>2. k \in Flag
      BY <1>0 DEF Flag
    <2>3. <<r, i + 1>> \in Signals[c][q][k]
      BY <2>1, CopyThenSignal
    <2> QED
      BY <2>1, <2>2, <2>3, SignalUnique
  <1>1. CASE c = "ring"
    <2>1. Program[c][r] = RingOps(r) /\ i \in 1 .. 2 + 4 * Steps /\ DOMAIN Program[c][r] = 1 .. 2 + 4 * Steps
      BY <1>1, ProgramType
    <2>2. PICK k \in 0 .. Steps - 1 :
               \/ i = 3 + 4 * k /\ RingOps(r)[i] = Copy(Slot((r + 1) % W, k), RingSrc(r, k))
               \/ i = 6 + 4 * k /\ k >= W - 1 /\ RingOps(r)[i] = Copy(Out(r, RingRecv(r, k)), Slot(r, k))
      BY <2>1, RingKinds
    <2>3. CASE i = 3 + 4 * k /\ RingOps(r)[i] = Copy(Slot((r + 1) % W, k), RingSrc(r, k))
      <3>1. Program[c][r][i].dst = Slot((r + 1) % W, k) /\ (r + 1) % W \in Rank
        BY <2>1, <2>3, RingPlaces DEF Copy
      <3> QED
        BY <3>1, <1>a
    <2>4. CASE i = 6 + 4 * k /\ k >= W - 1 /\ RingOps(r)[i] = Copy(Out(r, RingRecv(r, k)), Slot(r, k))
      <3>1. SlotShard(c, r, k) = RingRecv(r, k) /\ RingRecv(r, k) \in Rank
        BY <1>1, RingWrites, RingPlaces
      <3>2. i + 1 = 7 + 4 * k /\ 5 + 4 * k < i /\ 5 + 4 * k \in 1 .. 2 + 4 * Steps
        BY <2>4, <1>0
      <3>3. Holds(c, r, i + 1, RingRecv(r, k)) = SlotRanks(c, r, k)
        BY <1>1, <2>4, <3>2, RingWrites DEF Holds
      <3>4. Awaited(c, r, k, i)
        BY <2>1, <3>2, RingAt DEF Awaited
      <3> QED
        BY <2>1, <2>4, <3>1, <3>3, <3>4
    <2> QED
      BY <2>2, <2>3, <2>4
  <1>2. CASE c = "owner"
    <2>1. Program[c][r] = OwnerOps(r) /\ DOMAIN Program[c][r] = 1 .. 9 * (W - 1) + 1
      BY <1>2, ProgramType
    <2>2. i \in 1 .. 9 * (W - 1) + 1 /\ OwnerOps(r)[i].op = "copy"
      BY <2>1
    <2>3. PICK m \in Nth :
               \/ /\ i = 2 * (W - 1) + 2 * m - 1
                  /\ OwnerOps(r)[i] = Copy(Slot(Peer(r, m), W - 1 - m), In(r, Peer(r, m)))
               \/ /\ i = 5 * (W - 1) + 2 * m
                  /\ OwnerOps(r)[i] = Copy(Slot(Peer(r, m), 2 * W - 2 - m), Out(r, r))
               \/ /\ i = 7 * (W - 1) + 1 + 2 * m
                  /\ OwnerOps(r)[i] = Copy(Out(r, Peer(r, m)), Slot(r, W + m - 2))
      BY <2>2, OwnerKinds
    <2>m. m \in 1 .. W - 1 /\ Peer(r, m) \in Rank \ {r}
      BY Peers DEF Nth
    <2>4. CASE /\ i = 2 * (W - 1) + 2 * m - 1
               /\ OwnerOps(r)[i] = Copy(Slot(Peer(r, m), W - 1 - m), In(r, Peer(r, m)))
      <3>1. Program[c][r][i].dst = Slot(Peer(r, m), W - 1 - m) /\ W - 1 - m \in 0 .. Steps - 1
        BY <2>1, <2>4, <2>m, <1>0 DEF Copy
      <3> QED
        BY <3>1, <2>m, <1>a
    <2>5. CASE /\ i = 5 * (W - 1) + 2 * m
               /\ OwnerOps(r)[i] = Copy(Slot(Peer(r, m), 2 * W - 2 - m), Out(r, r))
      <3>1. Program[c][r][i].dst = Slot(Peer(r, m), 2 * W - 2 - m) /\ 2 * W - 2 - m \in 0 .. Steps - 1
        BY <2>1, <2>5, <2>m, <1>0 DEF Copy
      <3> QED
        BY <3>1, <2>m, <1>a
    <2>6. CASE /\ i = 7 * (W - 1) + 1 + 2 * m
               /\ OwnerOps(r)[i] = Copy(Out(r, Peer(r, m)), Slot(r, W + m - 2))
      <3> DEFINE k == W + m - 2
      <3>1. k \in 0 .. Steps - 1 /\ ~(k < W - 1) /\ k >= W - 1 /\ r + k - (W - 2) = r + m
        <4>1. r \in Int
          BY <1>0 DEF Rank
        <4> QED
          BY <4>1, <2>m, <1>0
      <3>2. SlotShard(c, r, k) = Peer(r, m)
        BY <1>2, <3>1 DEF SlotShard, Peer
      <3>3. Holds(c, r, i + 1, Peer(r, m)) = SlotRanks(c, r, k)
        <4>1. (Peer(r, m) - r) % W = m
          BY Peers
        <4>2. i + 1 > 7 * W - 6 + 2 * m
          BY <2>6, <2>m, <1>0
        <4>3. OwnerHolds(r, i + 1, Peer(r, m)) = Rank
          BY <4>1, <4>2, <2>m DEF OwnerHolds
        <4> QED
          BY <4>3, <3>1, <1>2 DEF Holds, SlotRanks
      <3>4. Awaited(c, r, k, i)
        <4>1. 7 * (W - 1) + 2 * m \in 1 .. 9 * (W - 1) + 1 /\ 7 * (W - 1) + 2 * m < i
          BY <2>6, <2>m, <1>0
        <4>2. Program[c][r][7 * (W - 1) + 2 * m] = WaitFlag(W + m - 2)
          BY <2>1, OwnerAt
        <4> QED
          BY <2>1, <4>1, <4>2 DEF Awaited
      <3>5. Program[c][r][i] = Copy(Out(r, Peer(r, m)), Slot(r, k))
        BY <2>1, <2>6
      <3> HIDE DEF k
      <3> QED
        BY <2>m, <3>1, <3>2, <3>3, <3>4, <3>5
    <2> QED
      BY <2>3, <2>4, <2>5, <2>6
  <1> QED
    BY <1>1, <1>2 DEF AnyKind

(* A sum adds the rank's own part and slots of the same shard, each after   *)
(* the wait for it.                                                         *)
IsSum(c, r, i, j, K) ==
    /\ Program[c][r][i] = Sum(Out(r, j), {In(r, j)} \cup {Slot(r, k) : k \in K})
    /\ \A k \in K : SlotShard(c, r, k) = j /\ Awaited(c, r, k, i)
    /\ Holds(c, r, i + 1, j) = {r} \cup UNION {SlotRanks(c, r, k) : k \in K}

LEMMA SumForms ==
  ASSUME NEW c \in AnyKind, NEW r \in Rank, NEW i \in DOMAIN Program[c][r],
         Program[c][r][i].op = "sum"
  PROVE  \E j \in Rank, K \in SUBSET (0 .. Steps - 1) : IsSum(c, r, i, j, K)
  <1>0. W \in Nat /\ W >= 2 /\ Steps = 2 * W - 2 /\ r \in 0 .. W - 1 /\ r \in Nat
    BY WType DEF Rank
  <1>1. CASE c = "ring"
    <2>1. Program[c][r] = RingOps(r) /\ i \in 1 .. 2 + 4 * Steps /\ DOMAIN Program[c][r] = 1 .. 2 + 4 * Steps
      BY <1>1, ProgramType
    <2>2. PICK k \in 0 .. Steps - 1 :
                 i = 6 + 4 * k /\ k < W - 1
                   /\ RingOps(r)[i] = Sum(Out(r, RingRecv(r, k)), {In(r, RingRecv(r, k)), Slot(r, k)})
      BY <2>1, RingKinds
    <2> DEFINE j == RingRecv(r, k)
               K == {k}
    <2>3. j \in Rank /\ SlotShard(c, r, k) = j
      BY <1>1, RingWrites, RingPlaces
    <2>4. Awaited(c, r, k, i)
      <3>1. 5 + 4 * k \in 1 .. 2 + 4 * Steps /\ 5 + 4 * k < i
        BY <2>2, <1>0
      <3> QED
        BY <2>1, <3>1, RingAt DEF Awaited
    <2>5. Holds(c, r, i + 1, j) = {r} \cup SlotRanks(c, r, k)
      <3>1. i + 1 = 7 + 4 * k
        BY <2>2, <1>0
      <3> QED
        BY <1>1, <2>2, <3>1, RingWrites DEF Holds
    <2>6. /\ {In(r, j), Slot(r, k)} = {In(r, j)} \cup {Slot(r, h) : h \in K}
          /\ SlotRanks(c, r, k) = UNION {SlotRanks(c, r, h) : h \in K}
      OBVIOUS
    <2> HIDE DEF j
    <2>7. Program[c][r][i] = Sum(Out(r, j), {In(r, j)} \cup {Slot(r, h) : h \in K})
      BY <2>1, <2>2, <2>6 DEF j
    <2>8. K \in SUBSET (0 .. Steps - 1) /\ \A h \in K : SlotShard(c, r, h) = j /\ Awaited(c, r, h, i)
      BY <2>3, <2>4
    <2>9. Holds(c, r, i + 1, j) = {r} \cup UNION {SlotRanks(c, r, h) : h \in K}
      BY <2>5, <2>6
    <2> HIDE DEF K
    <2> QED
      BY <2>3, <2>7, <2>8, <2>9 DEF IsSum
  <1>2. CASE c = "owner"
    <2>1. Program[c][r] = OwnerOps(r) /\ DOMAIN Program[c][r] = 1 .. 9 * (W - 1) + 1
      BY <1>2, ProgramType
    <2>2. i = 5 * (W - 1) + 1 /\ OwnerOps(r)[i] = OwnerSum(r)
      BY <2>1, OwnerKinds
    <2> DEFINE K == {SlotIndex(s, r) : s \in Rank \ {r}}
    <2>3. \A s \in Rank \ {r} : SlotIndex(s, r) \in 0 .. W - 2 /\ (s - r) % W \in Nth /\ Peer(r, (s - r) % W) = s
      BY OwnerIndices, Peers
    <2>4. K \in SUBSET (0 .. Steps - 1) /\ K \in SUBSET (0 .. W - 2)
      BY <2>3, <1>0
    <2>5. {Slot(r, SlotIndex(s, r)) : s \in Rank \ {r}} = {Slot(r, k) : k \in K}
      OBVIOUS
    <2>6. ASSUME NEW s \in Rank \ {r}
          PROVE  /\ SlotShard(c, r, SlotIndex(s, r)) = r
                 /\ SlotRanks(c, r, SlotIndex(s, r)) = {s}
                 /\ Awaited(c, r, SlotIndex(s, r), i)
      <3> DEFINE k == SlotIndex(s, r)
      <3>1. k \in 0 .. W - 2 /\ k < W - 1 /\ ~(k >= W - 1) /\ k + 1 = (s - r) % W /\ (s - r) % W \in Int
        BY <2>3, <1>0 DEF SlotIndex, Nth
      <3>2. (r + k + 1) % W = s
        <4>1. r + k + 1 = r + ((s - r) % W)
          BY <3>1, <1>0
        <4> QED
          BY <4>1, <2>3 DEF Peer
      <3>3. s \in 0 .. W - 1 /\ s # r
        BY DEF Rank
      <3> DEFINE m == IF s < r THEN s + 1 ELSE s
      <3>4. m \in Nth /\ m \in 1 .. W - 1 /\ Sender(r, m) = s
        BY <3>3, <1>0 DEF Nth, Sender
      <3>5. Awaited(c, r, k, i)
        <4>1. OwnerOps(r)[4 * (W - 1) + m] = WaitFlag(k)
          BY <3>4, OwnerAt
        <4>2. 4 * (W - 1) + m \in 1 .. 9 * (W - 1) + 1 /\ 4 * (W - 1) + m < i
          BY <3>4, <2>2, <1>0
        <4> HIDE DEF m
        <4> QED
          BY <2>1, <4>1, <4>2 DEF Awaited
      <3> QED
        BY <1>2, <3>1, <3>2, <3>5 DEF SlotShard, SlotRanks
    <2>7. \A k \in K : SlotShard(c, r, k) = r /\ Awaited(c, r, k, i)
      BY <2>6
    <2>8. UNION {SlotRanks(c, r, k) : k \in K} = Rank \ {r}
      <3>1. \A k \in K : SlotRanks(c, r, k) \subseteq Rank \ {r}
        BY <2>6
      <3>2. \A s \in Rank \ {r} : SlotIndex(s, r) \in K /\ s \in SlotRanks(c, r, SlotIndex(s, r))
        BY <2>6
      <3> HIDE DEF K
      <3> QED
        BY <3>1, <3>2
    <2>9. Holds(c, r, i + 1, r) = Rank
      <3>1. i + 1 > 5 * W - 4
        BY <2>2, <1>0
      <3> QED
        BY <3>1, <1>2 DEF Holds, OwnerHolds
    <2>10. Program[c][r][i] = Sum(Out(r, r), {In(r, r)} \cup {Slot(r, k) : k \in K})
      BY <2>1, <2>2, <2>5 DEF OwnerSum
    <2> HIDE DEF K
    <2>11. Holds(c, r, i + 1, r) = {r} \cup UNION {SlotRanks(c, r, k) : k \in K}
      BY <2>8, <2>9
    <2> QED
      BY <2>4, <2>7, <2>10, <2>11 DEF IsSum
  <1> QED
    BY <1>1, <1>2 DEF AnyKind
=============================================================================
