--------------------------- MODULE FlagsAllReduce ---------------------------
(***************************************************************************)
(* The flags-in-data all-reduce of                                         *)
(* vllm_sm80/distributed/custom_all_reduce_flags.py.  There are no flags:  *)
(* a rank pushes packs into its peers' buffers, and a pack has arrived     *)
(* once it is not the sentinel.  Three buffer stages rotate; each call     *)
(* re-fills the stage of the previous call with the sentinel, as many      *)
(* packs as that call's epoch word says.                                   *)
(*                                                                         *)
(* A pack's value is the set of contributions added into it, the empty set *)
(* standing for the sentinel; a contribution <<q, k, e>> is rank q's value *)
(* of element e in call k.  For two_shot_z an element is a warp block of   *)
(* packs and an address a block slot.                                      *)
(***************************************************************************)
EXTENDS Integers, FiniteSets

CONSTANTS
    R,          \* number of ranks
    Sizes,      \* Sizes[k]: message sizes kernel k is used for, in packs
    MaxBlocks,  \* CTAs of a grid at most
    LbMax,      \* block slots per area of two_shot_z
    MaxCalls    \* bound: all-reduces per behaviour

Rank  == 0 .. R - 1
Cta   == 0 .. MaxBlocks - 1
Call  == 1 .. MaxCalls
Kinds == {"two_shot", "one_shot", "two_shot_z"}

ASSUME FlagsAssumption ==
    /\ R \in Nat \ {0, 1}
    /\ Sizes \in [Kinds -> SUBSET (Nat \ {0})]
    /\ MaxBlocks \in Nat \ {0}
    /\ LbMax \in Nat
    /\ MaxCalls \in Nat \ {0}

(* The messages a call can have, and the elements of any of them. *)
Message ==
    {c \in [kind : Kinds, size : UNION {Sizes[k] : k \in Kinds}] : c.size \in Sizes[c.kind]}
Elem == UNION {0 .. c.size - 1 : c \in Message}

VARIABLES
    plan,      \* plan[k]: kernel and size of call k, equal on all ranks
    done,      \* done[r]: calls returned
    w0,        \* w0[r]: epoch word 0, the stage
    written,   \* written[r][s]: epoch word 2+s, the extent last written
    phase,     \* phase[r][t]: where CTA t of r's kernel is
    local,     \* local[r][t]: the stage that CTA read
    todo,      \* todo[r][t]: what is left of the CTA's current loop
    buf,       \* buf[r][s][a]: rank r's receive buffer
    out,       \* out[r][e]: the output tensor of the current or last call
    trapped    \* ranks whose kernel trapped

vars == <<plan, done, w0, written, phase, local, todo, buf, out, trapped>>

-----------------------------------------------------------------------------
(* The message of rank r's current call. *)
Now(r) == plan[done[r] + 1]

(* part_len: ranks 0..R-2 own size \div R elements each, the last the rest. *)
PartLen(q, size) ==
    IF q = R - 1 THEN size - (R - 1) * (size \div R) ELSE size \div R
Largest(size) == PartLen(R - 1, size)

(* all_reduce_z refuses a message with more blocks than an area has slots.  *)
ASSUME SlotsAssumption == \A n \in Sizes["two_shot_z"] : Largest(n) <= LbMax

(* The elements of message c that rank q reduces.                           *)
Owned(c, q) == IF c.kind = "one_shot" THEN c.size ELSE PartLen(q, c.size)

(* Where sender s puts item i, and owner q's sum for i.  Only the           *)
(* compressed layout has areas of a fixed stride.                           *)
Stride(c) ==
    CASE c.kind = "one_shot" -> c.size
      [] c.kind = "two_shot" -> Largest(c.size)
      [] c.kind = "two_shot_z" -> LbMax
ScatterAddr(c, s, i) == s * Stride(c) + i
GatherAddr(c, q, i) == (R + q) * Stride(c) + i

(* Mutant of Extent: a two-shot forgets that it was sent sums as well. *)
ExtentScattered(c) ==
    CASE c.kind = "one_shot" -> R * c.size
      [] c.kind = "two_shot" -> R * Largest(c.size)
      [] c.kind = "two_shot_z" -> Largest(c.size)

(* The epoch word of a finished call, and the addresses it stands for. *)
Extent(c) ==
    CASE c.kind = "one_shot" -> R * c.size
      [] c.kind = "two_shot" -> 2 * R * Largest(c.size)
      [] c.kind = "two_shot_z" -> Largest(c.size)
Dirty(c, n) ==
    IF c.kind = "two_shot_z"
      THEN {a * LbMax + b : a \in 0 .. 2 * R - 1, b \in 0 .. n - 1}
      ELSE 0 .. n - 1
Addr == UNION {Dirty(c, Extent(c)) : c \in Message}

(* The grid of a call: a CTA per pack of the largest partition (the         *)
(* one-shot: of the message), at most MaxBlocks.                            *)
Blocks(c) ==
    LET work == Owned(c, R - 1) IN IF work > MaxBlocks THEN MaxBlocks ELSE work
Grid(c) == 0 .. Blocks(c) - 1

(* The CTA that takes index i: the one congruent to it, or in two_shot_z    *)
(* the one whose range of block indices it is in.                           *)
PerCta(c) == (Largest(c.size) + Blocks(c) - 1) \div Blocks(c)
CtaOf(c, i) == IF c.kind = "two_shot_z" THEN i \div PerCta(c) ELSE i % Blocks(c)

(* The loops of a kernel; two_shot_z re-fills after its sums.               *)
LoopsOf(c) ==
    IF c.kind = "two_shot_z" THEN <<"push", "reduce", "refill", "gather">>
                             ELSE <<"push", "refill", "reduce", "gather">>

(* What CTA t of rank r does in a loop, the previous call's stage having    *)
(* been written to extent n.                                                *)
ToPeers(c, r, t) ==
    {x \in (Rank \ {r}) \X Elem : x[2] < Owned(c, x[1]) /\ CtaOf(c, x[2]) = t}
ItemsOf(c, r, t, n, loop) ==
    CASE loop = "push"   -> ToPeers(c, r, t)
      [] loop = "refill" -> {<<r, a>> : a \in {b \in Dirty(c, n) : b % Blocks(c) = t}}
      [] loop = "reduce" -> {<<r, i>> : i \in {j \in Elem : j < Owned(c, r) /\ CtaOf(c, j) = t}}
      [] loop = "gather" -> IF c.kind = "one_shot" THEN {} ELSE ToPeers(c, r, t)

(* The element index i of partition q is. *)
ElemOf(c, q, i) == IF c.kind = "one_shot" THEN i ELSE q * (c.size \div R) + i

NoOutput == [e \in Elem |-> {}]
SumOfElem(k, e) == {<<q, k, e>> : q \in Rank}

-----------------------------------------------------------------------------
(* The compressed kernel has buffers of its own. *)
Plans ==
    {p \in [Call -> Message] :
        \A k, l \in Call : p[k].kind = "two_shot_z" => p[l].kind = "two_shot_z"}

Init ==
    /\ plan \in Plans
    /\ done = [r \in Rank |-> 0]
    /\ w0 = [r \in Rank |-> 0]
    /\ written = [r \in Rank |-> [s \in 0..2 |-> 0]]
    /\ phase = [r \in Rank |-> [t \in Cta |-> "idle"]]
    /\ local = [r \in Rank |-> [t \in Cta |-> 0]]
    /\ todo = [r \in Rank |-> [t \in Cta |-> {}]]
    /\ buf = [r \in Rank |-> [s \in 0..2 |-> [a \in Addr |-> {}]]]
    /\ out = [r \in Rank |-> NoOutput]
    /\ trapped = {}

(* The next kernel on the stream is launched. *)
Start(r) ==
    /\ r \notin trapped
    /\ done[r] < MaxCalls
    /\ \A t \in Cta : phase[r][t] = "idle"
    /\ phase' = [phase EXCEPT ![r] = [t \in Cta |-> IF t \in Grid(Now(r)) THEN "start" ELSE "end"]]
    /\ out' = [out EXCEPT ![r] = NoOutput]
    /\ UNCHANGED <<plan, done, w0, written, local, todo, buf, trapped>>

In(r, t, p) == r \notin trapped /\ phase[r][t] = p

(* Enter the first loop from the n-th on that has items; after the last one *)
(* CTA 0 has the epoch to advance and the others return.                    *)
Enter(r, t, stage, n) ==
    LET Items(loop) == ItemsOf(Now(r), r, t, written[r][(stage + 2) % 3], loop)
        busy == {m \in n .. 4 : Items(LoopsOf(Now(r))[m]) # {}}
        loop == LoopsOf(Now(r))[CHOOSE m \in busy : \A j \in busy : m <= j]
    IN  /\ phase' = [phase EXCEPT ![r][t] =
                       IF busy # {} THEN loop ELSE IF t = 0 THEN "epoch" ELSE "end"]
        /\ todo' = [todo EXCEPT ![r][t] =
                       IF busy # {} THEN Items(loop) ELSE {}]

(* One item of the current loop is done. *)
ItemDone(r, t, item) ==
    LET n == CHOOSE m \in 1 .. 4 : LoopsOf(Now(r))[m] = phase[r][t]
    IN  IF todo[r][t] = {item}
          THEN Enter(r, t, local[r][t], n + 1)
          ELSE /\ todo' = [todo EXCEPT ![r][t] = @ \ {item}]
               /\ UNCHANGED phase

(* A CTA reads the stage and counts itself as having read it. *)
ReadStage(r, t) ==
    /\ In(r, t, "start")
    /\ local' = [local EXCEPT ![r][t] = w0[r]]
    /\ Enter(r, t, w0[r], 1)
    /\ UNCHANGED <<plan, done, w0, written, buf, out, trapped>>

(* Push one element of my input to the rank that reduces it. *)
Push(r, t, q, i) ==
    /\ In(r, t, "push")
    /\ <<q, i>> \in todo[r][t]
    /\ buf' = [buf EXCEPT ![q][local[r][t]][ScatterAddr(Now(r), r, i)] =
                 {<<r, done[r] + 1, ElemOf(Now(r), q, i)>>}]
    /\ ItemDone(r, t, <<q, i>>)
    /\ UNCHANGED <<plan, done, w0, written, local, out, trapped>>

(* Mutant of Refill: it re-fills the stage of the next call. *)
RefillNextStage(r, t) ==
    /\ In(r, t, "refill")
    /\ \E x \in todo[r][t] :
        /\ \A y \in todo[r][t] : x[2] <= y[2]
        /\ buf' = [buf EXCEPT ![r][(local[r][t] + 1) % 3][x[2]] = {}]
        /\ ItemDone(r, t, x)
    /\ UNCHANGED <<plan, done, w0, written, local, out, trapped>>

(* Re-fill the next address of the previous call's stage with the sentinel, *)
(* in the order a thread takes them.                                        *)
Refill(r, t) ==
    /\ In(r, t, "refill")
    /\ \E x \in todo[r][t] :
        /\ \A y \in todo[r][t] : x[2] <= y[2]
        /\ buf' = [buf EXCEPT ![r][(local[r][t] + 2) % 3][x[2]] = {}]
        /\ ItemDone(r, t, x)
    /\ UNCHANGED <<plan, done, w0, written, local, out, trapped>>

(* What CTA t of rank r finds in the slot of peer s for item i. *)
Received(r, t, s, i) == buf[r][local[r][t]][ScatterAddr(Now(r), s, i)]

(* wait_peers has seen all peers' packs: sum them with my own, and in a     *)
(* two-shot push the sum to every peer.                                     *)
Reduce(r, t, i) ==
    LET e == ElemOf(Now(r), r, i)
        sum == {<<r, done[r] + 1, e>>} \cup
                 UNION {Received(r, t, s, i) : s \in Rank \ {r}}
        a == GatherAddr(Now(r), r, i)
    IN  /\ In(r, t, "reduce")
        /\ <<r, i>> \in todo[r][t]
        /\ \A s \in Rank \ {r} : Received(r, t, s, i) # {}
        /\ out' = [out EXCEPT ![r][e] = sum]
        /\ buf' = IF Now(r).kind = "one_shot" THEN buf
                  ELSE [q \in Rank |->
                          IF q = r THEN buf[q]
                          ELSE [buf[q] EXCEPT ![local[r][t]][a] = sum]]
        /\ ItemDone(r, t, <<r, i>>)
        /\ UNCHANGED <<plan, done, w0, written, local, trapped>>

(* wait1 has seen owner q's sum: copy it to the output. *)
Gather(r, t, q, i) ==
    LET sum == buf[r][local[r][t]][GatherAddr(Now(r), q, i)]
    IN  /\ In(r, t, "gather")
        /\ <<q, i>> \in todo[r][t]
        /\ sum # {}
        /\ out' = [out EXCEPT ![r][ElemOf(Now(r), q, i)] = sum]
        /\ ItemDone(r, t, <<q, i>>)
        /\ UNCHANGED <<plan, done, w0, written, local, buf, trapped>>

(* Mutant of AdvanceEpoch: CTA 0 does not wait for the others to have read  *)
(* the stage.                                                               *)
AdvanceEarly(r) ==
    /\ In(r, 0, "epoch")
    /\ phase' = [phase EXCEPT ![r][0] = "end"]
    /\ written' = [written EXCEPT ![r][local[r][0]] = Extent(Now(r))]
    /\ w0' = [w0 EXCEPT ![r] = (local[r][0] + 1) % 3]
    /\ UNCHANGED <<plan, done, local, todo, buf, out, trapped>>

(* The end of the kernel: CTA 0 waits until every CTA has read the stage    *)
(* and advances the epoch.                                                  *)
AdvanceEpoch(r) ==
    /\ In(r, 0, "epoch")
    /\ \A t \in Cta : phase[r][t] # "start"
    /\ phase' = [phase EXCEPT ![r][0] = "end"]
    /\ written' = [written EXCEPT ![r][local[r][0]] = Extent(Now(r))]
    /\ w0' = [w0 EXCEPT ![r] = (local[r][0] + 1) % 3]
    /\ UNCHANGED <<plan, done, local, todo, buf, out, trapped>>

(* Every CTA has returned: the next kernel on the stream may start. *)
Return(r) ==
    /\ r \notin trapped
    /\ \A t \in Cta : phase[r][t] = "end"
    /\ phase' = [phase EXCEPT ![r] = [t \in Cta |-> "idle"]]
    /\ done' = [done EXCEPT ![r] = @ + 1]
    /\ UNCHANGED <<plan, w0, written, local, todo, buf, out, trapped>>

(* The peers a waiting CTA has not heard from. *)
Awaited(r, t) ==
    (IF phase[r][t] # "reduce" THEN {}
     ELSE {s \in Rank \ {r} : \E x \in todo[r][t] : Received(r, t, s, x[2]) = {}})
    \cup
    (IF phase[r][t] # "gather" THEN {}
     ELSE {q \in Rank \ {r} : \E i \in Elem :
             /\ <<q, i>> \in todo[r][t]
             /\ buf[r][local[r][t]][GatherAddr(Now(r), q, i)] = {}})

(* wait_failed: the wait outlasted its limit, the error record is written   *)
(* and the kernel traps; the context is gone and the process exits.         *)
Trap(r, t) ==
    /\ r \notin trapped
    /\ Awaited(r, t) # {}
    /\ trapped' = trapped \cup {r}
    /\ UNCHANGED <<plan, done, w0, written, phase, local, todo, buf, out>>

CtaProgress(r, t) ==
    \/ ReadStage(r, t)
    \/ \E q \in Rank, i \in Elem : Push(r, t, q, i) \/ Gather(r, t, q, i)
    \/ Refill(r, t)
    \/ \E i \in Elem : Reduce(r, t, i)
    \/ t = 0 /\ AdvanceEpoch(r)

(* What a rank does as long as no wait of its kernel times out. *)
Progress(r) == Start(r) \/ Return(r) \/ \E t \in Cta : CtaProgress(r, t)

Next == \E r \in Rank : Progress(r) \/ \E t \in Cta : Trap(r, t)

Spec == Init /\ [][Next]_vars

(* A launched grid fits on the GPU, so its CTAs run, and every rank issues  *)
(* the same calls.  Nothing makes a wait time out.                          *)
Fairness == \A r \in Rank : WF_vars(Progress(r))
FairSpec == Spec /\ Fairness

-----------------------------------------------------------------------------
Phases == {"idle", "start", "push", "refill", "reduce", "gather", "epoch", "end"}
Contribution == Rank \X Call \X Elem

TypeOK ==
    /\ plan \in Plans
    /\ done \in [Rank -> 0 .. MaxCalls]
    /\ w0 \in [Rank -> 0..2]
    /\ written \in [Rank -> [0..2 -> {0} \cup {Extent(c) : c \in Message}]]
    /\ phase \in [Rank -> [Cta -> Phases]]
    /\ local \in [Rank -> [Cta -> 0..2]]
    /\ todo \in [Rank -> [Cta -> SUBSET (Rank \X (Elem \cup Addr))]]
    /\ buf \in [Rank -> [0..2 -> [Addr -> SUBSET Contribution]]]
    /\ out \in [Rank -> [Elem -> SUBSET Contribution]]
    /\ trapped \subseteq Rank

Elements(k) == 0 .. plan[k].size - 1

(* A call that returns holds, in every element, exactly one contribution of *)
(* every rank, all of this call: no stale pack of an earlier use of the     *)
(* stage was taken for fresh data.                                          *)
ReturnedIsExact ==
    \A r \in Rank :
        (done[r] > 0 /\ \A t \in Cta : phase[r][t] = "idle") =>
            \A e \in Elements(done[r]) : out[r][e] = SumOfElem(done[r], e)

(* A push never lands on a pack that has not been read and re-filled since  *)
(* its last use: every slot a pack is stored into holds the sentinel.       *)
PushLandsOnSentinel ==
    [][\A r \in Rank, s \in 0..2, a \in Addr :
         buf'[r][s][a] # {} => buf[r][s][a] \in {{}, buf'[r][s][a]}]_vars

(* "Rank %d never delivered its data": a wait is only ever unsatisfied for  *)
(* a peer that has not yet run the same phase of the same call.  Data once  *)
(* pushed is never wiped by a re-fill before it is read.                    *)
BlamedPeerIsLate ==
    \A r \in Rank, t \in Cta : \A q \in Awaited(r, t) :
        /\ done[q] <= done[r]
        /\ done[q] = done[r] =>
             \E u \in Cta : phase[q][u] \in
               (IF phase[r][t] = "reduce" THEN {"idle", "start", "push"}
                ELSE {"idle", "start", "push", "refill", "reduce"})

(* The waits of the ranks never form a cycle, whatever mix of kernels,      *)
(* sizes and grids the calls use: unless a wait times out, every call of    *)
(* every rank completes.                                                    *)
EveryCallCompletes == <>(trapped # {} \/ \A r \in Rank : done[r] = MaxCalls)

-----------------------------------------------------------------------------
(* The mapping to the abstract all-reduce: the calls rank r has begun, and   *)
(* the call whose contribution of rank q element e of its output holds.     *)
(* Elements past the message count as summed.  No step is mapped to a       *)
(* fault: a rank that cannot finish traps, and its call is never finished.  *)
Between(r) == \A t \in Cta : phase[r][t] = "idle"
Begun(r) == IF Between(r) THEN done[r] ELSE done[r] + 1
CallIn(r, e, q) ==
    IF done[r] = 0 \/ ~Between(r) THEN 0
    ELSE IF e \in Elements(done[r]) => <<q, done[r], e>> \in out[r][e] THEN done[r] ELSE 0

Abstract == INSTANCE AllReduce WITH
    Word     <- Elem,
    begun    <- [r \in Rank |-> Begun(r)],
    finished <- done,
    result   <- [r \in Rank |-> [e \in Elem |-> [q \in Rank |-> CallIn(r, e, q)]]],
    broken   <- FALSE

(* The kernels implement the abstract all-reduce, faults included. *)
ImplementsAllReduce == Abstract!Spec
=============================================================================
