-------------------------- MODULE HostShmAllReduce --------------------------
(***************************************************************************)
(* The host-staged all-reduce of                                           *)
(* vllm_sm80/distributed/host_shm_all_reduce.py: one shared-memory segment *)
(* mapped by every rank, flags and data slots in it, and three CUDA        *)
(* kernels (one-shot, two-shot, two-shot with a copy-engine publish) that  *)
(* share one device-side generation counter.                               *)
(*                                                                         *)
(* A slot is a function from words to values.  The words of a message are  *)
(* grouped into one sub-chunk per rank, the grouping the two-shot uses, so *)
(* a word is named by the rank that owns it.  What a word holds is         *)
(* abstracted to the number of the call its contribution belongs to: a sum *)
(* of call k is right iff every contribution added into it is of call k.   *)
(***************************************************************************)
EXTENDS Integers, FiniteSets

CONSTANTS
    Rank,        \* the ranks of the tensor-parallel group
    Algos,       \* the kernels message sizes of this workload select
    Modes,       \* how calls are issued: "eager" (host code) or "replay"
    MaxCalls,    \* bound: all-reduces per behaviour
    MaxLag,      \* bound: calls a host may run ahead of its GPU
    GenMod,      \* 2^width of the generation counter (2^32 in the code)
    CheckEvery   \* host calls between two looks at the error words

ASSUME HostShmAssumption ==
    /\ IsFiniteSet(Rank)
    /\ Algos \subseteq {"oneshot", "twoshot", "dma"}
    /\ Modes \subseteq {"eager", "replay"}
    /\ MaxCalls \in Nat
    /\ MaxLag \in Nat \ {0}
    /\ GenMod \in Nat \ {0} /\ GenMod % 2 = 0
    /\ CheckEvery \in Nat \ {0}

Call == 1 .. MaxCalls

VARIABLES
    plan,      \* plan[k]: the kernel and issue mode of call k, equal on all ranks
    issued,    \* issued[r]: calls rank r's host has put on the stream
    calls,     \* calls[r]: HostShmAllreduce.calls
    raised,    \* raised[r]: _check_error_flags raised, the rank is disabled
    done,      \* done[r]: kernels finished; seq = done % GenMod
    pc,        \* pc[r]: the phase of the kernel running on r's GPU
    todo,      \* todo[r]: words (or peers to hear from) left in this phase
    flag,      \* flag[b][p][r]: Header::arrive, barrier b, parity p
    scatter,   \* scatter[p][r]: scatter_p, r's double-buffered slot
    dmaSlot,   \* dmaSlot[r]: scatter_dma, r's single slot
    gather,    \* gather[p]: the shared gather buffer
    out,       \* out[r]: the output tensor of r's current or last call
    status,    \* status[r]: how r's last call ended
    err        \* ranks whose word of Header::err is set

gpuVars  == <<done, pc, todo, flag, scatter, dmaSlot, gather, out, status, err>>
hostVars == <<issued, calls, raised>>
vars     == <<plan, issued, calls, raised, done, pc, todo, flag, scatter,
              dmaSlot, gather, out, status, err>>

-----------------------------------------------------------------------------
(* The generation of call k as the 32-bit counter shows it, and its parity. *)
Gen(k) == k % GenMod
OneSlot(k) == 0                   \* mutant of Parity: no double buffering
Parity(k) == Gen(k) % 2

Cur(r) == done[r] + 1
Algo(r) == plan[Cur(r)].algo

(* The words rank r makes visible to its peers: everything, or everything  *)
(* but the sub-chunk only r itself will reduce.                            *)
Published(a, r) == IF a = "oneshot" THEN Rank ELSE Rank \ {r}

(* The words rank r reduces: the whole message, or its own sub-chunk. *)
Reduced(a, r) == IF a = "oneshot" THEN Rank ELSE {r}

(* What r reads of q's contribution to word w: its own comes from `inp`. *)
Source(r, q, w) ==
    IF q = r THEN Cur(r)
    ELSE IF Algo(r) = "dma" THEN dmaSlot[q][w]
    ELSE scatter[Parity(Cur(r))][q][w]

Sum(r, w) == [q \in Rank |-> Source(r, q, w)]

NoSum == [q \in Rank |-> 0]
Exact(k) == [q \in Rank |-> k]

-----------------------------------------------------------------------------
Init ==
    /\ plan \in [Call -> [algo : Algos, mode : Modes]]
    /\ issued = [r \in Rank |-> 0]
    /\ calls = [r \in Rank |-> 0]
    /\ raised = [r \in Rank |-> FALSE]
    /\ done = [r \in Rank |-> 0]
    /\ pc = [r \in Rank |-> "idle"]
    /\ todo = [r \in Rank |-> {}]
    /\ flag = [b \in 0..1 |-> [p \in 0..1 |-> [r \in Rank |-> 0]]]
    /\ scatter = [p \in 0..1 |-> [r \in Rank |-> [w \in Rank |-> 0]]]
    /\ dmaSlot = [r \in Rank |-> [w \in Rank |-> 0]]
    /\ gather = [p \in 0..1 |-> [w \in Rank |-> NoSum]]
    /\ out = [r \in Rank |-> [w \in Rank |-> NoSum]]
    /\ status = [r \in Rank |-> "none"]
    /\ err = {}

(* The host puts the next all-reduce on the stream.  Eager Python code runs *)
(* host_all_reduce, which counts the call and looks at the error words      *)
(* every CheckEvery of them, after the launch; a replayed CUDA graph        *)
(* launches the same kernel and runs none of that.                          *)
Launch(r) ==
    LET k == issued[r] + 1
        eager == plan[k].mode = "eager"
        n == IF eager THEN calls[r] + 1 ELSE calls[r]
    IN  /\ ~raised[r]
        /\ issued[r] < MaxCalls
        /\ issued[r] - done[r] < MaxLag
        /\ issued' = [issued EXCEPT ![r] = k]
        /\ calls' = [calls EXCEPT ![r] = n]
        /\ raised' = [raised EXCEPT ![r] =
                        eager /\ n % CheckEvery = 0 /\ err # {}]
        /\ UNCHANGED <<plan, gpuVars>>

(* The kernel (or the copy-engine publish queued in front of it) starts. *)
Start(r) ==
    /\ pc[r] = "idle"
    /\ done[r] < issued[r]
    /\ pc' = [pc EXCEPT ![r] = "publish"]
    /\ todo' = [todo EXCEPT ![r] = Published(Algo(r), r)]
    /\ out' = [out EXCEPT ![r] = [w \in Rank |-> NoSum]]
    /\ status' = [status EXCEPT ![r] = "none"]
    /\ UNCHANGED <<plan, hostVars, done, flag, scatter, dmaSlot, gather, err>>

(* Phase 1: one word of our contribution reaches the shared segment. *)
PublishWord(r, w) ==
    /\ pc[r] = "publish"
    /\ w \in todo[r]
    /\ todo' = [todo EXCEPT ![r] = @ \ {w}]
    /\ IF Algo(r) = "dma"
         THEN /\ dmaSlot' = [dmaSlot EXCEPT ![r][w] = Cur(r)]
              /\ UNCHANGED scatter
         ELSE /\ scatter' = [scatter EXCEPT ![Parity(Cur(r))][r][w] = Cur(r)]
              /\ UNCHANGED dmaSlot
    /\ UNCHANGED <<plan, hostVars, done, pc, flag, gather, out, status, err>>

(* Mutant of Release: both barriers use the flags of the first. *)
ReleaseFirst(r, b) ==
    /\ flag' = [flag EXCEPT ![0][Parity(Cur(r))][r] = Gen(Cur(r))]
    /\ pc' = [pc EXCEPT ![r] = IF b = 0 THEN "bar0" ELSE "bar1"]
    /\ todo' = [todo EXCEPT ![r] = Rank \ {r}]
    /\ UNCHANGED <<plan, hostVars, done, scatter, dmaSlot, gather, out,
                   status, err>>

(* block_barrier, first half: publish the generation on our own flag. *)
Release(r, b) ==
    /\ flag' = [flag EXCEPT ![b][Parity(Cur(r))][r] = Gen(Cur(r))]
    /\ pc' = [pc EXCEPT ![r] = IF b = 0 THEN "bar0" ELSE "bar1"]
    /\ todo' = [todo EXCEPT ![r] = Rank \ {r}]
    /\ UNCHANGED <<plan, hostVars, done, scatter, dmaSlot, gather, out,
                   status, err>>

Release0(r) ==
    /\ pc[r] = "publish"
    /\ todo[r] = {}
    /\ Release(r, 0)

Release1(r) ==
    /\ pc[r] = "reduce"
    /\ todo[r] = {}
    /\ Algo(r) # "oneshot"
    /\ Release(r, 1)

Barrier(r) == IF pc[r] = "bar0" THEN 0 ELSE 1

(* One polling thread sees its peer's flag equal to the generation. *)
SeeFlag(r, q) ==
    /\ pc[r] \in {"bar0", "bar1"}
    /\ q \in todo[r]
    /\ flag[Barrier(r)][Parity(Cur(r))][q] = Gen(Cur(r))
    /\ todo' = [todo EXCEPT ![r] = @ \ {q}]
    /\ UNCHANGED <<plan, hostVars, done, pc, flag, scatter, dmaSlot, gather,
                   out, status, err>>

(* Mutant of TimeOut: bail and the barrier both advance the counter. *)
TimeOutTwice(r) ==
    /\ pc[r] \in {"bar0", "bar1"}
    /\ todo[r] # {}
    /\ err' = err \cup {r}
    /\ done' = [done EXCEPT ![r] = @ + 2]
    /\ pc' = [pc EXCEPT ![r] = "idle"]
    /\ todo' = [todo EXCEPT ![r] = {}]
    /\ status' = [status EXCEPT ![r] = "aborted"]
    /\ UNCHANGED <<plan, hostVars, flag, scatter, dmaSlot, gather, out>>

(* bail: a spin used up its clock64() budget.  The error word is set, the  *)
(* counter advances and the kernel returns.                                *)
TimeOut(r) ==
    /\ pc[r] \in {"bar0", "bar1"}
    /\ todo[r] # {}
    /\ err' = err \cup {r}
    /\ done' = [done EXCEPT ![r] = @ + 1]
    /\ pc' = [pc EXCEPT ![r] = "idle"]
    /\ todo' = [todo EXCEPT ![r] = {}]
    /\ status' = [status EXCEPT ![r] = "aborted"]
    /\ UNCHANGED <<plan, hostVars, flag, scatter, dmaSlot, gather, out>>

(* Mutant of Pass: the block does not wait for its polling threads. *)
PassAtOnce(r) ==
    /\ pc[r] \in {"bar0", "bar1"}
    /\ pc' = [pc EXCEPT ![r] = IF pc[r] = "bar0" THEN "reduce" ELSE "gather"]
    /\ todo' = [todo EXCEPT ![r] = IF pc[r] = "bar0"
                                     THEN Reduced(Algo(r), r)
                                     ELSE Rank \ {r}]
    /\ UNCHANGED <<plan, hostVars, done, flag, scatter, dmaSlot, gather, out,
                   status, err>>

(* Every peer has arrived: the kernel goes on to its next phase. *)
Pass(r) ==
    /\ pc[r] \in {"bar0", "bar1"}
    /\ todo[r] = {}
    /\ pc' = [pc EXCEPT ![r] = IF pc[r] = "bar0" THEN "reduce" ELSE "gather"]
    /\ todo' = [todo EXCEPT ![r] = IF pc[r] = "bar0"
                                     THEN Reduced(Algo(r), r)
                                     ELSE Rank \ {r}]
    /\ UNCHANGED <<plan, hostVars, done, flag, scatter, dmaSlot, gather, out,
                   status, err>>

(* Reduce one word over all ranks; a two-shot also publishes the sum. *)
ReduceWord(r, w) ==
    /\ pc[r] = "reduce"
    /\ w \in todo[r]
    /\ todo' = [todo EXCEPT ![r] = @ \ {w}]
    /\ out' = [out EXCEPT ![r][w] = Sum(r, w)]
    /\ gather' = IF Algo(r) = "oneshot" THEN gather
                 ELSE [gather EXCEPT ![Parity(Cur(r))][w] = Sum(r, w)]
    /\ UNCHANGED <<plan, hostVars, done, pc, flag, scatter, dmaSlot, status,
                   err>>

(* Phase 3 of a two-shot: copy a peer's reduced word into the output. *)
GatherWord(r, w) ==
    /\ pc[r] = "gather"
    /\ w \in todo[r]
    /\ todo' = [todo EXCEPT ![r] = @ \ {w}]
    /\ out' = [out EXCEPT ![r][w] = gather[Parity(Cur(r))][w]]
    /\ UNCHANGED <<plan, hostVars, done, pc, flag, scatter, dmaSlot, gather,
                   status, err>>

(* The last store of the kernel: seq[b] = gen. *)
Finish(r) ==
    /\ \/ pc[r] = "gather"
       \/ pc[r] = "reduce" /\ Algo(r) = "oneshot"
    /\ todo[r] = {}
    /\ done' = [done EXCEPT ![r] = @ + 1]
    /\ pc' = [pc EXCEPT ![r] = "idle"]
    /\ status' = [status EXCEPT ![r] = "ok"]
    /\ UNCHANGED <<plan, hostVars, todo, flag, scatter, dmaSlot, gather, out,
                   err>>

(* What rank r's GPU does on its own stream, and giving up a spin. *)
Device(r) ==
    \/ Start(r)
    \/ \E w \in Rank : PublishWord(r, w) \/ ReduceWord(r, w) \/ GatherWord(r, w)
    \/ \E q \in Rank : SeeFlag(r, q)
    \/ Release0(r) \/ Release1(r) \/ Pass(r) \/ Finish(r)
Kernel(r) == Device(r) \/ TimeOut(r)

Next == \E r \in Rank : Launch(r) \/ Kernel(r)

Spec == Init /\ [][Next]_vars

(* A GPU keeps running what is on its stream, and every rank's host issues  *)
(* the same calls.  Nothing makes a spin time out.                          *)
Fairness == \A r \in Rank : WF_vars(Launch(r)) /\ WF_vars(Device(r))
FairSpec == Spec /\ Fairness

-----------------------------------------------------------------------------
Phases == {"idle", "publish", "bar0", "reduce", "bar1", "gather"}

TypeOK ==
    /\ plan \in [Call -> [algo : Algos, mode : Modes]]
    /\ issued \in [Rank -> 0 .. MaxCalls]
    /\ calls \in [Rank -> 0 .. MaxCalls]
    /\ raised \in [Rank -> BOOLEAN]
    /\ done \in [Rank -> 0 .. MaxCalls]
    /\ pc \in [Rank -> Phases]
    /\ todo \in [Rank -> SUBSET Rank]
    /\ flag \in [0..1 -> [0..1 -> [Rank -> 0 .. GenMod - 1]]]
    /\ scatter \in [0..1 -> [Rank -> [Rank -> 0 .. MaxCalls]]]
    /\ dmaSlot \in [Rank -> [Rank -> 0 .. MaxCalls]]
    /\ gather \in [0..1 -> [Rank -> [Rank -> 0 .. MaxCalls]]]
    /\ out \in [Rank -> [Rank -> [Rank -> 0 .. MaxCalls]]]
    /\ status \in [Rank -> {"none", "ok", "aborted"}]
    /\ err \subseteq Rank

(* No call is ever wrong in silence: a rank whose last all-reduce ran to    *)
(* its end holds in every word the sum of all ranks' contributions to that  *)
(* very call, unless some rank's error word is set.  It fails if a slot, a  *)
(* gather buffer or a flag is reused before its last reader is through.     *)
WrongSumIsReported ==
    \A r \in Rank :
        (status[r] = "ok" /\ err = {}) => \A w \in Rank : out[r][w] = Exact(done[r])

(* Until a spin times out no rank finishes a call that a peer has not yet   *)
(* joined: ranks are never more than one all-reduce apart.                  *)
SkewAtMostOne ==
    err = {} => \A r, q \in Rank : done[r] - done[q] \in {-1, 0, 1}

(* A spin that is still waiting waits for a peer that has not arrived, not  *)
(* for one whose flag has been overwritten: without a timeout no rank's     *)
(* flag of the polled parity is ahead of the generation polled for.         *)
PolledFlagNotOverrun ==
    err = {} => \A r \in Rank : pc[r] \in {"bar0", "bar1"} =>
        \A q \in todo[r] :
            done[q] >= Cur(r) =>
                flag[Barrier(r)][Parity(Cur(r))][q] = Gen(Cur(r))

(* "On timeout the block sets an error word in the shared header and        *)
(* returns without writing its output".                                     *)
TimeoutLeavesOutUntouched ==
    \A r \in Rank :
        status[r] = "aborted" => \A w \in Rank : out[r][w] = NoSum

(* The spins of the ranks never form a cycle, whatever kernels the calls    *)
(* use: unless a spin times out or a host raises, every call of every rank  *)
(* ends.                                                                    *)
EveryCallCompletes == <>(err # {} \/ \A r \in Rank : done[r] = MaxCalls)

-----------------------------------------------------------------------------
(* The refinement mapping to the abstract all-reduce.  A call begins when   *)
(* its kernel starts; its result is the output tensor once it has returned. *)
Abstract == INSTANCE AllReduce WITH
    Word     <- Rank,
    begun    <- [r \in Rank |-> IF pc[r] = "idle" THEN done[r] ELSE Cur(r)],
    finished <- done,
    result   <- [r \in Rank |-> IF status[r] = "ok" THEN out[r]
                                 ELSE [w \in Rank |-> NoSum]],
    broken   <- (err # {})

(* The kernels implement the abstract all-reduce. *)
ImplementsAllReduce == Abstract!Spec
=============================================================================
