--------------------------- MODULE CeRingAllReduce ---------------------------
(***************************************************************************)
(* The copy-engine all-reduces of                                          *)
(* vllm_sm80/distributed/ce_ring_all_reduce.py, the ring and the owner     *)
(* sum, which share the scratch slots, the step flags and the epoch, with  *)
(* the sticky error word of vllm_sm80/distributed/step_errors.py.          *)
(*                                                                         *)
(* A call is a program of operations that the rank's stream executes in    *)
(* order.  A wait that lasts too long sets the rank's error word and goes  *)
(* on with whatever the slot holds.  What a location holds is the set of   *)
(* contributions added into it; <<q, k, j>> is rank q's shard j of call k. *)
(***************************************************************************)
EXTENDS Integers, FiniteSets, Sequences

CONSTANTS
    W,            \* the world size
    Kinds,        \* the sums the model asks for: "ring", "owner"
    MaxCalls,     \* bound: all-reduces per behaviour
    MaxTimeouts   \* bound: waits that outlast WAIT_TIMEOUT_NS

ASSUME CeRingAssumption ==
    /\ W \in Nat \ {0, 1}
    /\ Kinds \subseteq {"ring", "owner"}
    /\ MaxCalls \in Nat /\ MaxTimeouts \in Nat

Rank == 0 .. W - 1
Call == 1 .. MaxCalls
Steps == 2 * (W - 1)
Flag == 0 .. Steps + W - 1

VARIABLES
    setup,     \* setup[r]: the step of the constructor r is at, see Stage
    refused,   \* <<b, r>>: r could not open a peer's handle of buffer b
    owned,     \* <<b, r>>: r's buffer b is allocated
    absent,    \* ranks whose constructor raised PeerBuffersUnavailable
    plan,      \* plan[k]: the kind of call k, equal on all ranks
    epoch,     \* epoch[r]: calls launched
    pc,        \* pc[r]: next operation of the running call, 0 between calls
    flags,     \* flags[r][f]: r's flag block
    mem,       \* mem[l]: what a slot or an output shard holds
    error,     \* ranks whose sticky error word is set
    timeouts,  \* waits given up so far
    shown,     \* ranks whose host took the last call's result as good
    failed     \* ranks whose output copy raised

setupVars == <<setup, refused, owned, absent>>
vars == <<setupVars, plan, epoch, pc, flags, mem, error, timeouts, shown, failed>>

-----------------------------------------------------------------------------
(* Memory: r's input and output shards and its scratch slots. *)
In(r, j)   == <<"in", r, j>>
Out(r, j)  == <<"out", r, j>>
Slot(r, k) == <<"slot", r, k>>
Location == {Out(r, j) : r \in Rank, j \in Rank}
              \cup {Slot(r, k) : r \in Rank, k \in 0 .. Steps - 1}

(* The backend's operations. *)
SetFlag(q, f)    == [op |-> "set", rank |-> q, flag |-> f]
WaitFlag(f)      == [op |-> "wait", flag |-> f]
Copy(dst, src)   == [op |-> "copy", dst |-> dst, src |-> src]
Sum(dst, parts)  == [op |-> "sum", dst |-> dst, parts |-> parts]

(* ring_ops: tell the previous rank that my scratch is free, then pass the  *)
(* shards on: a reduce-scatter, then an all-gather.                         *)
Ready == Steps
RingSend(r, k) == IF k < W - 1 THEN (r - k) % W ELSE (r + 1 - (k - (W - 1))) % W
RingRecv(r, k) == IF k < W - 1 THEN (r - k - 1) % W ELSE (r - (k - (W - 1))) % W

RingStep(r, k) ==
    LET next == (r + 1) % W
        recv == RingRecv(r, k)
    IN  << Copy(Slot(next, k), IF k = 0 THEN In(r, RingSend(r, k)) ELSE Out(r, RingSend(r, k))),
           SetFlag(next, k),
           WaitFlag(k),
           IF k < W - 1 THEN Sum(Out(r, recv), {In(r, recv), Slot(r, k)})
                        ELSE Copy(Out(r, recv), Slot(r, k)) >>

RingSteps(r) == [i \in 1 .. 4 * Steps |-> RingStep(r, (i - 1) \div 4)[((i - 1) % 4) + 1]]

(* Mutant of RingOps: the rank waits before it says its scratch is free. *)
RingOpsWaitFirst(r) == << WaitFlag(Ready), SetFlag((r - 1) % W, Ready) >> \o RingSteps(r)

RingOps(r) == << SetFlag((r - 1) % W, Ready), WaitFlag(Ready) >> \o RingSteps(r)

(* round_once_ops: shard q goes to rank q, which adds the partials and      *)
(* sends the sum back.  Peer(r, i) is r's i-th peer; the arrivals are       *)
(* awaited in the order of the senders' ranks.                              *)
SlotIndex(s, q) == ((s - q) % W) - 1
OwnerReady(s, q) == Steps + 1 + SlotIndex(s, q)
Gather(s, q) == W - 1 + SlotIndex(s, q)
Peer(r, i) == (r + i) % W
Sender(r, i) == IF i <= r THEN i - 1 ELSE i

Nth == 1 .. W - 1
Alternate(a, b) == [i \in 1 .. 2 * (W - 1) |-> IF i % 2 = 1 THEN a[(i + 1) \div 2] ELSE b[i \div 2]]

OwnerOps(r) ==
    [i \in Nth |-> SetFlag(Peer(r, i), OwnerReady(Peer(r, i), r))]
      \o [i \in Nth |-> WaitFlag(OwnerReady(r, Peer(r, i)))]
      \o Alternate(
           [i \in Nth |-> Copy(Slot(Peer(r, i), SlotIndex(r, Peer(r, i))), In(r, Peer(r, i)))],
           [i \in Nth |-> SetFlag(Peer(r, i), SlotIndex(r, Peer(r, i)))])
      \o [i \in Nth |-> WaitFlag(SlotIndex(Sender(r, i), r))]
      \o << Sum(Out(r, r), {In(r, r)} \cup {Slot(r, SlotIndex(s, r)) : s \in Rank \ {r}}) >>
      \o Alternate(
           [i \in Nth |-> Copy(Slot(Peer(r, i), Gather(r, Peer(r, i))), Out(r, r))],
           [i \in Nth |-> SetFlag(Peer(r, i), Gather(r, Peer(r, i)))])
      \o Alternate(
           [i \in Nth |-> WaitFlag(Gather(Peer(r, i), r))],
           [i \in Nth |-> Copy(Out(r, Peer(r, i)), Slot(r, Gather(Peer(r, i), r)))])

Program == [k \in {"ring", "owner"} |->
              [r \in Rank |-> IF k = "ring" THEN RingOps(r) ELSE OwnerOps(r)]]
-----------------------------------------------------------------------------
Running(r) == pc[r] # 0
Ops(r) == Program[plan[epoch[r]]][r]
Op(r) == Ops(r)[pc[r]]
Finished(r) == IF Running(r) THEN epoch[r] - 1 ELSE epoch[r]

Read(l) == IF l[1] = "in" THEN {<<l[2], epoch[l[2]], l[3]>>} ELSE mem[l]

(* The constructor: two buffers are shared, one after the other, the flags  *)
(* are zeroed, and all ranks meet before the first call.                    *)
Stage == << "allocate scratch", "open scratch", "agree scratch",
            "allocate flags", "open flags", "agree flags", "clear", "barrier", "ready" >>
BufferOf(n) == IF n <= 3 THEN "scratch" ELSE "flags"
Building(r, stages) == r \notin absent /\ Stage[setup[r]] \in stages
AllAt(n) == \A q \in Rank : setup[q] >= n
IsReady(r) == Stage[setup[r]] = "ready"

(* The memory of a new flag block holds anything. *)
Init ==
    /\ setup = [r \in Rank |-> 1]
    /\ refused = {} /\ owned = {} /\ absent = {}
    /\ plan \in [Call -> Kinds]
    /\ epoch = [r \in Rank |-> 0]
    /\ pc = [r \in Rank |-> 0]
    /\ \E junk \in {0, MaxCalls} :
         flags = [r \in Rank |-> [f \in Flag |-> junk]]
    /\ mem = [l \in Location |-> {}]
    /\ error = {}
    /\ timeouts = 0
    /\ shown = {}
    /\ failed = {}

NextStage(r) == setup' = [setup EXCEPT ![r] = @ + 1]

(* shared_buffer: allocate, and gather everybody's handle. *)
Allocate(r) ==
    /\ Building(r, {"allocate scratch", "allocate flags"})
    /\ owned' = owned \cup {<<BufferOf(setup[r]), r>>}
    /\ NextStage(r)
    /\ UNCHANGED <<refused, absent, flags>>

(* With all handles gathered, open the peers'; the driver may refuse. *)
Open(r) ==
    /\ Building(r, {"open scratch", "open flags"}) /\ AllAt(setup[r])
    /\ refused' \in {refused, refused \cup {<<BufferOf(setup[r]), r>>}}
    /\ NextStage(r)
    /\ UNCHANGED <<owned, absent, flags>>

(* Mutant of AllOpened: a rank goes by its own success. *)
OpenedMine(r) == <<BufferOf(setup[r]), r>> \notin refused

(* _all_ranks_true: no rank was refused. *)
AllOpened(r) == \A q \in Rank : <<BufferOf(setup[r]), q>> \notin refused

(* The vote is in: go on, or free what is mine and raise. *)
Agree(r) ==
    /\ Building(r, {"agree scratch", "agree flags"}) /\ AllAt(setup[r])
    /\ IF AllOpened(r)
         THEN NextStage(r) /\ UNCHANGED <<owned, absent>>
         ELSE /\ owned' = {o \in owned : o[2] # r}
              /\ absent' = absent \cup {r}
              /\ UNCHANGED setup
    /\ UNCHANGED <<refused, flags>>

(* cudaMemset of my flags, and wait for it. *)
Clear(r) ==
    /\ Building(r, {"clear"})
    /\ flags' = [flags EXCEPT ![r] = [f \in DOMAIN @ |-> 0]]
    /\ NextStage(r)
    /\ UNCHANGED <<refused, owned, absent>>

(* Mutant of Meet: a rank whose own flags are zeroed goes on. *)
MeetNobody(r) ==
    /\ Building(r, {"barrier"})
    /\ NextStage(r)
    /\ UNCHANGED <<refused, owned, absent, flags>>

(* The barrier: every rank has zeroed its flags. *)
Meet(r) ==
    /\ Building(r, {"barrier"}) /\ AllAt(setup[r])
    /\ NextStage(r)
    /\ UNCHANGED <<refused, owned, absent, flags>>

Construct(r) ==
    /\ Allocate(r) \/ Open(r) \/ Agree(r) \/ Clear(r) \/ Meet(r)
    /\ UNCHANGED <<plan, epoch, pc, mem, error, timeouts, shown, failed>>

(* _run: a fresh output tensor, the next epoch, the program queued. *)
Run(r) ==
    /\ IsReady(r) /\ r \notin failed
    /\ ~Running(r)
    /\ epoch[r] < MaxCalls
    /\ epoch' = [epoch EXCEPT ![r] = @ + 1]
    /\ pc' = [pc EXCEPT ![r] = 1]
    /\ mem' = [l \in Location |-> IF l[1] = "out" /\ l[2] = r THEN {} ELSE mem[l]]
    /\ shown' = shown \ {r}
    /\ UNCHANGED <<setupVars, plan, flags, error, timeouts, failed>>

Executing(r, op) == Running(r) /\ Op(r).op = op
StepOn(r) == pc' = [pc EXCEPT ![r] = IF @ = Len(Ops(r)) THEN 0 ELSE @ + 1]

(* set_flag: a release store, queued after the copy it announces. *)
Signal(r) ==
    /\ Executing(r, "set")
    /\ flags' = [flags EXCEPT ![Op(r).rank][Op(r).flag] = epoch[r]]
    /\ StepOn(r)
    /\ UNCHANGED <<setupVars, plan, epoch, mem, error, timeouts, shown, failed>>

(* Mutant of Arrived: any store since the flags were zeroed will do. *)
ArrivedEver(r) == flags[r][Op(r).flag] > 0

(* wait_flag: an epoch at least this call's has been stored. *)
Arrived(r) == flags[r][Op(r).flag] >= epoch[r]

Wait(r) ==
    /\ Executing(r, "wait")
    /\ Arrived(r)
    /\ StepOn(r)
    /\ UNCHANGED <<setupVars, plan, epoch, flags, mem, error, timeouts, shown, failed>>

(* wait_flag gives up: the error word is set and the program goes on. *)
GiveUp(r) ==
    /\ Executing(r, "wait")
    /\ ~Arrived(r)
    /\ timeouts < MaxTimeouts
    /\ timeouts' = timeouts + 1
    /\ error' = error \cup {r}
    /\ StepOn(r)
    /\ UNCHANGED <<setupVars, plan, epoch, flags, mem, shown, failed>>

(* A copy-engine copy, into a peer's slot or from my own. *)
Move(r) ==
    /\ Executing(r, "copy")
    /\ mem' = [mem EXCEPT ![Op(r).dst] = Read(Op(r).src)]
    /\ StepOn(r)
    /\ UNCHANGED <<setupVars, plan, epoch, flags, error, timeouts, shown, failed>>

(* The add and sum_round kernels. *)
Add(r) ==
    /\ Executing(r, "sum")
    /\ mem' = [mem EXCEPT ![Op(r).dst] = UNION {Read(l) : l \in Op(r).parts}]
    /\ StepOn(r)
    /\ UNCHANGED <<setupVars, plan, epoch, flags, error, timeouts, shown, failed>>

(* The output's copy event: the error word came along with the result, and  *)
(* either the host takes the result or the step fails.  A step may hold     *)
(* several all-reduces, so a call need not be followed by one.              *)
Synchronize(r) ==
    /\ r \notin failed
    /\ ~Running(r)
    /\ epoch[r] > 0 /\ r \notin shown
    /\ IF r \in error
         THEN failed' = failed \cup {r} /\ UNCHANGED shown
         ELSE shown' = shown \cup {r} /\ UNCHANGED failed
    /\ UNCHANGED <<setupVars, plan, epoch, pc, flags, mem, error, timeouts>>

Device(r) == Signal(r) \/ Wait(r) \/ Move(r) \/ Add(r)

Next == \E r \in Rank : Construct(r) \/ Run(r) \/ Device(r) \/ GiveUp(r) \/ Synchronize(r)

Spec == Init /\ [][Next]_vars

(* Every rank constructs the ring and issues the same calls, and a stream   *)
(* executes what was queued on it.  Nothing makes a wait time out.          *)
Fairness == \A r \in Rank : WF_vars(Construct(r)) /\ WF_vars(Run(r)) /\ WF_vars(Device(r))
FairSpec == Spec /\ Fairness
-----------------------------------------------------------------------------
Contribution == Rank \X Call \X Rank

TypeOK ==
    /\ setup \in [Rank -> DOMAIN Stage]
    /\ refused \cup owned \subseteq {"scratch", "flags"} \X Rank
    /\ absent \subseteq Rank
    /\ plan \in [Call -> Kinds]
    /\ epoch \in [Rank -> 0 .. MaxCalls]
    /\ pc \in [Rank -> Nat]
    /\ \A r \in Rank : Running(r) => epoch[r] > 0 /\ pc[r] \in 1 .. Len(Ops(r))
    /\ flags \in [Rank -> [Flag -> 0 .. MaxCalls]]
    /\ mem \in [Location -> SUBSET Contribution]
    /\ error \subseteq Rank /\ failed \subseteq error
    /\ timeouts \in 0 .. MaxTimeouts
    /\ shown \subseteq {r \in Rank : epoch[r] > 0 /\ ~Running(r)}

Exact(r) == \A j \in Rank : mem[Out(r, j)] = {<<q, epoch[r], j>> : q \in Rank}

(* A finished call's sum is exact in every shard, or some rank's error word *)
(* is set: neither kind of call is ever confused by what the other left in  *)
(* the flags and slots they share.                                          *)
WrongSumIsReported ==
    \A r \in Rank : ~Running(r) /\ epoch[r] > 0 => Exact(r) \/ error # {}

(* "this rank's scratch is free: its last reader is earlier on this         *)
(* stream": as long as no wait was given up, a copy never lands in a slot   *)
(* whose content its owner has yet to read.                                 *)
Sources(op) ==
    CASE op.op = "copy" -> {op.src}
      [] op.op = "sum"  -> op.parts
      [] OTHER          -> {}
YetToRead(r) == IF Running(r) THEN UNION {Sources(Ops(r)[i]) : i \in pc[r] .. Len(Ops(r))} ELSE {}
SlotReadBeforeReuse ==
    [][error = {} =>
         \A r \in Rank : \A k \in 0 .. Steps - 1 :
            (mem'[Slot(r, k)] # mem[Slot(r, k)] /\ \E c \in mem[Slot(r, k)] : c[2] = epoch[r])
               => Slot(r, k) \notin YetToRead(r)]_vars

(* "an output's ... error words ... are read ... before any result is       *)
(* published": what a host takes as good is exact.                          *)
ShownIsExact ==
    \A r \in shown : Exact(r)

(* "so no rank is left in a collective the others skip": where one rank     *)
(* gives the ring up no rank goes on to the next collective, let alone to a *)
(* call, and a rank that gives it up keeps no buffer.                       *)
SharedTogether ==
    \A r \in absent :
        /\ \A q \in Rank : setup[q] <= setup[r]
        /\ \A o \in owned : o[2] # r

(* "Flags are monotonic epochs (no reset)": from the first call of any rank *)
(* on, and as long as no wait was given up, no flag of any rank ever falls: *)
(* a signal stored by a rank that is ahead is not lost to a peer that is    *)
(* still zeroing its flags, nor to a slower writer of the same flag.  (Ranks *)
(* that gave waits up run ahead of such a writer, and then flags do fall.)  *)
FlagsNeverFall ==
    [][error = {} /\ (\E r \in Rank : epoch[r] > 0) =>
          \A r \in Rank : \A f \in Flag : flags'[r][f] >= flags[r][f]]_vars

(* Neither the collectives of the constructor nor the flag waits of the     *)
(* ranks ever form a cycle, in either kind of call and whatever kind came   *)
(* before: unless a wait is given up, every call of every rank ends, or     *)
(* every rank does without the ring.                                        *)
EveryCallCompletes ==
    <>(error # {} \/ absent = Rank \/ \A r \in Rank : Finished(r) = MaxCalls)
-----------------------------------------------------------------------------
Abstract == INSTANCE AllReduce WITH
    Word     <- Rank,
    begun    <- epoch,
    finished <- [r \in Rank |-> Finished(r)],
    result   <- [r \in Rank |-> [j \in Rank |-> [q \in Rank |->
                  IF Running(r) \/ <<q, epoch[r], j>> \notin mem[Out(r, j)]
                    THEN 0 ELSE epoch[r]]]],
    broken   <- error # {}

(* Both calls implement the abstract all-reduce until a wait is given up. *)
ImplementsAllReduce == Abstract!Spec
=============================================================================
