-------------------------- MODULE HostShmInvariant --------------------------
(***************************************************************************)
(* The inductive invariant of HostShmAllReduce.  It relates what a rank    *)
(* has announced on its flags, how far its peers have come, and what every *)
(* slot still holds; each conjunct has a name so that the proof can say    *)
(* which of them a step disturbs.                                          *)
(***************************************************************************)
EXTENDS HostShmAllReduce

(* The generation counter has not come round: fewer calls than it counts.  *)
NoWrap == MaxCalls < GenMod

(* The calls for which rank q has released its flag of barrier 0 (1). *)
Arrived0(q) == IF pc[q] \in {"idle", "publish"} THEN done[q] ELSE done[q] + 1
Arrived1(q) == IF pc[q] \in {"bar1", "gather"} THEN done[q] + 1 ELSE done[q]

TwoBarriers(k) == plan[k].algo # "oneshot"

(* The word of call k's slot that rank q publishes. *)
SlotWord(k, q, w) ==
    IF plan[k].algo = "dma" THEN dmaSlot[q][w] ELSE scatter[Parity(k)][q][w]

(* A host counts no call it has not issued, a GPU runs none either. *)
CountsOK ==
    \A r \in Rank :
        /\ calls[r] <= issued[r]
        /\ done[r] <= issued[r]
        /\ pc[r] # "idle" => done[r] < issued[r]

(* The phase of a kernel determines what may be left of it. *)
PhaseOK ==
    \A r \in Rank :
        /\ pc[r] # "idle" => status[r] = "none"
        /\ pc[r] \in {"bar1", "gather"} => Algo(r) # "oneshot"
        /\ pc[r] = "publish" => todo[r] \subseteq Published(Algo(r), r)
        /\ pc[r] \in {"bar0", "bar1", "gather"} => r \notin todo[r]
        /\ pc[r] = "reduce" => todo[r] \subseteq Reduced(Algo(r), r)

(* A flag never runs ahead of the rank that writes it. *)
FlagsOK ==
    \A q \in Rank : \A p \in 0..1 :
        /\ flag[0][p][q] <= Arrived0(q)
        /\ flag[1][p][q] <= Arrived1(q)

(* Barrier 0: a finished call was joined by everyone, and a rank past its  *)
(* barrier (or past one peer's flag) knows that peer has arrived.          *)
Barrier0OK ==
    \A r, q \in Rank :
        /\ done[r] <= Arrived0(q)
        /\ pc[r] = "bar0" /\ q \notin todo[r] => done[r] < Arrived0(q)
        /\ pc[r] \in {"reduce", "bar1", "gather"} => done[r] < Arrived0(q)

(* Barrier 1, the same for the calls that have one. *)
Barrier1OK ==
    \A r, q \in Rank :
        /\ \A k \in 1 .. done[r] : TwoBarriers(k) => k <= Arrived1(q)
        /\ pc[r] = "bar1" /\ q \notin todo[r] => done[r] < Arrived1(q)
        /\ pc[r] = "gather" => done[r] < Arrived1(q)

(* A rank's published words stay in its slot while a peer may read them. *)
SlotsOK ==
    \A q \in Rank : \A w \in Rank :
        /\ pc[q] = "publish" /\ w \in Published(Algo(q), q) /\ w \notin todo[q]
             => SlotWord(Cur(q), q, w) = Cur(q)
        /\ pc[q] \in {"bar0", "reduce", "bar1", "gather"}
             /\ w \in Published(Algo(q), q) => SlotWord(Cur(q), q, w) = Cur(q)
        /\ done[q] > 0 /\ plan[done[q]].algo # "dma"
             /\ w \in Published(plan[done[q]].algo, q)
             => scatter[Parity(done[q])][q][w] = done[q]

(* So do the sums it puts into the gather buffer. *)
GatherOK ==
    \A q \in Rank :
        /\ pc[q] = "reduce" /\ Algo(q) # "oneshot" /\ q \notin todo[q]
             => gather[Parity(Cur(q))][q] = Exact(Cur(q))
        /\ pc[q] \in {"bar1", "gather"}
             => gather[Parity(Cur(q))][q] = Exact(Cur(q))
        /\ done[q] > 0 /\ TwoBarriers(done[q])
             => gather[Parity(done[q])][q] = Exact(done[q])

(* The words of the output that are finished are right. *)
OutOK ==
    \A r \in Rank : \A w \in Rank :
        /\ pc[r] = "reduce" /\ w \in Reduced(Algo(r), r) /\ w \notin todo[r]
             => out[r][w] = Exact(Cur(r))
        /\ pc[r] = "bar1" => out[r][r] = Exact(Cur(r))
        /\ pc[r] = "gather" /\ w \notin todo[r] => out[r][w] = Exact(Cur(r))
        /\ status[r] = "ok" => out[r][w] = Exact(done[r])

(* A flag stands until its writer comes round to the same parity: the call  *)
(* a rank is in, and the one before it, can still be read off its flags.    *)
OwnFlagsOK ==
    \A q \in Rank :
        /\ pc[q] \in {"bar0", "reduce", "bar1", "gather"}
             => flag[0][Parity(Cur(q))][q] = Gen(Cur(q))
        /\ pc[q] \in {"bar1", "gather"}
             => flag[1][Parity(Cur(q))][q] = Gen(Cur(q))
        /\ done[q] > 0 => flag[0][Parity(done[q])][q] = Gen(done[q])
        /\ done[q] > 0 /\ TwoBarriers(done[q])
             => flag[1][Parity(done[q])][q] = Gen(done[q])

TInv == TypeOK /\ CountsOK /\ PhaseOK

Sync == FlagsOK /\ Barrier0OK /\ Barrier1OK
Data == SlotsOK /\ GatherOK /\ OutOK

IInv == TInv /\ (err = {} => Sync /\ Data /\ OwnFlagsOK)
=============================================================================
