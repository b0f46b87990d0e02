--------------------------- MODULE CeRingInvariant ---------------------------
(***************************************************************************)
(* The inductive invariant of CeRingAllReduce, in named parts: SetupOK     *)
(* (the constructor's steps in the ranks' common order) always holds, the  *)
(* rest as long as no wait was given up.                                   *)
(***************************************************************************)
EXTENDS CeRingAllReduce

AnyKind == {"ring", "owner"}
Opcode(c, r, i) == Program[c][r][i].op

(* Where the programs of kind c signal q's flag f, and where they copy into *)
(* q's slot k: pairs of a rank and an index into its program.               *)
Point(c) == UNION {{r} \X DOMAIN Program[c][r] : r \in Rank}
Signals == [c \in AnyKind |-> [q \in Rank |-> [f \in Flag |->
              {s \in Point(c) : Program[c][s[1]][s[2]] = SetFlag(q, f)}]]]
Copies == [c \in AnyKind |-> [q \in Rank |-> [k \in 0 .. Steps - 1 |->
             {s \in Point(c) : /\ Opcode(c, s[1], s[2]) = "copy"
                               /\ Program[c][s[1]][s[2]].dst = Slot(q, k)}]]]

(* Rank r has executed operation i of call n. *)
Did(r, n, i) == epoch[r] > n \/ (epoch[r] = n /\ (~Running(r) \/ pc[r] > i))

(* What a location is to hold: the contributions of ranks R to shard j of   *)
(* call n.                                                                  *)
Parts(R, n, j) == {<<q, n, j>> : q \in R}

(* The ranks between r and d places before it. *)
Behind(r, d) == {q \in Rank : (r - q) % W <= d}

(* The slots of a ring call: slot k carries the shard q receives in step k, *)
(* in the reduce-scatter with the contributions of the ranks it went past.  *)
(* Those of an owner sum: first the sender's own part of q's shard, then    *)
(* the sender's finished shard.                                             *)
SlotShard(c, q, k) ==
    IF c = "ring" THEN RingRecv(q, k)
    ELSE IF k < W - 1 THEN q ELSE (q + k - (W - 2)) % W
SlotRanks(c, q, k) ==
    IF k >= W - 1 THEN Rank
    ELSE IF c = "ring" THEN Behind((q - 1) % W, k)
    ELSE {(q + k + 1) % W}

(* The ranks whose contributions r's output shard j holds before operation  *)
(* i.  A ring rank adds its own to all shards but its own, in the order of  *)
(* Added, and receives all but the one it completed, in the order of        *)
(* Gathered; step k ends with operation 6 + 4k.                             *)
Added(r, j) == (r - 1 - j) % W
Gathered(r, j) == (r - j) % W
RingHolds(r, i, j) ==
    IF Gathered(r, j) <= W - 2 /\ i > 6 + 4 * (W - 1 + Gathered(r, j)) THEN Rank
    ELSE IF Added(r, j) <= W - 2 /\ i > 6 + 4 * Added(r, j) THEN Behind(r, Added(r, j) + 1)
    ELSE {}

(* An owner's own shard is complete after the sum, operation 5W - 4, its    *)
(* n-th peer's after operation 7W - 6 + 2n.                                 *)
OwnerHolds(r, i, j) ==
    IF i > IF j = r THEN 5 * W - 4 ELSE 7 * W - 6 + 2 * ((j - r) % W) THEN Rank ELSE {}

Holds(c, r, i, j) == IF c = "ring" THEN RingHolds(r, i, j) ELSE OwnerHolds(r, i, j)
-----------------------------------------------------------------------------
(* Nobody is past a step that waits for all before all are at it; votes     *)
(* that passed were unanimous; a rank that raised was refused by a common   *)
(* vote and owns nothing; only ranks that are ready call.                   *)
SetupOK ==
    /\ \A q \in Rank : \A n \in {2, 3, 5, 6, 8} : setup[q] > n => AllAt(n)
    /\ \A q, p \in Rank : /\ setup[q] > 3 => <<"scratch", p>> \notin refused
                          /\ setup[q] > 6 => <<"flags", p>> \notin refused
    /\ \A r \in absent : /\ setup[r] \in {3, 6}
                         /\ AllAt(setup[r])
                         /\ ~AllOpened(r)
                         /\ \A o \in owned : o[2] # r
    /\ \A r \in Rank : epoch[r] > 0 => setup[r] = 9

(* A flag that was cleared holds the last call in which it was signalled. *)
FlagsOK ==
    \A q \in Rank : setup[q] >= 8 =>
        \A f \in Flag : flags[q][f] > 0 =>
            \E s \in Signals[plan[flags[q][f]]][q][f] : Did(s[1], flags[q][f], s[2])

(* Every wait that was passed met the signal of its own call. *)
WaitsOK ==
    \A q \in Rank : \A n \in Call : \A i \in DOMAIN Program[plan[n]][q] :
        Opcode(plan[n], q, i) = "wait" /\ Did(q, n, i) =>
            \E s \in Signals[plan[n]][q][Program[plan[n]][q][i].flag] : Did(s[1], n, s[2])

(* A slot holds what this call put there, or only what earlier calls did. *)
SlotsOK ==
    \A q \in Rank : \A k \in 0 .. Steps - 1 :
        IF epoch[q] > 0 /\ \E s \in Copies[plan[epoch[q]]][q][k] : Did(s[1], epoch[q], s[2])
          THEN mem[Slot(q, k)] = Parts(SlotRanks(plan[epoch[q]], q, k), epoch[q],
                                       SlotShard(plan[epoch[q]], q, k))
          ELSE \A c \in mem[Slot(q, k)] : c[2] < epoch[q]

(* The output shards hold what the operations so far put there. *)
OutOK ==
    \A r, j \in Rank : epoch[r] > 0 =>
        mem[Out(r, j)] = Parts(Holds(plan[epoch[r]], r, IF Running(r) THEN pc[r] ELSE Len(Ops(r)) + 1, j),
                               epoch[r], j)

(* There are only contributions to calls that were begun. *)
BegunOK == \A l \in Location : \A c \in mem[l] : c[2] <= epoch[c[1]]

CallsOK == FlagsOK /\ WaitsOK /\ SlotsOK /\ OutOK /\ BegunOK

CeInv == TypeOK /\ SetupOK /\ (error = {} => CallsOK)
=============================================================================
