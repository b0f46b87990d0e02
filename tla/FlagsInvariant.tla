--------------------------- MODULE FlagsInvariant ---------------------------
(***************************************************************************)
(* The inductive invariant of FlagsAllReduce, which MCFlags checks and     *)
(* FlagsAllReduce_proofs proves.                                           *)
(***************************************************************************)
EXTENDS FlagsAllReduce

Loops == {"push", "refill", "reduce", "gather"}

(* The stage of call k, and how far its kernel has come in a phase.         *)
Stage(k) == (k + 2) % 3
Place(c, p) ==
    CASE p \in {"idle", "start"} -> 0
      [] p = "push" -> 1
      [] p = "refill" -> IF c.kind = "two_shot_z" THEN 3 ELSE 2
      [] p = "reduce" -> IF c.kind = "two_shot_z" THEN 2 ELSE 3
      [] p = "gather" -> 4
      [] p \in {"epoch", "end"} -> 5

(* What CTA t of rank r has to do in a loop of call k, and whether it has   *)
(* done item x of it.  Before(k) is the extent of call k-1.                 *)
Before(k) == IF k = 1 THEN 0 ELSE Extent(plan[k - 1])
ItemsIn(r, k, t, loop) == ItemsOf(plan[k], r, t, Before(k), loop)
DoneAt(c, p, left, loop, x) ==
    Place(c, p) > Place(c, loop) \/ (p = loop /\ x \notin left)
Has(r, k, t, loop, x) ==
    \/ done[r] >= k
    \/ done[r] = k - 1 /\ DoneAt(plan[k], phase[r][t], todo[r][t], loop, x)

(* Rank s has pushed item i to its owner q in call k; owner o has summed    *)
(* it; r has gathered it; r has re-filled what call k left at address a.    *)
Pushed(s, k, q, i)   == Has(s, k, CtaOf(plan[k], i), "push", <<q, i>>)
Summed(o, k, i)      == Has(o, k, CtaOf(plan[k], i), "reduce", <<o, i>>)
Gathered(r, k, q, i) == Has(r, k, CtaOf(plan[k], i), "gather", <<q, i>>)
Refilled(r, k, a) ==
    /\ k < MaxCalls
    /\ Has(r, k + 1, a % Blocks(plan[k + 1]), "refill", <<r, a>>)

-----------------------------------------------------------------------------
(* A rank is between two calls, or all CTAs of its grid are in one.         *)
PhaseOK ==
    \A r \in Rank :
        \/ \A t \in Cta : phase[r][t] = "idle"
        \/ /\ done[r] < MaxCalls
           /\ \A t \in Cta :
                /\ phase[r][t] # "idle"
                /\ t \notin Grid(Now(r)) => phase[r][t] = "end"
                /\ phase[r][t] = "epoch" => t = 0

(* A CTA works on its own items, in the stage of its call.                  *)
TodoOK ==
    \A r \in Rank, t \in Cta :
        /\ phase[r][t] \in Loops =>
             todo[r][t] # {} /\ todo[r][t] \subseteq ItemsIn(r, done[r] + 1, t, phase[r][t])
        /\ phase[r][t] \in Loops \cup {"epoch"} => local[r][t] = Stage(done[r] + 1)

(* The epoch words: the stage advances only once no CTA has it to read, and *)
(* the extent of the previous call is the one a re-fill reads.              *)
EpochOK ==
    \A r \in Rank :
        /\ written[r][Stage(done[r])] = Before(done[r] + 1)
        /\ IF phase[r][0] = "end"
             THEN /\ w0[r] = Stage(done[r] + 2)
                  /\ written[r][Stage(done[r] + 1)] = Extent(Now(r))
                  /\ \A t \in Cta : phase[r][t] # "start"
             ELSE w0[r] = Stage(done[r] + 1)

Control == TypeOK /\ PhaseOK /\ TodoOK /\ EpochOK

(* An item is summed after every peer has pushed it, gathered after its     *)
(* owner has summed it.                                                     *)
OrderOK ==
    \A k \in Call, q \in Rank, i \in Elem : i < Owned(plan[k], q) =>
        /\ Summed(q, k, i) => \A s \in Rank \ {q} : Pushed(s, k, q, i)
        /\ plan[k].kind # "one_shot" =>
             \A r \in Rank \ {q} : Gathered(r, k, q, i) => Summed(q, k, i)

(* What a buffer holds is a pack of one of the three calls its stages       *)
(* stand for, which was sent and has not been re-filled.                    *)
SlotOf(r, k, q, i, a) ==
    \/ q # r /\ i < Owned(plan[k], r) /\ a = ScatterAddr(plan[k], q, i) /\ Pushed(q, k, r, i)
    \/ /\ q # r /\ i < Owned(plan[k], q) /\ plan[k].kind # "one_shot"
       /\ a = GatherAddr(plan[k], q, i) /\ Summed(q, k, i)
OriginOK ==
    \A r \in Rank, a \in Addr : \A k \in done[r] .. done[r] + 2 :
        buf[r][Stage(k)][a] # {} =>
            /\ k \in Call
            /\ ~Refilled(r, k, a)
            /\ \E q \in Rank, i \in Elem : SlotOf(r, k, q, i, a)

(* Every pack sent and not yet re-filled is there, with its value.          *)
SentOK ==
    \A r \in Rank, i \in Elem, k \in Call : \A q \in Rank \ {r} :
        done[r] <= k /\ k <= done[r] + 2 =>
            /\ LET a == ScatterAddr(plan[k], q, i)
               IN  i < Owned(plan[k], r) /\ Pushed(q, k, r, i) /\ ~Refilled(r, k, a) =>
                     buf[r][Stage(k)][a] = {<<q, k, ElemOf(plan[k], r, i)>>}
            /\ LET a == GatherAddr(plan[k], q, i)
               IN  i < Owned(plan[k], q) /\ plan[k].kind # "one_shot" /\ Summed(q, k, i)
                     /\ ~Refilled(r, k, a) =>
                     buf[r][Stage(k)][a] = SumOfElem(k, ElemOf(plan[k], q, i))

(* What a kernel has written so far is exact.                               *)
OutOf(r) ==
    /\ (\A t \in Cta : phase[r][t] = "idle") /\ done[r] > 0 =>
         \A e \in Elements(done[r]) : out[r][e] = SumOfElem(done[r], e)
    /\ \A k \in Call, q \in Rank, i \in Elem :
         /\ k = done[r] + 1 /\ i < Owned(plan[k], q)
         /\ IF q = r THEN Summed(r, k, i)
            ELSE plan[k].kind # "one_shot" /\ Gathered(r, k, q, i)
         => out[r][ElemOf(plan[k], q, i)] = SumOfElem(k, ElemOf(plan[k], q, i))
OutOK == \A r \in Rank : OutOf(r)

(* The inductive invariant. *)
FlagsInv == Control /\ OrderOK /\ OriginOK /\ SentOK /\ OutOK
=============================================================================
