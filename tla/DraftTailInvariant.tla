------------------------- MODULE DraftTailInvariant -------------------------
(***************************************************************************)
(* The inductive invariant of DraftTail, in named parts: what the          *)
(* scheduler's history says of the newest drafts, what every queue of      *)
(* results holds, which drafts are stored, and which collectives have      *)
(* completed.                                                              *)
(***************************************************************************)
EXTENDS DraftTail

Earlier == Stages \ {LastRank}
Sampled(n) == sched[n].sampled

(* Row r has not been freed in the steps after d, up to step n.             *)
Held(r, d, n) == \A k \in d + 1 .. n : r \notin sched[k].free

(* A snapshot g of the generations, taken at step d: row r of stage s still *)
(* has its generation if and only if it has not been freed since.           *)
Since(g, s, r, d) == g[r] <= gen[s][r] /\ (g[r] = gen[s][r] <=> Held(r, d, done[s]))

(* The steps so far in which row r was freed, as stage s has seen them. *)
Frees(s, r) == {<<n, r, "freed">> : n \in {k \in 1 .. done[s] : r \in sched[k].free}}

-----------------------------------------------------------------------------
(* newest[r] of step n is the last step before it that sampled for the      *)
(* request that holds row r in step n.                                      *)
NewestOK(n) ==
    \A r \in Slots :
        LET v == sched[n].newest[r]
        IN  /\ v # 0 => v < n /\ r \in Sampled(v) /\ Held(r, v, n)
            /\ \A d \in 1 .. n - 1 : r \in Sampled(d) /\ Held(r, d, n) => d <= v
            /\ r \in sched[n].rows /\ v # 0 => v + PP <= n /\ r \in Sampled(n)

(* Stage 0 takes a step before the next one is made; nothing runs before    *)
(* the stages have agreed.                                                  *)
SchedOK ==
    /\ sched # <<>> => setup = "serving"
    /\ Len(sched) <= MaxSteps /\ Len(sched) <= done[0] + 1
    /\ \A s \in Stages : done[s] <= Len(sched)
    /\ qstep <= done[LastRank]
    /\ \A n \in DOMAIN sched : Sampled(n) \subseteq sched[n].rows /\ NewestOK(n)

(* Freeing a row is an event and moves its generation on by one.            *)
GenOK ==
    /\ Cardinality(Events(sched)) <= MaxEvents
    /\ \A s \in Stages, r \in Slots : gen[s][r] = Cardinality(Frees(s, r))

(* The queue of an earlier stage has a place for each of the PP steps that  *)
(* stage did last, empty for a step without results.                        *)
QueueOK ==
    \A s \in Earlier, i \in 1 .. PP :
        LET k == done[s] - PP + i
        IN  IF k >= 1 /\ Sampled(k) # {}
              THEN /\ queue[s][i].step = k
                   /\ \A r \in Slots : Since(queue[s][i].gen, s, r, k)
              ELSE queue[s][i].step = 0

(* What is pending was consumed and not yet stored: the newest of what was  *)
(* consumed, with the rows that were still held then.                       *)
PendingOK ==
    \A s \in Earlier :
        LET p == pending[s]
        IN  IF p.step = 0 THEN p.keep = {}
            ELSE /\ split
                 /\ p.step <= done[s] - PP /\ sched[done[s]].rows = {}
                 /\ p.keep \subseteq Sampled(p.step)
                 /\ \A r \in Sampled(p.step) : Held(r, p.step, done[s]) => r \in p.keep
                 /\ \A r \in p.keep : Since(p.gen, s, r, p.step)
                 /\ \A r \in Slots : drafts[s][r] <= p.step

(* A row of an earlier stage holds drafts of its present request, and no    *)
(* newer ones have been consumed, but for those that are pending.           *)
StoredOK ==
    \A s \in Earlier, r \in Slots :
        /\ drafts[s][r] # 0 => /\ drafts[s][r] <= done[s] - PP
                               /\ r \in Sampled(drafts[s][r])
                               /\ Held(r, drafts[s][r], done[s])
        /\ \A d \in 1 .. done[s] - PP :
             r \in Sampled(d) /\ Held(r, d, done[s]) =>
                d <= drafts[s][r] \/ (d <= pending[s].step /\ r \in pending[s].keep)

(* The entries of the last stage's queue, oldest first: the samples of a    *)
(* step each, young enough, and how many forwards there were since.         *)
RemoteOK ==
    \A i \in DOMAIN remote :
        LET e == remote[i]
        IN  /\ e.of <= done[LastRank] /\ e.keep = Sampled(e.of) /\ e.keep # {}
            /\ \A r \in Slots : Since(e.gen, LastRank, r, e.of)
            /\ \A j \in DOMAIN remote : i < j => e.of < remote[j].of
            /\ qstep - MaxAge < e.step /\ e.step <= qstep - (Len(remote) - i)
            /\ qstep - e.step <= done[LastRank] - e.of
            /\ \/ qstep - e.step < PP
               \/ \E k \in e.of + PP .. done[LastRank] : sched[k].rows # {}

(* A row of the last stage holds drafts of its present request, older than  *)
(* those that are queued for it, and no newer ones have been made.          *)
LastOK ==
    \A r \in Slots :
        LET x == drafts[LastRank][r]
        IN  /\ x # 0 => /\ x <= done[LastRank] /\ r \in sched[x].rows
                        /\ Held(r, x, done[LastRank])
            /\ \A i \in DOMAIN remote :
                 r \in remote[i].keep /\ Held(r, remote[i].of, done[LastRank]) =>
                    x < remote[i].of
            /\ \A d \in 1 .. done[LastRank] :
                 r \in Sampled(d) /\ Held(r, d, done[LastRank]) =>
                    d <= x \/ \E i \in DOMAIN remote : d <= remote[i].of /\ r \in remote[i].keep

(* What the last stage's forward has read. *)
ReadOK ==
    done[LastRank] > 0 =>
        \A r \in sched[done[LastRank]].rows :
            sched[done[LastRank]].newest[r] # 0 => read[r] = sched[done[LastRank]].newest[r]

(* Stage s has nothing left of step n's broadcast of the drafts.            *)
NoDrafts(s, n) == \A i \in DOMAIN stream[s] : ~(stream[s][i].step = n /\ stream[s][i].kind = "drafts")

(* A stage's collectives are in the order of the steps, the drafts last;    *)
(* where one stage has completed them all have.                             *)
StreamOK ==
    /\ \A s \in Stages : \A i \in DOMAIN stream[s] :
         LET op == stream[s][i]
         IN  /\ op.step <= done[s] /\ Sampled(op.step) # {}
             /\ ~NoDrafts(s, op.step)
             /\ \A j \in DOMAIN stream[s] :
                  i < j => /\ op.step <= stream[s][j].step
                           /\ op.kind = "drafts" => op.step < stream[s][j].step
    /\ \A s, t \in Stages : \A n \in 1 .. done[s] :
         Sampled(n) # {} /\ NoDrafts(s, n) => n <= done[t] /\ NoDrafts(t, n)

(* An earlier stage has waited for the drafts it consumed, unless they are  *)
(* pending or nobody was left to take them, and for all a row was held for  *)
(* up to a step that computes.                                              *)
LandedOK ==
    \A s \in Earlier : \A d \in 1 .. done[s] - PP : \A r \in Sampled(d) :
        /\ Held(r, d, done[s]) => Landed(s, d) \/ pending[s].step = d
        /\ \A k \in d + PP .. done[s] : sched[k].rows # {} /\ Held(r, d, k) => Landed(s, d)

DraftInv ==
    /\ TypeOK /\ SchedOK /\ GenOK /\ QueueOK /\ PendingOK /\ StoredOK
    /\ RemoteOK /\ LastOK /\ ReadOK /\ StreamOK /\ LandedOK
=============================================================================
