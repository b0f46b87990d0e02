---------------------------- MODULE FairInvariant ----------------------------
(***************************************************************************)
(* The inductive invariant of FairPrefill, in named parts: what a request  *)
(* is waiting for, who is where in the running loop, what the budgets      *)
(* count, and how far the decodes that are passed over have been outrun.   *)
(***************************************************************************)
EXTENDS FairPrefill

(* The configuration leaves room for every decode: one token each beside    *)
(* the most that prefills may take.                                         *)
RoomForDecodes == Chunk > 0 /\ Most(Chunk, Lookahead + 1) + MaxSeqs - 1 <= MaxTokens

Decodes(S) == {r \in S : ~isPrefill[r]}
InStep == phase # "idle"

-----------------------------------------------------------------------------
(* A running decode has one token to compute, or the token it computed last *)
(* is in flight; a running prefill has tokens left and none in flight.      *)
RequestOK ==
    \A r \in Req :
        /\ tokens[r] <= prompt[r] + MaxOutput - 1
        /\ r \in Running \cup waiting => tokens[r] > 0
        /\ late[r] > 0 => r \in Running /\ ~isPrefill[r] /\ computed[r] = tokens[r]
        /\ r \in Running /\ (InStep => r \in step.carried) =>
             /\ isPrefill[r] => computed[r] < tokens[r]
             /\ ~isPrefill[r] => computed[r] + (IF late[r] > 0 THEN 0 ELSE 1) = tokens[r]
        /\ passed[r] > 0 => /\ pp > 1 /\ r \in Running /\ ~isPrefill[r] /\ late[r] = 0
                            /\ InStep => r \in step.carried /\ sched[r] = 0

(* Only running requests are scheduled, those that were not running when    *)
(* the step began all of them; who was and is not has been preempted.       *)
StepOK ==
    /\ Len(running) <= MaxSeqs
    /\ ~InStep => sched = Zero /\ preempted = {}
    /\ \A r \in Req : sched[r] > 0 => r \in Running
    /\ InStep => /\ step.carried \ Running \subseteq preempted
                 /\ waiting \cap step.carried \subseteq preempted
                 /\ \A r \in Running \ step.carried : sched[r] > 0
    /\ pp > 1 => preempted = {}

(* The running loop has not scheduled what is ahead of it, and the held     *)
(* request is the one it is at, or before it after preemptions.             *)
LoopOK ==
    /\ phase = "running" =>
         /\ Running \subseteq step.carried
         /\ \A j \in index .. Len(running) : sched[running[j]] = 0
    /\ held.req # 0 =>
         /\ phase = "running" /\ held.req \in Running /\ sched[held.req] = 0
         /\ held.n \in 1 .. budget /\ held.n <= Remaining(held.req)
         /\ held.reqIsPrefill = isPrefill[held.req]
         /\ held.isPrefill <=> Fair /\ isPrefill[held.req] /\ ~Short(Remaining(held.req))
         /\ held.isPrefill => held.n <= step.budget
         /\ \A j \in index + 1 .. Len(running) : running[j] # held.req
         /\ preempted = {} => index <= Len(running) /\ running[index] = held.req

(* What the step's budgets have come to. *)
BudgetOK ==
    InStep =>
        /\ budget + Spent(Req) = MaxTokens
        /\ Chunk > 0 /\ Decodes(step.carried) # {} => step.total <= Most(Chunk, Lookahead + 1)
        /\ pp > 1 => /\ pp * step.decodeCap >= Cardinality(Decodes(step.carried))
                     /\ step.decodes = Cardinality(Decodes(Scheduled))

(* With room for them, without a bypass and preemption, the loop schedules  *)
(* every decode it comes to.                                                *)
RideOK ==
    RoomForDecodes /\ ~bypass /\ pp = 1 /\ preempted = {} =>
        /\ phase = "running" =>
             \A j \in 1 .. Len(running) : j < index /\ ~isPrefill[running[j]] => sched[running[j]] > 0
        /\ phase \in {"waiting", "finish"} => \A r \in Decodes(step.carried) : sched[r] > 0

-----------------------------------------------------------------------------
(* The running requests before r, and whether the step is past r. *)
Ahead(r) ==
    {running[i] : i \in {i \in DOMAIN running : \E j \in DOMAIN running : i < j /\ running[j] = r}}
Handled(r) == InStep /\ (phase = "running" => \E j \in DOMAIN running : j < index /\ running[j] = r)

(* The steps until q's token is there, seen from r: one more than at the    *)
(* end of the step once the step is past r.                                 *)
Wait(r, q) ==
    IF Handled(r) /\ sched[q] > 0 /\ computed[q] + sched[q] = tokens[q] THEN pp ELSE late[q]
Since(r) == pp - passed[r] + (IF Handled(r) THEN 1 ELSE 0)

(* The requests before r that had a token sampled since r was passed over   *)
(* for the first time, and the decodes up to r that had none.               *)
Outran(r) == {q \in Ahead(r) : Wait(r, q) >= Since(r)}
Left(r) == {q \in Ahead(r) \cup {r} : ~isPrefill[q] /\ Wait(r, q) < Since(r)}

(* In every step that passes over r at least one pp-th of the decodes is    *)
(* taken before it.                                                         *)
TurnOK ==
    \A r \in Running : passed[r] > 0 =>
        /\ passed[r] < pp
        /\ (pp - passed[r]) * Cardinality(Outran(r)) >= passed[r] * Cardinality(Left(r))

FairInv ==
    /\ TypeOK /\ RequestOK /\ StepOK /\ LoopOK /\ BudgetOK /\ BudgetBalances
    /\ RideOK /\ TurnOK
=============================================================================
