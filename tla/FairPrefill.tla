----------------------------- MODULE FairPrefill -----------------------------
(***************************************************************************)
(* Fair chunked prefill: vllm_sm80/sched/scheduler.py and step.py, inside  *)
(* the request loops of the upstream scheduler they are called from.  One  *)
(* schedule() is a sequence of actions: Begin makes the Sm80Step, the      *)
(* running loop sizes, places and preempts, the waiting loop admits, and   *)
(* Finish applies the step's result.                                       *)
(*                                                                         *)
(* Requests are numbered in order of arrival.  The KV cache is counted in  *)
(* tokens.  Spec decoding and align-mode Mamba are off: a decode takes one *)
(* token per step.  With pp pipeline stages the result of a step returns   *)
(* pp - 1 steps after it, the decodes are spread over the steps, and the   *)
(* KV cache is large enough for all: what upstream does with the result of *)
(* a request preempted meanwhile is not in this repository.                *)
(***************************************************************************)
EXTENDS Integers, FiniteSets, FiniteSetsExt, SequencesExt

CONSTANTS
    N,           \* requests
    Prompts,     \* prompt lengths
    Hits,        \* lengths of a prefix-cache hit
    MaxOutput,   \* bound: tokens a request generates
    Prios,       \* priorities; one priority is the FCFS policy
    MaxTokens,   \* max_num_scheduled_tokens
    MaxSeqs,     \* max_num_active_reqs
    Capacity,    \* KV cache size
    Chunk,       \* prefill_chunk_with_decodes
    Partials,    \* max_num_partial_prefills
    Lookahead,   \* num_prefill_lookahead
    PPSizes      \* pipeline_parallel_size

Req == 1 .. N

ASSUME FairPrefillAssumption ==
    /\ N \in Nat /\ MaxOutput \in Nat \ {0}
    /\ Prompts \subseteq Nat \ {0} /\ Hits \subseteq Nat /\ 0 \in Hits
    /\ Prios \subseteq Nat
    /\ PPSizes \subseteq Nat \ {0} /\ Capacity \in Nat
    /\ {MaxTokens, MaxSeqs} \subseteq Nat \ {0}
    /\ {Chunk, Partials, Lookahead} \subseteq Nat
    /\ Chunk = 0 \/ Chunk >= Partials
    /\ \A p \in Prompts : p + MaxOutput <= Capacity

VARIABLES
    bypass,    \* VLLM_FAIR_PREFILL_SHORT_BYPASS, fixed by the environment
    pp,        \* pipeline stages, fixed; spreading is on when above 1
    prio,      \* prio[r]: priority, the smaller the sooner
    tokens,    \* tokens[r]: num_tokens, prompt and output; 0 before arrival
    prompt,    \* prompt[r]: num_prompt_tokens
    computed,  \* computed[r]: num_computed_tokens
    isPrefill, \* isPrefill[r]: is_prefill_chunk, set at the end of a step
    running,   \* Scheduler.running
    waiting,   \* Scheduler.waiting
    phase,     \* where schedule() is
    index,     \* the running loop's req_index
    budget,    \* token_budget
    sched,     \* sched[r]: num_scheduled_tokens
    preempted, \* requests preempted in this step
    step,      \* the Sm80Step's budgets
    held,      \* the request being sized, and its predicates
    late,      \* late[r]: steps until the result of r's sampled token returns
    passed     \* history: passed[r], steps in a row that passed over the
               \* decode r for having their share of decodes

vars == <<bypass, pp, prio, tokens, prompt, computed, isPrefill, running, waiting, phase,
          index, budget, sched, preempted, step, held, late, passed>>
reqVars == <<bypass, pp, prio, tokens, prompt, late>>

-----------------------------------------------------------------------------
Least(a, b) == IF a < b THEN a ELSE b
Most(a, b)  == IF a < b THEN b ELSE a
Running == ToSet(running)
Remaining(r) == tokens[r] - computed[r]
Key(r) == <<prio[r], r>>
Before(r, q) == prio[r] < prio[q] \/ (prio[r] = prio[q] /\ r < q)
(* The sum of f[r] over a set of requests, each unit a pair. *)
Sum(f, S) == Cardinality(UNION {{r} \X (1 .. f[r]) : r \in S})

(* A list without some of its requests, in the order it had. *)
Without(s, gone) ==
    LET left == {i \in DOMAIN s : s[i] \notin gone}
    IN  [k \in 1 .. Cardinality(left) |->
            s[CHOOSE i \in left : Cardinality({j \in left : j <= i}) = k]]

First(S) == CHOOSE r \in S : \A q \in S \ {r} : Before(r, q)
Worst(S) == CHOOSE r \in S : \A q \in S \ {r} : Before(q, r)

Fair == Chunk > 0 \/ Partials > 0
BypassOn == Fair /\ Chunk > 0 /\ bypass

(* _short_prefill_bypass *)
Short(n) == BypassOn /\ n <= Chunk

(* Mutant of Share: rounded down. *)
ShareRoundedDown(n) == Most(1, n \div pp)

(* A micro-batch's share of n decodes, rounded up. *)
Share(n) == Most(1, (n + pp - 1) \div pp)

(* _pp_decode_cap: counts the running decodes, also those in flight. *)
DecodeCap == Share(Cardinality({r \in Running : ~isPrefill[r]}))

(* Sm80Step.skip: this micro-batch has its share of decodes. *)
Skip(r) == pp > 1 /\ ~isPrefill[r] /\ step.decodes >= step.decodeCap

(* The waiting requests that could be admitted, as the queue orders them. *)
Admissible ==
    LET n == Least(Cardinality(waiting), Most(0, MaxSeqs - Len(running)))
    IN  {r \in waiting : Cardinality({q \in waiting : Before(q, r)}) < n}

(* Mutant of Total: a decode stream does not narrow the budget. *)
TotalUncapped == MaxTokens

(* _fair_prefill_budget: this step's prefill budget and per-request cap. *)
Total == IF Chunk > 0 /\ \E r \in Running : ~isPrefill[r]
           THEN Least(MaxTokens, Chunk) ELSE MaxTokens
Sharers ==
    Cardinality({r \in Running : isPrefill[r] /\ ~Short(Remaining(r))})
      + Cardinality({r \in Admissible : ~Short(Remaining(r))})
PerRequest ==
    IF Partials = 0 THEN Total ELSE Total \div Most(1, Least(Partials, Sharers))
PrefillBudget == IF Fair THEN Most(Total, Lookahead + 1) ELSE MaxTokens
CapNoFloor    == IF Fair THEN PerRequest ELSE MaxTokens   \* mutant of ChunkCap
ChunkCap      == IF Fair THEN Most(PerRequest, Lookahead + 1) ELSE MaxTokens

NoRequest == [req |-> 0, n |-> 0, isPrefill |-> FALSE, reqIsPrefill |-> FALSE]

(* Mutant of Hold: the chunk is kept within the cap only. *)
HoldWithinCap(r, reqIsPrefill, remaining, n) ==
    LET isPre == Fair /\ reqIsPrefill /\ ~Short(remaining)
    IN  [req |-> r, n |-> IF isPre THEN Least(n, step.cap) ELSE n,
         isPrefill |-> isPre, reqIsPrefill |-> reqIsPrefill]

(* Sm80Step._cap: hold the request, its chunk within the prefill budget. *)
Hold(r, reqIsPrefill, remaining, n) ==
    LET isPre == Fair /\ reqIsPrefill /\ ~Short(remaining)
        limit == Least(step.cap, step.budget)
    IN  [req |-> r, n |-> IF isPre THEN Least(n, limit) ELSE n,
         isPrefill |-> isPre, reqIsPrefill |-> reqIsPrefill]

(* Sm80Step.charge of the held request. *)
Charged(h, n) ==
    [step EXCEPT !.budget = IF h.isPrefill THEN @ - n ELSE @,
                 !.tokens = IF h.reqIsPrefill THEN @ + n ELSE @,
                 !.reqs = IF h.reqIsPrefill THEN @ + 1 ELSE @,
                 !.decodes = IF isPrefill[h.req] THEN @ ELSE @ + 1]

(* Mutant of Refunded: the budget is not given back. *)
KeptCharge(r, n) ==
    IF ~isPrefill[r] THEN step ELSE [step EXCEPT !.tokens = @ - n, !.reqs = @ - 1]

(* Sm80Step.refund of a request scheduled with n tokens in this step. *)
Refunded(r, n) ==
    IF ~isPrefill[r] THEN step
    ELSE [step EXCEPT !.budget = IF Fair /\ ~Short(Remaining(r)) THEN @ + n ELSE @,
                      !.tokens = @ - n,
                      !.reqs = @ - 1]

(* External: the KV cache manager. *)
InUse == Sum([r \in Req |-> computed[r] + sched[r]], Running)
Fits(n) == pp > 1 \/ InUse + n <= Capacity

(* External: _reserve_prefill_lookahead, a chunk that does not reach the    *)
(* prefill's end ends more than the lookahead before it.                    *)
Reserve(n, remaining) ==
    IF n < remaining THEN Least(n, Most(0, remaining - Lookahead - 1)) ELSE n
-----------------------------------------------------------------------------
NoStep == [budget |-> 0, cap |-> 0, tokens |-> 0, reqs |-> 0, decodes |-> 0,
           decodeCap |-> 0, total |-> 0, carried |-> {}]
Zero == [r \in Req |-> 0]

(* Bound: with a pipeline nothing is preempted, and one priority will do.   *)
Init ==
    /\ bypass \in BOOLEAN /\ pp \in PPSizes
    /\ prio \in [Req -> Prios] /\ (pp > 1 => \A r \in Req : prio[r] = prio[1])
    /\ tokens = Zero /\ prompt = Zero /\ computed = Zero
    /\ isPrefill = [r \in Req |-> FALSE]
    /\ running = << >> /\ waiting = {}
    /\ phase = "idle" /\ index = 1 /\ budget = 0
    /\ sched = Zero /\ preempted = {}
    /\ step = NoStep /\ held = NoRequest
    /\ late = Zero /\ passed = Zero

(* add_request, between two steps. *)
Arrive(r) ==
    /\ phase = "idle"
    /\ tokens[r] = 0
    /\ \A q \in 1 .. r - 1 : tokens[q] > 0
    /\ \E p \in Prompts :
         /\ tokens' = [tokens EXCEPT ![r] = p]
         /\ prompt' = [prompt EXCEPT ![r] = p]
    /\ waiting' = waiting \cup {r}
    /\ UNCHANGED <<bypass, pp, prio, computed, isPrefill, running, phase, index,
                   budget, sched, preempted, step, held, late, passed>>

(* schedule() makes the Sm80Step. *)
Begin ==
    /\ phase = "idle"
    /\ Running \cup waiting # {}
    /\ phase' = "running" /\ index' = 1 /\ budget' = MaxTokens
    /\ sched' = Zero /\ preempted' = {}
    /\ step' = [budget |-> PrefillBudget, cap |-> ChunkCap, tokens |-> 0,
                reqs |-> 0, decodes |-> 0, decodeCap |-> DecodeCap,
                total |-> PrefillBudget, carried |-> Running]
    /\ held' = NoRequest
    /\ UNCHANGED <<reqVars, computed, isPrefill, running, waiting, passed>>

(* The running loop passes over a decode when the micro-batch has its share *)
(* (one whose result is still in flight has nothing to schedule anyway).    *)
PassOver ==
    /\ phase = "running" /\ held.req = 0
    /\ index <= Len(running) /\ budget > 0
    /\ Skip(running[index])
    /\ passed' = [passed EXCEPT ![running[index]] =
                    IF Remaining(running[index]) > 0 THEN @ + 1 ELSE @]
    /\ index' = index + 1
    /\ UNCHANGED <<reqVars, computed, isPrefill, running, waiting, phase,
                   budget, sched, preempted, step, held>>

(* The running loop sizes its next request; one that gets nothing is passed *)
(* over.                                                                    *)
Size ==
    /\ phase = "running" /\ held.req = 0
    /\ index <= Len(running) /\ budget > 0
    /\ ~Skip(running[index])
    /\ LET r == running[index]
           h == Hold(r, isPrefill[r], Remaining(r), Least(Remaining(r), budget))
           n == IF isPrefill[r] THEN Reserve(h.n, Remaining(r)) ELSE h.n
       IN  IF n = 0 THEN held' = NoRequest /\ index' = index + 1
                    ELSE held' = [h EXCEPT !.n = n] /\ UNCHANGED index
    /\ UNCHANGED <<reqVars, computed, isPrefill, running, waiting, phase,
                   budget, sched, preempted, step, passed>>

(* The held request gets its blocks and is charged. *)
Place ==
    /\ phase = "running" /\ held.req # 0
    /\ Fits(held.n)
    /\ sched' = [sched EXCEPT ![held.req] = held.n]
    /\ budget' = budget - held.n
    /\ step' = Charged(held, held.n)
    /\ held' = NoRequest
    /\ index' = index + 1
    /\ passed' = [passed EXCEPT ![held.req] = 0]
    /\ UNCHANGED <<reqVars, computed, isPrefill, running, waiting, phase, preempted>>

(* No blocks: the worst running request is preempted, and refunded if this  *)
(* step had scheduled it.  When it is the held one the loop ends.           *)
Preempt ==
    LET v == Worst(Running)
    IN  /\ phase = "running" /\ held.req # 0
        /\ ~Fits(held.n)
        /\ running' = Without(running, {v})
        /\ waiting' = waiting \cup {v}
        /\ preempted' = preempted \cup {v}
        /\ computed' = [computed EXCEPT ![v] = 0]
        /\ IF sched[v] > 0
             THEN /\ budget' = budget + sched[v]
                  /\ step' = Refunded(v, sched[v])
                  /\ index' = index - 1
             ELSE UNCHANGED <<budget, step, index>>
        /\ sched' = [sched EXCEPT ![v] = 0]
        /\ IF v = held.req THEN held' = NoRequest /\ phase' = "waiting"
                           ELSE UNCHANGED <<held, phase>>
        /\ UNCHANGED <<reqVars, isPrefill, passed>>

(* The requests the loop did not come to were not passed over in this step. *)
EndRunningLoop ==
    /\ phase = "running" /\ held.req = 0
    /\ index > Len(running) \/ budget = 0
    /\ phase' = "waiting"
    /\ passed' = [r \in Req |-> IF \E j \in index .. Len(running) : running[j] = r
                                THEN 0 ELSE passed[r]]
    /\ UNCHANGED <<reqVars, computed, isPrefill, running, waiting, index,
                   budget, sched, preempted, step, held>>

MayAdmit == preempted = {} /\ waiting # {} /\ budget > 0 /\ Len(running) < MaxSeqs

(* The waiting loop takes the head of the queue, with a prefix-cache hit,   *)
(* or ends: Sm80Step.admit leaves it no prefill budget, or it gets no       *)
(* blocks.                                                                  *)
Admit ==
    /\ phase = "waiting" /\ MayAdmit
    /\ \E hit \in Hits :
         LET r == First(waiting)
             rest == tokens[r] - hit
             h == Hold(r, hit < tokens[r] - 1, rest, Least(rest, budget))
             n == IF h.reqIsPrefill THEN Reserve(h.n, rest) ELSE h.n
         IN  /\ hit < tokens[r]
             /\ IF n > 0 /\ Fits(hit + n)
                  THEN /\ computed' = [computed EXCEPT ![r] = hit]
                       /\ sched' = [sched EXCEPT ![r] = n]
                       /\ running' = Append(running, r)
                       /\ waiting' = waiting \ {r}
                       /\ budget' = budget - n
                       /\ step' = Charged(h, n)
                       /\ UNCHANGED phase
                  ELSE /\ phase' = "finish"
                       /\ UNCHANGED <<computed, sched, running, waiting, budget, step>>
    /\ UNCHANGED <<reqVars, isPrefill, index, preempted, held, passed>>

EndWaitingLoop ==
    /\ phase = "waiting" /\ ~MayAdmit
    /\ phase' = "finish"
    /\ UNCHANGED <<reqVars, computed, isPrefill, running, waiting, index,
                   budget, sched, preempted, step, held, passed>>

(* The step is sent to the workers: computed tokens advance, and a request  *)
(* past its prefill has a token sampled.  The result of the step pp - 1     *)
(* steps back returns: its requests get their token or are done.            *)
Finish ==
    LET after == [r \in Req |-> computed[r] + sched[r]]
        sampled == {r \in Req : sched[r] > 0 /\ after[r] = tokens[r]}
        returned == IF pp = 1 THEN sampled ELSE {r \in Req : late[r] = 1}
    IN  /\ phase = "finish"
        /\ computed' = after
        /\ \E stop \in SUBSET returned :
             LET ended == stop \cup {r \in returned : tokens[r] = prompt[r] + MaxOutput - 1}
             IN  /\ running' = Without(running, ended)
                 /\ tokens' = [r \in Req |->
                      IF r \in returned \ ended THEN tokens[r] + 1 ELSE tokens[r]]
        /\ late' = [r \in Req |-> IF r \in sampled THEN pp - 1 ELSE Most(0, late[r] - 1)]
        /\ isPrefill' = [r \in Req |->
              IF sched[r] > 0 THEN after[r] < tokens[r] ELSE isPrefill[r]]
        /\ phase' = "idle"
        /\ sched' = Zero /\ step' = NoStep /\ budget' = 0 /\ index' = 1 /\ preempted' = {}
        /\ UNCHANGED <<bypass, pp, prio, prompt, waiting, held, passed>>

Schedule == Begin \/ PassOver \/ Size \/ Place \/ Preempt \/ EndRunningLoop \/ Admit
              \/ EndWaitingLoop \/ Finish

Next == Schedule \/ \E r \in Req : Arrive(r)

Spec == Init /\ [][Next]_vars

(* The engine loop keeps calling schedule() while it has requests. *)
FairSpec == Spec /\ WF_vars(Schedule)
-----------------------------------------------------------------------------
(* Every variable keeps its type: no budget of the step is overdrawn, a     *)
(* request is in one place only, and the cache holds what is computed.      *)
TypeOK ==
    /\ bypass \in BOOLEAN /\ pp \in PPSizes
    /\ prio \in [Req -> Prios]
    /\ {tokens, prompt, computed, sched, passed} \subseteq [Req -> Nat]
    /\ \A r \in Req : tokens[r] <= prompt[r] + MaxOutput /\ computed[r] + sched[r] <= tokens[r]
    /\ isPrefill \in [Req -> BOOLEAN]
    /\ running \in Seq(Req) /\ IsInjective(running) /\ waiting \subseteq Req \ Running
    /\ phase \in {"idle", "running", "waiting", "finish"} /\ index \in Nat \ {0}
    /\ budget \in 0 .. MaxTokens /\ preempted \subseteq Req
    /\ step \in [budget : Nat, cap : Nat, tokens : Nat, reqs : Nat, decodes : Nat,
                 decodeCap : Nat, total : Nat, carried : SUBSET Req]
    /\ held \in [req : Req \cup {0}, n : Nat, isPrefill : BOOLEAN, reqIsPrefill : BOOLEAN]
    /\ pp = 1 => InUse <= Capacity
    /\ late \in [Req -> 0 .. pp - 1]

(* A request is a prefill in this step, and one draws on the prefill budget. *)
Prefills(r) == IF r \in step.carried THEN isPrefill[r] ELSE computed[r] < tokens[r] - 1
Draws(r) == Fair /\ ~Short(Remaining(r)) /\ Prefills(r)
Scheduled == {r \in Req : sched[r] > 0}
Spent(S) == Sum(sched, S)

(* "refund exactly what charge charged": whatever was preempted, the        *)
(* prefill budget is what the step started with less what the prefills      *)
(* still scheduled drew; the tokens and requests counted for the Mamba      *)
(* ceiling are those of the prefills still scheduled.                       *)
BudgetBalances ==
    phase # "idle" =>
        /\ step.budget + Spent({r \in Scheduled : Draws(r)}) = step.total
        /\ step.tokens = Spent({r \in Scheduled : Prefills(r)})
        /\ step.reqs = Cardinality({r \in Scheduled : Prefills(r)})

(* "a decode stream keeps its slot in every step while someone else's       *)
(* prompt is being prefilled": every decode that was running when the step  *)
(* began is scheduled in it (without a pipeline).                           *)
DecodesRideAlong ==
    (phase = "finish" /\ preempted = {} /\ ~bypass /\ pp = 1) =>
        \A r \in step.carried : ~isPrefill[r] => sched[r] > 0

(* "test_short_bypass_never_starves_decodes": the same with the bypass on.  *)
BypassNeverStarvesDecodes ==
    (phase = "finish" /\ preempted = {} /\ bypass) =>
        \A r \in step.carried : ~isPrefill[r] => sched[r] > 0

(* Beside a decode, long prompts take at most prefill_chunk_with_decodes    *)
(* tokens of a step together, or num_prefill_lookahead + 1 where that is    *)
(* more, the floor below which no chunk could be scheduled at all.          *)
LongPrefillsShareTheChunk ==
    (phase = "finish" /\ Chunk > 0 /\ \E r \in step.carried : ~isPrefill[r]) =>
        Spent({r \in Scheduled : Draws(r)}) <= Most(Chunk, Lookahead + 1)

(* "the request stays eligible for the next one", "keeps every micro-batch  *)
(* busy with its share": whatever ends or joins meanwhile, the shares of pp *)
(* micro-batches in a row take every decode that is ready, so that none is  *)
(* passed over pp times in a row.                                           *)
EveryDecodeGetsItsTurn == \A r \in Req : pp > 1 => passed[r] < pp

(* Every request that arrives is served to its end: it is not starved by    *)
(* the cap, the split or preemption, and none is lost.                      *)
Served ==
    \A r \in Req : r \in waiting ~>
        (r \notin waiting \cup Running /\ computed[r] = tokens[r])
=============================================================================
