----------------------------- MODULE FailedInputs -----------------------------
(***************************************************************************)
(* Requests whose model inputs failed on a worker:                         *)
(* vllm_sm80/failed_inputs.py, called by the upstream scheduler when the   *)
(* output of a step arrives (vllm_sm80/sched/hooks.py).                    *)
(*                                                                         *)
(* The scheduler runs ahead of the worker: while a step's output is in     *)
(* flight further steps are scheduled, and the full blocks of a step are   *)
(* in the prefix cache from the moment it is scheduled.  All prompts are   *)
(* prefixes of one text, so the hash of a block is its index; a request    *)
(* is served when its prompt is computed.  One KV cache group, positions   *)
(* counted from 0.                                                         *)
(***************************************************************************)
EXTENDS Integers, FiniteSets, FiniteSetsExt, SequencesExt

CONSTANTS
    N,         \* requests, numbered in order of arrival
    Prompts,   \* prompt lengths
    BlockSize, \* tokens of a block
    NBlocks,   \* blocks of the pool
    Chunk,     \* tokens a request gets in a step
    InFlight,  \* max_concurrent_batches
    MaxFails,  \* bound: steps with failed inputs
    MaxAborts  \* bound: requests their client aborts

Req == 1 .. N
Blocks == 1 .. NBlocks
BlocksOf(tokens) == (tokens + BlockSize - 1) \div BlockSize

ASSUME FailedInputsAssumption ==
    /\ {N, BlockSize, NBlocks, Chunk, InFlight} \subseteq Nat \ {0}
    /\ Prompts \subseteq Nat \ {0} /\ {MaxFails, MaxAborts} \subseteq Nat
    /\ \A p \in Prompts : N * BlocksOf(p) <= NBlocks

VARIABLES
    prompt,   \* prompt[r]: num_prompt_tokens
    status,   \* status[r]: RequestStatus
    computed, \* computed[r]: num_computed_tokens, scheduled ones included
    flying,   \* flying[r]: num_in_flight_tokens
    table,    \* table[r]: the blocks it holds
    hash,     \* hash[b]: index the prefix cache finds block b under, 0: none
    steps,    \* steps scheduled whose output has not been processed, oldest first
    ran,      \* how many of them the worker has executed
    cause,    \* cause[b]: whose failed inputs made b's KV wrong; 0: it is right,
              \* -1: it was computed from a wrong block of another request
    served,   \* served[r]: the causes in the KV r was served from
    missed,   \* requests that were gone when their failure arrived
    fails, aborts

vars == <<prompt, status, computed, flying, table, hash, steps, ran, cause, served,
          missed, fails, aborts>>

-----------------------------------------------------------------------------
Live(r) == status[r] \in {"waiting", "running"}
Running == {r \in Req : status[r] = "running"}
InOrder == [r \in Req |-> r]

Init ==
    /\ prompt \in [Req -> Prompts]
    /\ status = [r \in Req |-> "waiting"]
    /\ computed = [r \in Req |-> 0]
    /\ flying = [r \in Req |-> 0]
    /\ table = [r \in Req |-> <<>>]
    /\ hash = [b \in Blocks |-> 0]
    /\ steps = <<>> /\ ran = 0
    /\ cause = [b \in Blocks |-> 0]
    /\ served = [r \in Req |-> {}]
    /\ missed = {} /\ fails = 0 /\ aborts = 0

-----------------------------------------------------------------------------
(* find_longest_cache_hit: blocks of all but the last token of the prompt   *)
(* at most, up to the first one that is missing.                            *)
HitBlocks(h, r) ==
    Max({k \in 0 .. (prompt[r] - 1) \div BlockSize :
            \A i \in 1 .. k : \E b \in Blocks : h[b] = i})

(* n free blocks, those that no prefix is found under first *)
FreeBlocks(h, held, n) ==
    LET free == Blocks \ held
        before(b) == {c \in free : IF (h[b] = 0) = (h[c] = 0) THEN c < b ELSE h[c] = 0}
    IN  [i \in 1 .. n |-> CHOOSE b \in free : Cardinality(before(b)) = i - 1]

(* allocate_slots for one request of a step, after the requests before it: *)
(* a waiting request starts behind its prefix hit, and every block the step *)
(* fills enters the prefix cache at once.                                   *)
Allocate(a, r) ==
    LET new  == a.computed[r] = 0
        hit  == [i \in 1 .. HitBlocks(a.hash, r) |-> Min({b \in Blocks : a.hash[b] = i})]
        old  == IF new THEN hit ELSE a.table[r]
        from == IF new THEN Len(hit) * BlockSize ELSE a.computed[r]
        to   == Min({from + Chunk, prompt[r]})
        held == (UNION {ToSet(a.table[q]) : q \in Req}) \cup ToSet(old)
        more == FreeBlocks(a.hash, held, BlocksOf(to) - Len(old))
        all  == old \o more
        full == {i \in 1 .. Len(all) : i * BlockSize <= to}
    IN  [a EXCEPT !.table[r] = all, !.from[r] = from, !.computed[r] = to,
                  !.hash = [b \in Blocks |->
                              IF \E i \in full : all[i] = b
                              THEN CHOOSE i \in full : all[i] = b
                              ELSE IF b \in ToSet(more) THEN 0 ELSE a.hash[b]]]

Allocated(rs) ==
    FoldLeft(LAMBDA a, r : IF r \in rs THEN Allocate(a, r) ELSE a,
             [table |-> table, hash |-> hash, computed |-> computed, from |-> computed],
             InOrder)

Schedule ==
    /\ Len(steps) < InFlight
    /\ \E rs \in (SUBSET {r \in Req : Live(r) /\ computed[r] < prompt[r]}) \ {{}} :
       \E a \in {Allocated(rs)} :
        /\ table' = a.table /\ hash' = a.hash /\ computed' = a.computed
        /\ status' = [r \in Req |-> IF r \in rs THEN "running" ELSE status[r]]
        /\ flying' = [r \in Req |-> flying[r] + a.computed[r] - a.from[r]]
        /\ steps' = Append(steps,
             [work |-> [r \in rs |-> [from |-> a.from[r], to |-> a.computed[r],
                                     table |-> a.table[r]]],
              failed |-> {}, causes |-> [r \in rs |-> {}]])
    /\ UNCHANGED <<prompt, ran, cause, served, missed, fails, aborts>>

-----------------------------------------------------------------------------
(* The KV a step computes for request r: wrong from its first failed token  *)
(* on, and where it is computed over wrong KV.                              *)
Compute(c, r, w, at) ==
    LET under == {c[w.table[i]] : i \in {j \in DOMAIN w.table : (j - 1) * BlockSize < w.from}}
        fill(i) == IF (at < w.to /\ i * BlockSize > at) \/ r \in under THEN r
                   ELSE IF under \subseteq {0} THEN 0 ELSE -1
    IN  [b \in Blocks |->
           IF \E i \in DOMAIN w.table : w.table[i] = b /\ i * BlockSize > w.from
           THEN fill(CHOOSE i \in DOMAIN w.table : w.table[i] = b) ELSE c[b]]

(* The worker executes its next step; at[r] is the first token of r whose   *)
(* input it could not produce, or the end of r's tokens.  The owners of     *)
(* the mask's tokens (failed_request_ids) go into the step's output.        *)
Computed(work, at) ==
    FoldLeft(LAMBDA c, r : IF r \in DOMAIN work THEN Compute(c, r, work[r], at[r]) ELSE c,
             cause, InOrder)
FailedRequests(work, at) == {r \in DOMAIN work : at[r] < work[r].to}

Execute(at) ==
    LET work == steps[ran + 1].work
    IN  \E after \in {Computed(work, at)} :
        /\ cause' = after
        /\ steps' = [steps EXCEPT ![ran + 1].failed = FailedRequests(work, at),
                     ![ran + 1].causes = [r \in DOMAIN work |->
                        {after[b] : b \in ToSet(work[r].table)} \ {0}]]
        /\ ran' = ran + 1
        /\ fails' = fails + Cardinality(FailedRequests(work, at))
        /\ UNCHANGED <<prompt, status, computed, flying, table, hash, served, missed, aborts>>

WorkerStep ==
    /\ ran < Len(steps)
    /\ LET work == steps[ran + 1].work
       IN  \E at \in [DOMAIN work -> 0 .. Max(Prompts)] :
            /\ \A r \in DOMAIN work : at[r] \in work[r].from .. work[r].to
            /\ fails + Cardinality(FailedRequests(work, at)) <= MaxFails
            /\ Execute(at)

-----------------------------------------------------------------------------
(* evict_blocks_from: the request's blocks holding tokens at or after       *)
(* num_tokens leave the prefix cache.                                       *)
MutantBlocksFrom(r, tokens) ==   \* Mutant of BlocksFrom: one block too many
    {table[r][i] : i \in {j \in DOMAIN table[r] : j >= tokens \div BlockSize}}
BlocksFrom(r, tokens) ==
    {table[r][i] : i \in {j \in DOMAIN table[r] : j > tokens \div BlockSize}}

MutantFirstToken(r) == computed[r]  \* Mutant of FirstToken: nothing in flight
FirstToken(r) == Max({0, computed[r] - flying[r]})

(* handle_failed_inputs on the requests a step's output names.              *)
Reused(failed) == UNION {BlocksFrom(r, FirstToken(r)) : r \in {q \in failed : Live(q)}}
Affected(failed) ==
    {r \in failed : Live(r)}
    \cup {r \in Running : ToSet(table[r]) \cap Reused(failed) # {}}

(* update_from_output for the oldest step: the affected requests finish     *)
(* with an error, the others keep what they computed.                       *)
Update ==
    LET step == steps[1]
        bad  == Affected(step.failed)
        kept == {r \in DOMAIN step.work : Live(r)} \ bad
        ends == {r \in kept : step.work[r].to = prompt[r]}
    IN  /\ ran > 0
        /\ steps' = Tail(steps) /\ ran' = ran - 1
        /\ hash' = [b \in Blocks |-> IF b \in Reused(step.failed) THEN 0 ELSE hash[b]]
        /\ status' = [r \in Req |-> IF r \in bad THEN "error"
                                    ELSE IF r \in ends THEN "served" ELSE status[r]]
        /\ table' = [r \in Req |-> IF r \in bad \cup ends THEN <<>> ELSE table[r]]
        /\ flying' = [r \in Req |-> IF r \in bad \cup ends THEN 0
                                    ELSE IF r \in kept
                                    THEN flying[r] - (step.work[r].to - step.work[r].from)
                                    ELSE flying[r]]
        /\ served' = [r \in Req |-> IF r \in ends THEN step.causes[r] ELSE served[r]]
        /\ missed' = missed \cup {r \in step.failed : ~Live(r)}
        /\ UNCHANGED <<prompt, computed, cause, fails, aborts>>

(* The client goes away: finish_requests frees the blocks at once, and      *)
(* those in the prefix cache stay there.                                    *)
Abort ==
    /\ aborts < MaxAborts
    /\ \E r \in Running :
        /\ status' = [status EXCEPT ![r] = "aborted"]
        /\ table' = [table EXCEPT ![r] = <<>>]
        /\ flying' = [flying EXCEPT ![r] = 0]
    /\ aborts' = aborts + 1
    /\ UNCHANGED <<prompt, computed, hash, steps, ran, cause, served, missed, fails>>

Next == Schedule \/ WorkerStep \/ Update \/ Abort
Spec == Init /\ [][Next]_vars

-----------------------------------------------------------------------------
(* Every variable keeps its type; a request holds blocks for all it has     *)
(* computed and no more tokens are in flight than that.                     *)
TypeOK ==
    /\ prompt \in [Req -> Prompts]
    /\ status \in [Req -> {"waiting", "running", "served", "error", "aborted"}]
    /\ computed \in [Req -> 0 .. Max(Prompts)]
    /\ flying \in [Req -> Nat] /\ table \in [Req -> Seq(Blocks)]
    /\ \A r \in Req :
        /\ flying[r] <= computed[r]
        /\ status[r] = "running" => Len(table[r]) * BlockSize >= computed[r]
    /\ hash \in [Blocks -> 0 .. BlocksOf(Max(Prompts))]
    /\ Len(steps) <= InFlight /\ ran \in 0 .. Len(steps)
    /\ cause \in [Blocks -> Req \cup {0, -1}]
    /\ served \in [Req -> SUBSET (Req \cup {-1})] /\ missed \subseteq Req
    /\ fails \in 0 .. MaxFails /\ aborts \in 0 .. MaxAborts

(* A request fails only for its own inputs or because it holds a block that *)
(* a failed request filled in the failed step or later: what a request      *)
(* reused of an earlier, good step costs it nothing, however many steps are *)
(* in flight when the failure is handled.                                   *)
InnocentsSpared ==
    [][\A r \in Req : status'[r] = "error" /\ status[r] # "error" =>
        LET step == steps[1]
        IN  \/ r \in step.failed
            \/ \E p \in step.failed : \E i \in DOMAIN table[p] :
                /\ i * BlockSize > step.work[p].from
                /\ table[p][i] \in ToSet(table[r])]_vars

(* No request is served from a block that a request filled after its inputs *)
(* failed, if that request was still there when its failure was handled:    *)
(* whoever took the block from the prefix cache meanwhile fails with it,    *)
(* and nobody can take it afterwards.                                       *)
SweptNeverServed ==
    \A r \in Req : served[r] \subseteq missed \cup {-1}

(* "so no request is served from those inputs" (handle_failed_inputs); "no  *)
(* request is served from KV computed from those inputs"                    *)
(* (tests/v1/core/test_scheduler_failed_inputs.py).                         *)
NeverServedFromThem == \A r \in Req : served[r] = {}

=============================================================================
