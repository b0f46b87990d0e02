------------------------------ MODULE DraftTail ------------------------------
(***************************************************************************)
(* The moved draft tail and the split draft event under pipeline           *)
(* parallelism: vllm_sm80/worker/pp_draft_tail.py, pp_handler.py,          *)
(* pp_hooks.py and the draft calls of runner_hooks.py.                     *)
(*                                                                         *)
(* Every stage runs the same scheduler steps, one after the other, behind  *)
(* the stage before it.  A stage's host and main stream are one process,   *)
(* which blocks where the main stream waits for an event; its broadcast    *)
(* stream is a queue of collectives that complete when every stage of the  *)
(* group has reached them.  A step's drafts are named by the step, and a   *)
(* row of the request state holds the step whose drafts it was given last. *)
(***************************************************************************)
EXTENDS Integers, FiniteSets, FiniteSetsExt, SequencesExt

CONSTANTS
    Pipelines, \* [stages, tail]: pipeline_parallel_size, VLLM_PP_DRAFT_TAIL_STAGE
    NSlots,    \* rows of the request state
    MaxSteps,  \* bound: scheduler steps
    MaxEvents  \* bound: freed rows, unsampled rows and structured steps in a run

Slots == 1 .. NSlots   \* numbered in the order they are first used

ASSUME DraftTailAssumption ==
    /\ Pipelines \subseteq [stages : Nat \ {0, 1}, tail : Nat]
    /\ \A p \in Pipelines : p.tail <= p.stages - 2   \* draft_tail_gate
    /\ {NSlots, MaxSteps, MaxEvents} \subseteq Nat

VARIABLES
    pipe,    \* the pipeline, fixed by the configuration
    split,   \* VLLM_PP_SPLIT_DRAFT_EVENT, fixed by the environment
    setup,   \* where finalize() is
    ok,      \* ok[s]: what stage s knows of the copy's health
    live,    \* live[s]: DraftTailController.live
    sched,   \* the scheduler's steps so far, each with the newest drafts made
             \* before it for the request each row holds
    done,    \* done[s]: steps stage s has finished
    gen,     \* gen[s][r]: req_idx_gen_np
    drafts,  \* drafts[s][r]: req_states.draft_tokens, as a step (0: none)
    read,    \* what the last stage's newest forward took for its rows
    queue,   \* queue[s]: PPHandler.queue of an earlier stage
    pending, \* pending[s]: Sm80PPHandler.pending_drafts
    remote,  \* RemoteDraftQueue.entries of the last stage
    qstep,   \* RemoteDraftQueue.step
    stream   \* stream[s]: collectives enqueued on the broadcast stream

hostVars == <<gen, drafts, read, queue, pending, remote, qstep>>
setupVars == <<pipe, split, setup, ok, live>>
vars == <<setupVars, sched, done, hostVars, stream>>

-----------------------------------------------------------------------------
PP == pipe.stages         \* also max_concurrent_batches
TailStage == pipe.tail
LastRank == PP - 1
Stages == 0 .. LastRank
AnyStage == UNION {0 .. p.stages - 2 : p \in Pipelines}   \* a stage before the last

Zeros == [r \in Slots |-> 0]
None == [step |-> 0, gen |-> Zeros]          \* an empty slot of the queue
NoPending == [step |-> 0, keep |-> {}, gen |-> Zeros]

(* RemoteDraftQueue(max_age=max(2, max_concurrent_batches + 1)) *)
MutantMaxAge == Max({2, PP})      \* Mutant of MaxAge: one step less
MaxAge == Max({2, PP + 1})

(* The step stage s is at, and whether the scheduler has made it. *)
At(s) == done[s] + 1
HasStep(s) == setup = "serving" /\ At(s) <= Len(sched)
Now(s) == sched[At(s)]

(* step_uses_remote_tail, as stage s decides it *)
MutantRemoteStep(s, n) ==        \* Mutant of RemoteStep: only the last stage looks
    /\ live[s] /\ sched[n].sampled # {}
    /\ s = LastRank => ~sched[n].structured
RemoteStep(s, n) == live[s] /\ sched[n].sampled # {} /\ ~sched[n].structured

(* The rows of a step that still belong to the request they were made for. *)
MutantStillHeld(keep, before, now) == keep  \* Mutant of StillHeld: no comparison
StillHeld(keep, before, now) == {r \in keep : now[r] = before[r]}

(* draft_tokens_to_update[idx] = draft_tokens *)
Scatter(to, step, rows) == [r \in Slots |-> IF r \in rows THEN step ELSE to[r]]

Landed(s, n) == \A i \in DOMAIN stream[s] : stream[s][i].step # n
CountsLanded(s, n) ==
    \A i \in DOMAIN stream[s] : ~(stream[s][i].step = n /\ stream[s][i].kind = "counts")

(* The collectives of a step that samples, in the order stage s issues them. *)
Collectives(s, n) ==
    LET op(kind, root) == [step |-> n, kind |-> kind, root |-> root]
    IN  <<op("counts", LastRank)>>
        \o (IF RemoteStep(s, n) /\ s \in {TailStage, LastRank}
            THEN <<op("payload", LastRank)>> ELSE <<>>)
        \o <<op("drafts", IF RemoteStep(s, n) THEN TailStage ELSE LastRank)>>

-----------------------------------------------------------------------------
Init ==
    /\ pipe \in Pipelines
    /\ split \in BOOLEAN
    /\ setup = "agree"
    /\ ok = [s \in Stages |-> FALSE]
    /\ live = [s \in Stages |-> FALSE]
    /\ sched = <<>>
    /\ done = [s \in Stages |-> 0]
    /\ gen = [s \in Stages |-> Zeros]
    /\ drafts = [s \in Stages |-> Zeros]
    /\ read = Zeros
    /\ queue = [s \in Stages \ {LastRank} |-> [i \in 1 .. PP |-> None]]
    /\ pending = [s \in Stages \ {LastRank} |-> NoPending]
    /\ remote = <<>>
    /\ qstep = 0
    /\ stream = [s \in Stages |-> <<>>]

serveVars == <<sched, done, hostVars, stream>>

(* finalize: both ends broadcast what they hold, and every stage compares. *)
Agree ==
    /\ setup = "agree"
    /\ \E agreed \in BOOLEAN :
        /\ ok' = [s \in Stages |-> agreed]
        /\ setup' = IF agreed THEN "copy" ELSE "verdict"
    /\ UNCHANGED <<pipe, split, live, serveVars>>

(* _copy_weights: only the tail stage sees whether the checksums match. *)
CopyWeights ==
    /\ setup = "copy"
    /\ \E same \in BOOLEAN : ok' = [ok EXCEPT ![TailStage] = same]
    /\ setup' = "verdict"
    /\ UNCHANGED <<pipe, split, live, serveVars>>

(* Every stage takes the tail stage's verdict. *)
Verdict ==
    /\ setup = "verdict"
    /\ ok' = [s \in Stages |-> ok[TailStage]]
    /\ live' = ok'
    /\ setup' = "serving"
    /\ UNCHANGED <<pipe, split, serveVars>>

(* The scheduler: at most PP steps in flight, a decode only PP steps after  *)
(* the step that sampled its last token, every later step of a request that *)
(* has sampled samples again.  A row freed in a step is given at once to a  *)
(* new request.                                                             *)
NewestBefore(n) ==
    IF n = 1 THEN Zeros
    ELSE [r \in Slots |-> IF r \in sched[n - 1].sampled THEN n - 1
                                                      ELSE sched[n - 1].newest[r]]
Used == UNION {sched[n].rows : n \in DOMAIN sched}
Events(steps) ==
    UNION {{<<n, r, "freed">> : r \in steps[n].free}
             \cup {<<n, r, "unsampled">> : r \in steps[n].rows \ steps[n].sampled}
             \cup (IF steps[n].structured THEN {<<n, 0, "structured">>} ELSE {})
             : n \in DOMAIN steps}

Schedule ==
    LET n == Len(sched) + 1
    IN  /\ setup = "serving"
        /\ n <= MaxSteps /\ done[0] = Len(sched) /\ n - done[LastRank] <= PP
        /\ \E free, rows \in SUBSET Slots, structured \in BOOLEAN :
            LET newest == [r \in Slots |-> IF r \in free THEN 0 ELSE NewestBefore(n)[r]]
            IN  /\ free \subseteq Used /\ \A r \in rows : 1 .. r - 1 \subseteq Used \cup rows
                /\ \A r \in rows : newest[r] = 0 \/ newest[r] + PP <= n
                /\ \E sampled \in SUBSET rows :
                    /\ {r \in rows : newest[r] # 0} \subseteq sampled
                    /\ structured => sampled # {} /\ live[LastRank]
                    /\ sched' = Append(sched,
                         [free |-> free, rows |-> rows, sampled |-> sampled,
                          structured |-> structured, newest |-> newest])
        /\ Cardinality(Events(sched')) <= MaxEvents
    /\ UNCHANGED <<setupVars, done, hostVars, stream>>

-----------------------------------------------------------------------------
(* The rows of stage s once its step's finished requests are gone: their    *)
(* generation moves on, and the request that takes a row over writes it.    *)
GenAfter(s) == [r \in Slots |-> IF r \in Now(s).free THEN gen[s][r] + 1 ELSE gen[s][r]]
Fresh(s, to) == Scatter(to, 0, Now(s).free)

(* apply_pending_drafts: rows freed since the results were consumed are    *)
(* skipped, and nothing is waited for when no row is left.                  *)
LateRows(p, now) == StillHeld(p.keep, p.gen, now)
LateLanded(s, p, now) == LateRows(p, now) # {} => Landed(s, p.step)
WithLate(to, p, now) == Scatter(to, p.step, LateRows(p, now))

(* get_prev_sampled_outputs of an earlier stage, at generation now: the     *)
(* results of the step PP steps back leave the queue.  Without the split    *)
(* event their drafts are stored at once; with it (defer_drafts) an entry   *)
(* that is still pending is, and these become pending.                      *)
Taken(s) == queue[s][1]
Kept(s, now) == StillHeld(sched[Taken(s).step].sampled, Taken(s).gen, now)
ConsumeReady(s, now) ==
    Taken(s).step # 0 =>
        /\ CountsLanded(s, Taken(s).step)
        /\ IF split THEN LateLanded(s, pending[s], now) ELSE Landed(s, Taken(s).step)
Consumed(s, to, now) ==
    IF Taken(s).step = 0 THEN to
    ELSE IF split THEN WithLate(to, pending[s], now)
    ELSE Scatter(to, Taken(s).step, Kept(s, now))
Deferred(s, now) ==
    IF split /\ Taken(s).step # 0
    THEN [step |-> Taken(s).step, keep |-> Kept(s, now), gen |-> now]
    ELSE pending[s]

(* A step of an earlier stage: the update of its rows, in either order, and *)
(* unless the step has no rows apply_late_drafts, the forward on the hidden *)
(* states of the stage before, and receive.                                 *)
StageStep(s) ==
    /\ s < LastRank /\ HasStep(s)
    /\ \E freesFirst \in BOOLEAN :
        LET now == GenAfter(s)
            at  == IF freesFirst THEN now ELSE gen[s]
            to  == IF freesFirst THEN Consumed(s, Fresh(s, drafts[s]), at)
                                 ELSE Fresh(s, Consumed(s, drafts[s], at))
            p   == Deferred(s, at)
            next == Append(Tail(queue[s]), None)
        IN  /\ ConsumeReady(s, at)
            /\ gen' = [gen EXCEPT ![s] = now]
            /\ \/ /\ Now(s).rows = {}
                  /\ drafts' = [drafts EXCEPT ![s] = to]
                  /\ pending' = [pending EXCEPT ![s] = p]
                  /\ queue' = [queue EXCEPT ![s] = next]
                  /\ UNCHANGED stream
               \/ /\ Now(s).rows # {}
                  /\ s > 0 => done[s - 1] >= At(s)
                  /\ LateLanded(s, p, now)
                  /\ drafts' = [drafts EXCEPT ![s] = WithLate(to, p, now)]
                  /\ pending' = [pending EXCEPT ![s] = NoPending]
                  /\ IF Now(s).sampled = {} THEN /\ queue' = [queue EXCEPT ![s] = next]
                                                /\ UNCHANGED stream
                     ELSE /\ queue' = [queue EXCEPT ![s] =
                                          [next EXCEPT ![PP] = [step |-> At(s), gen |-> now]]]
                          /\ stream' = [stream EXCEPT ![s] = @ \o Collectives(s, At(s))]
    /\ done' = [done EXCEPT ![s] = @ + 1]
    /\ UNCHANGED <<setupVars, sched, read, remote, qstep>>

-----------------------------------------------------------------------------
(* RemoteDraftQueue.due: every entry up to the last one that is too old or  *)
(* holds a row of the batch.                                                *)
LiveRows(e, now) == StillHeld(e.keep, e.gen, now)
TooOld(e, q) == e.step <= q - MaxAge
MutantDue(now, q, batch) ==      \* Mutant of Due: stops at the first entry that is due
    Min({Len(remote) + 1} \cup {i \in DOMAIN remote :
          TooOld(remote[i], q) \/ LiveRows(remote[i], now) \cap batch # {}}) % (Len(remote) + 1)
Due(now, q, batch) ==
    Max({0} \cup {i \in DOMAIN remote :
                    TooOld(remote[i], q) \/ LiveRows(remote[i], now) \cap batch # {}})

(* RemoteDraftQueue.apply, in the order of the queue: a row ends with the   *)
(* last entry that has it.                                                  *)
Applied(to, due, now) ==
    [r \in Slots |->
        LET hits == {i \in 1 .. due : r \in LiveRows(remote[i], now)}
        IN  IF hits = {} THEN to[r] ELSE remote[Max(hits)].of]

SkipLast ==
    /\ HasStep(LastRank) /\ Now(LastRank).rows = {}
    /\ gen' = [gen EXCEPT ![LastRank] = GenAfter(LastRank)]
    /\ drafts' = [drafts EXCEPT ![LastRank] = Fresh(LastRank, @)]
    /\ done' = [done EXCEPT ![LastRank] = @ + 1]
    /\ UNCHANGED <<setupVars, sched, read, queue, pending, remote, qstep, stream>>

(* The last stage's step: apply_remote_drafts as the inputs are prepared,   *)
(* the forward, and the drafts, which the drafter either stores itself or   *)
(* sends on as the payload (send_draft_tail).                               *)
ForwardLast ==
    LET n    == At(LastRank)
        now  == GenAfter(LastRank)
        due  == Due(now, qstep + 1, Now(LastRank).rows)
        land == Applied(Fresh(LastRank, drafts[LastRank]), due, now)
        left == SubSeq(remote, due + 1, Len(remote))
    IN  /\ HasStep(LastRank) /\ Now(LastRank).rows # {}
        /\ done[LastRank - 1] >= n
        /\ \A i \in 1 .. due :
              LiveRows(remote[i], now) # {} => Landed(LastRank, remote[i].of)
        /\ gen' = [gen EXCEPT ![LastRank] = now]
        /\ qstep' = qstep + 1
        /\ read' = land
        /\ IF RemoteStep(LastRank, n)
           THEN /\ remote' = Append(left, [step |-> qstep + 1, of |-> n, gen |-> now,
                                           keep |-> Now(LastRank).sampled])
                /\ drafts' = [drafts EXCEPT ![LastRank] = land]
           ELSE /\ remote' = left
                /\ drafts' = [drafts EXCEPT ![LastRank] =
                                 Scatter(land, n, Now(LastRank).rows)]
        /\ stream' = IF Now(LastRank).sampled = {} THEN stream
                     ELSE [stream EXCEPT ![LastRank] = @ \o Collectives(LastRank, n)]
        /\ done' = [done EXCEPT ![LastRank] = n]
        /\ UNCHANGED <<setupVars, sched, queue, pending>>

-----------------------------------------------------------------------------
(* A collective completes when it is next on the stream of every stage that *)
(* takes part, all of them agreeing on its root.                            *)
Complete(op, group) ==
    /\ \A s \in group : stream[s] # <<>> /\ Head(stream[s]) = op
    /\ stream' = [s \in Stages |-> IF s \in group THEN Tail(stream[s]) ELSE stream[s]]
    /\ UNCHANGED <<setupVars, sched, done, hostVars>>

Broadcast == \E op \in ToSet(stream[LastRank]) : op.kind # "payload" /\ Complete(op, Stages)
SendPayload ==
    \E op \in ToSet(stream[LastRank]) : op.kind = "payload" /\ Complete(op, {TailStage, LastRank})

LastStep == SkipLast \/ ForwardLast
Finalize == Agree \/ CopyWeights \/ Verdict

Next ==
    \/ Finalize \/ Schedule \/ LastStep \/ Broadcast \/ SendPayload
    \/ \E s \in AnyStage : StageStep(s)

Spec == Init /\ [][Next]_vars
(* Every stage's streams keep running and the scheduler never withholds a   *)
(* step's work from one stage alone.                                        *)
FairSpec ==
    /\ Spec /\ WF_vars(Finalize) /\ WF_vars(LastStep)
    /\ WF_vars(Broadcast) /\ WF_vars(SendPayload)
    /\ \A s \in AnyStage : WF_vars(StageStep(s))

-----------------------------------------------------------------------------
(* Every variable keeps its type; the drafts not yet landed are those of at *)
(* most MaxAge steps with a forward, and an earlier stage has one queue     *)
(* slot for every step in flight.                                           *)
Entry == [step : 1 .. MaxSteps, of : 1 .. MaxSteps, keep : SUBSET Slots,
          gen : [Slots -> 0 .. MaxEvents]]
Op == [step : 1 .. MaxSteps, kind : {"counts", "payload", "drafts"}, root : Stages]
TypeOK ==
    /\ pipe \in Pipelines /\ split \in BOOLEAN
    /\ setup \in {"agree", "copy", "verdict", "serving"}
    /\ {ok, live} \subseteq [Stages -> BOOLEAN]
    /\ sched \in Seq([free : SUBSET Slots, rows : SUBSET Slots, sampled : SUBSET Slots,
                      structured : BOOLEAN, newest : [Slots -> 0 .. MaxSteps]])
    /\ done \in [Stages -> 0 .. MaxSteps]
    /\ gen \in [Stages -> [Slots -> 0 .. MaxEvents]]
    /\ drafts \in [Stages -> [Slots -> 0 .. MaxSteps]] /\ read \in [Slots -> 0 .. MaxSteps]
    /\ queue \in [Stages \ {LastRank} ->
                    Seq([step : 0 .. MaxSteps, gen : [Slots -> 0 .. MaxEvents]])]
    /\ \A s \in DOMAIN queue : Len(queue[s]) = PP
    /\ pending \in [Stages \ {LastRank} ->
                      [step : 0 .. MaxSteps, keep : SUBSET Slots,
                       gen : [Slots -> 0 .. MaxEvents]]]
    /\ remote \in Seq(Entry) /\ Len(remote) <= MaxAge
    /\ qstep \in 0 .. MaxSteps
    /\ stream \in [Stages -> Seq(Op)]

(* The drafts a forward reads for a request are the newest ones made for it *)
(* and every stage reads the same: the draft tail's late scatter and the    *)
(* late scatter of a split event change when drafts are stored, never which *)
(* ("a row always ends with its newest drafts").                            *)
Read(s) == IF s = LastRank THEN read ELSE drafts[s]
DraftsAreNewest ==
    \A s \in Stages : done[s] > 0 =>
        \A r \in sched[done[s]].rows :
            sched[done[s]].newest[r] # 0 => Read(s)[r] = sched[done[s]].newest[r]

(* No row ever holds drafts made for a request that has left it, although   *)
(* drafts land steps after they were made and the row is given away at once *)
(* ("a re-used row keeps the state its new request wrote").                 *)
NoStrayDrafts ==
    \A s \in Stages, r \in Slots : drafts[s][r] # 0 =>
        /\ r \in sched[drafts[s][r]].rows
        /\ \A n \in drafts[s][r] + 1 .. done[s] : r \notin sched[n].free

(* An entry that is applied for its age alone has landed on every stage by  *)
(* the time the last stage comes to it: the age limit makes no step wait    *)
(* ("older than every step that can be in flight has long landed; waiting   *)
(* on it costs nothing", pp_handler.py).                                    *)
AgedHaveLanded ==
    HasStep(LastRank) /\ Now(LastRank).rows # {} =>
        \A e \in ToSet(remote) :
            TooOld(e, qstep + 1) /\ LiveRows(e, GenAfter(LastRank)) # {} =>
                Landed(LastRank, e.of)

(* Every stage finishes every step the scheduler makes and every collective *)
(* completes: the stages agree on each step's root, on whether there is a   *)
(* payload and on the order, and none waits for drafts that depend on it.   *)
EveryStepFinishes ==
    []<>(\A s \in Stages : done[s] = Len(sched) /\ stream[s] = <<>>)

=============================================================================
