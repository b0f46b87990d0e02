# Verification of vllm_sm80

`vllm_sm80` is a plugin that makes vLLM run well on a group of small sm_80
cards that have no fast link between them. Its own core logic is therefore in two
places: how several ranks add tensors up without NCCL (`distributed/`), and how
the scheduler shares a step between prompts being prefilled and requests being
decoded (`sched/`). This project models those parts in TLA+, checks them with
TLC on small instances and proves every safety property it checks with TLAPS for every
instance. Paths below are relative to `src/vllm_sm80/`.

Contents: [inventory](#inventory), [modules](#modules-and-how-they-correspond-to-the-code),
[runs](#runs), [proofs](#proofs), [what the models leave out](#what-the-models-leave-out),
[plan](#plan).

## Inventory

The system is a plugin around upstream vLLM (which is not in the repository): a
scheduler process decides what each step computes, one worker process per GPU
executes the step, and within a step the workers (ranks) exchange tensors.

**Host-staged all-reduce** (`distributed/host_shm_all_reduce.py`).
State: a POSIX shared-memory segment mapped by all ranks (flags
`arrive[barrier][parity][block][rank]`, error words, double-buffered scatter
slots, one single-buffered copy-engine slot per rank, a double-buffered gather
buffer) and per rank a device counter `seq`, the call counter and the disabled
flag. Operations: three kernels (one-shot, two-shot, two-shot with a
copy-engine publish), the host's dispatch with its periodic look at the error
words, and the collective constructor and `close`. Hard: ranks run
asynchronously and only flags order them; slots are reused after two calls or
after one; spins time out and the rank goes on; most calls are replays of a
captured CUDA graph. Correct if: a call that ends holds the sum of this call's
contributions or an error word is set; ranks never drift apart; every call ends
when nothing times out; and after setup all ranks use the path or none does,
with nothing left in `/dev/shm`.

**Flags-in-data all-reduce** (`distributed/custom_all_reduce_flags.py`).
State: per rank a receive buffer of three rotating stages, two epoch words (the
stage and its arrival count) and the extents written per stage. Operations: the
kernels `two_shot`, `one_shot`, `two_shot_z`; the error record that a timed-out
wait fills before it traps; the watcher thread. Hard: there is no flag at all,
a pack has arrived once it is not the sentinel, so a re-fill that is late, short
or in the wrong stage corrupts a later call silently; CTAs of one grid wait for
each other and for other ranks. Correct if: no stale pack is taken for data, no
push is wiped before it is read, every call ends, and a timeout blames a peer
that really is late.

**Copy-engine ring and owner sum** (`distributed/ce_ring_all_reduce.py`, error
words in `distributed/step_errors.py`). State: scratch slots and step flags on
every rank, a launch epoch, a sticky error word. Operations: two programs of
flag stores, flag waits, peer copies and adds; the host's check of the error word
at the output's copy event. Hard: both programs use the same flags and slots in
any order, and a wait that is given up continues with a stale slot. Correct if:
a finished sum is exact or some error word is set, a slot is read before it is
reused, and every call ends.

**All-reduce communicator** (`distributed/communicator.py`, `pcie_p2p.py`).
Chooses one of the above by settings and message size. Sequential, no protocol
of its own.

**Fair chunked prefill** (`sched/`). State per step: the prefill token budget,
the per-request cap, the counts for the Mamba ceiling. Operations: sizing a
request, charging it when it is placed, refunding it when it is preempted in the
same step, admitting waiting requests. Hard: a request's remaining length
changes between charge and refund, preemption removes any running request,
several limits (token budget, chunk, per-request share, lookahead, sequences, KV
cache) meet in one step. Correct if: what is refunded is what was charged,
decodes are scheduled in every step, long prompts together stay within the chunk
(or the floor the lookahead sets) and nobody starves. Under pipeline parallelism a decode is out of play until its
result returns, and the decodes are spread over the steps in between: correct if
none is passed over for a whole round.

**Pipeline-parallel draft tail** (`worker/pp_draft_tail.py`, `pp_handler.py`,
`pp_hooks.py`, the draft calls of `runner_hooks.py`). State: per stage the request
state's rows with a generation each, the queue of results on their way, the drafts
that are pending (earlier stages, split draft event) or queued (last stage, moved
tail), and the collectives on the broadcast stream. Operations: the agreement
on the moved tail at start-up; per step the update of the rows, the forward, the
broadcasts and the late scatters. Hard: drafts land steps after they were made,
when their row may belong to another request; two requests' drafts become due in
different orders; every stage decides alone which collectives a step has and where
they are rooted. Correct if every forward reads the newest drafts of its requests
and no others, no stage waits for drafts that cannot have come yet, and every
collective completes.

**Failed model inputs** (`failed_inputs.py`, the hook in `sched/hooks.py`). State:
upstream's requests, block tables and prefix cache. Operations: the worker's mask
of failed tokens becomes a set of requests; their blocks from the failed token on
leave the prefix cache, and running requests that hold one of them fail too. Hard:
the failure arrives while later steps are in flight, when other requests have
already reused the blocks, or the request is gone. Correct if nobody is served
from what was computed over failed inputs and nobody else is failed.

**Adaptive draft width** (`spec_decode/`). Per-request acceptance statistics
choose how many draft tokens a step verifies. Not modelled yet.

**Early fetches and read-ahead** (`models/deepseek_v41/sm80_engram*.py`,
`kernels/exl3/readahead.py`, the fetch threads in `csrc/`). Threads that run
ahead of the loader or the forward pass within a window. Not modelled yet; the
staging buffers are ordered by joins of streams, the fetch threads by a mutex.

**Development switches** (`hot_swap.py`, `dev_ab*.py`). A transaction that
switches all ranks to another set of kernels or rolls all of them back. Not
modelled yet.

**The rest**: worker hooks and CUDA-graph memory accounting, plugin start-up,
settings and KV planning, the launcher, output parsers, and the numeric kernels
and models. They are sequential, or arithmetic, or file I/O; `PROJECT.json` lists
each with its files and the reason it is not modelled.

The parts meet as follows. The communicator calls one of the three all-reduces
for every tensor; the calls of one rank are ordered by its CUDA stream, and every
rank issues the same sequence because all of them execute the same step. The
step errors are read when a step's output is copied to the host. The scheduler's
step budgets decide what is in the step, and with it how large the messages are;
no all-reduce depends on which requests were chosen. The draft tail runs under
pipeline parallelism, where a stage is one card and has no all-reduce. A failed
fetch reaches the scheduler in the output of a step and changes the prefix cache,
which the step's budgets only see as the length of a hit. That is why these are
separate modules, and why the three all-reduces share one abstract specification
instead of being composed: they share no state. Within a module the parts that do
meet are composed: `DraftTail` has all stages, the scheduler's steps and the
collectives between them.

## Modules and how they correspond to the code

| module | models | state and actions |
|---|---|---|
| `AllReduce` | the promise to the caller | calls begun and finished per rank, the result; `Begin`, `Finish`, `Break` |
| `HostShmAllReduce` | the kernels and `host_all_reduce` | one action per kernel phase and word: `Launch` (host), `Start`, `PublishWord`, `Release0/1`, `SeeFlag`, `Pass`, `ReduceWord`, `GatherWord`, `Finish`, `TimeOut` (bail) |
| `HostShmInvariant` | (no code) | the inductive invariant, in named parts |
| `HostShmAllReduce_proofs` | (no code) | theorems and proofs |
| `HostShmSetup` | the constructor, `_setup`, `_step`, `_agree`, `close` | stage and phase per rank, votes, the name in `/dev/shm`, mappings, pinned pages next to `_registered`, and what a call failed to release (`stuck`); one action per kind of step, `Close` in `Refused`, `Die` for a killed process |
| `HostShmSetup_proofs` | (no code) | theorems, with their inductive invariant |
| `FlagsAllReduce` | the three flags-in-data kernels | per CTA the loop it is in and what is left of it; `Push`, `Refill`, `Reduce`, `Gather`, `ReadStage`, `AdvanceEpoch`, `Trap` |
| `FlagsInvariant` | (no code) | the inductive invariant |
| `FlagsAllReduce_proofs` | (no code) | lemmas about sizes, partitions, slots and extents; theorems and proofs |
| `CeRingAllReduce` | `ring_ops`, `round_once_ops`, the stream backend, the error word | programs as sequences of operations, executed in order by `Signal`, `Wait`, `GiveUp`, `Move`, `Add`; `Run` and `Synchronize` are the host's; `Allocate`, `Open`, `Agree`, `Clear`, `Meet` construct the buffers |
| `CeRingInvariant` | (no code) | the inductive invariant |
| `CeRingProgram_proofs` | (no code) | lemmas about the two programs: which operation stands where |
| `CeRingAllReduce_proofs` | (no code) | theorems and proofs |
| `FairPrefill` | `Sm80Step` and the scheduler mixin inside upstream's loops | `Begin`, `PassOver`, `Size`, `Place`, `Preempt`, `Admit`, `Finish` and the ends of the two loops |
| `FairInvariant` | (no code) | the inductive invariant |
| `FairPrefill_proofs` | (no code) | theorems and proofs |
| `DraftTail` | the moved draft tail and the split draft event on every stage | `Agree`, `CopyWeights`, `Verdict` (`finalize`); `Schedule`; `StageStep` of an earlier stage, `SkipLast` and `ForwardLast` of the last; `Broadcast` and `SendPayload` complete a collective |
| `DraftTailInvariant` | (no code) | the inductive invariant |
| `DraftTail_proofs` | (no code) | theorems and proofs |
| `FailedInputs` | `failed_inputs.py` inside upstream's scheduler and prefix cache | `Schedule`, `WorkerStep` (the forward and the mask), `Update` (`handle_failed_inputs` and the end of the step), `Abort` |
| `FailedInvariant` | (no code) | the inductive invariant |
| `FailedInputs_proofs` | (no code) | theorems and proofs |
| `MCHostShm`, `MCHostShmNotice`, `MCFlags`, `MCDraftTail` | (no code) | symmetry, a history variable, the sizes of a run |

`AllReduce` says: a rank finishes call k only after every rank has begun call k,
and then holds in every word the contributions of all ranks to call k and no
other. From the step that makes a fault visible on, it promises nothing. The
three detailed modules each instantiate it with a refinement mapping
(`ImplementsAllReduce`). In `FlagsAllReduce` no step is mapped to a fault: a rank
that cannot finish traps, so no wrong result is ever returned at all.

How data is abstracted. In `HostShmAllReduce` the words of a message are grouped
into one sub-chunk per rank, the granularity at which the two-shot kernels
divide the work, and a word's value is the number of the call it was written for:
a sum is right if and only if all its contributions are of the right call. In
`FlagsAllReduce` and `CeRingAllReduce` a value is a set of contributions (rank,
call, element), the empty set being the sentinel of an unwritten pack. In
`FairPrefill` the KV cache is a number of tokens. In `DraftTail` a step's drafts are
named by the step, and a row of the request state holds the step whose drafts
were written to it last, so that "the newest" and "made for this request" can be
said. In `FailedInputs` all prompts are prefixes of one text, so a block's hash is its
index, and a block carries the request whose failed inputs made its content wrong
(-1 when it was computed over a wrong block of another request).

Definitions whose comment says "Mutant of X" are plausible errors of X (one
barrier flag for two, a budget that is not given back, ...). No specification
uses them; each is paired with the properties that notice it in `PROJECT.json`.

## Runs

State counts are distinct states; times are for two TLC workers.

| run | instance | size | what it shows |
|---|---|---|---|
| `HostShm` | 2 ranks, every sequence of 4 calls over the three kernels, hosts one call ahead, timeouts anywhere | 509k, 37 s | `WrongSumIsReported`, `SkewAtMostOne`, `PolledFlagNotOverrun`, the inductive invariant `IInv`, `ImplementsAllReduce`, `EveryCallCompletes` |
| `HostShmSetup` | 3 ranks, 3 registration attempts, any local step failing before or after it took hold of something, releases that fail in silence, one process dying anywhere | 434k, 56 s | `EnabledTogether`, `EnabledIsComplete`, `RegisterOneAtATime`, `NothingLeftBehind`, `EveryoneFinishes` |
| `Flags` | 2 ranks, grids of up to 2 CTAs, 4 calls, small and large messages | 59k, 56 s | the inductive invariant `FlagsInv`, `ReturnedIsExact`, `PushLandsOnSentinel`, `BlamedPeerIsLate`, `ImplementsAllReduce`, `EveryCallCompletes` |
| `CeRing` | 3 ranks, a buffer refused anywhere in the construction, junk in the flags, every sequence of 3 ring and owner sums, one wait given up anywhere | 411k, 80 s | the inductive invariant `CeInv`, `WrongSumIsReported`, `SharedTogether`, `FlagsNeverFall`, `SlotReadBeforeReuse`, `ImplementsAllReduce`, `EveryCallCompletes` |
| `FairPrefill` | 3 requests, prompts of 1, 3 or 8 tokens, two priorities, prefix hits, a cache of 10 tokens, bypass on and off; one stage or two | 261k, 49 s | the inductive invariant `FairInv`, `BudgetBalances`, `DecodesRideAlong`, `LongPrefillsShareTheChunk`, `EveryDecodeGetsItsTurn`, `Served` |
| `DraftTail` | 2 or 3 stages, tail moved or local, split draft event on and off, 2 rows, 5 steps | 342k, 115 s | the inductive invariant `DraftInv`, `DraftsAreNewest`, `NoStrayDrafts`, `AgedHaveLanded`, `EveryStepFinishes` |
| `FailedInputs` | 3 requests of 3 or 6 tokens, blocks of 2, 3 steps in flight, 2 failures, 1 abort | 515k, 55 s | the inductive invariant `FailedInv`, `SweptNeverServed`, `InnocentsSpared` |
| `HostShmBail` | 2 ranks, 2 calls | violation | `TimeoutLeavesOutUntouched` |
| `HostShmReplay` | 2 ranks, 5 calls, all replays, a period of 2 | violation | `HostNoticesInTime` |
| `CeRingShown` | 2 ranks, 2 ring sums | violation | `ShownIsExact` |
| `FairPrefillStarve` | 4 requests, no preemption | violation | `BypassNeverStarvesDecodes` |
| `FailedInputsServed` | 4 requests, 2 steps in flight, 1 failure | violation | `NeverServedFromThem` |

Every passing run checks `TypeOK` of its module as well, `Flags`, `CeRing`,
`FairPrefill`, `DraftTail` and `FailedInputs` as a part of their invariants. Deadlock is not checked: the
numbers of calls, requests and setup stages are bounded, so every system stops;
where it may not stop is what the liveness properties say.

### Why these bounds

- *HostShm.* The generation's parity selects the slot, so a slot is reused after
  two calls; four calls reuse both parities twice and put every kernel before and
  after every other, across a reuse. Ranks interact in pairs only (a flag has one
  writer, a word has one writer); the proofs cover any number of ranks. `GenMod`
  is 16, so the counter does not wrap; `CheckEvery` is 2, so that hosts do look
  at the error words and raise. `MaxLag` 1: a host further ahead changes only when
  kernels start, which is free anyway. The runs that find violations use 2 or 5 calls,
  the fewest that leave room for the behaviour in question.
- *HostShmSetup.* Three ranks are the fewest with a first, a middle and a last
  turn to register. Three attempts (the code makes four) are a first,
  a middle and a last one. One death suffices
  for every order of a lost peer against a stage.
- *Flags.* The first and the fourth call use the same stage, and are any of the
  kernels and sizes; the two in between are small and alike (`MCFlags`), which
  keeps the state space small and leaves one free call before and one after a full
  rotation. Two CTAs are the fewest in which CTA 0 must wait for another; sizes
  1 and 3 give an empty partition and partitions of unequal length. The code
  offers `one_shot` and `two_shot_z` to four ranks only; the protocol does not
  depend on the number, and the model takes it as a parameter.
- *CeRing.* Three ranks are the fewest in which the next and the previous rank
  differ. Three calls give both kinds of sum on the slots and flags of both kinds. Junk flags
  are 0 or `MaxCalls`: unset, or already past every call of the run.
  One wait given up is one fault; the properties speak of the time before it, or
  of the error word, which is set for good. (After several faults ranks run ahead
  of each other and even a flag may fall, which `FlagsNeverFall` does not deny.)
- *FairPrefill.* Chunk 3, a budget of 5 tokens, 2 partial prefills and a lookahead
  of 2 make every limit bind in some state: a half share of the budget is below
  the floor the lookahead asks for, a long prompt needs several steps even alone.
  The cache of 10 tokens holds one long request but not two, so requests are preempted before and after they are
  scheduled in the same step, both by priority and from the tail.
  `DecodesRideAlong` needs `Most(Chunk, Lookahead + 1) + MaxSeqs - 1 <= MaxTokens`,
  which any sensible configuration satisfies (and this one, with 3 + 2 <= 5); the
  theorem assumes it as `RoomForDecodes`.
  Two stages with three decodes are the smallest case in which the share, rounded
  down, would leave one out. With a pipeline nothing is preempted and one priority
  is used; the priorities only order admissions then.
- *DraftTail.* Three stages are the fewest with a tail stage that is neither first
  nor last, which is what makes the order of the payload against the broadcasts
  matter. In two stages rounds are short enough for an entry to reach the age limit
  (`PP + 1` forwards later) within five steps. Two rows give batches whose drafts
  become due at different times. Five steps cover a row's drafts (step 1), its next
  decode (step 1 + `PP`) and one step more. One event per run: a row freed and
  given away, a row that does not sample yet, or a step with structured output,
  each at any step and row.
- *FailedInputs.* Prompts of 3 and 6 tokens in blocks of 2 and chunks of 3: a chunk
  ends inside a block, a block is filled by two steps, a prefix hit covers a part of
  a short prompt or of a long one. Three steps in flight let two requests reuse a
  block before its failure is known. Two failures make one sweep meet another; one
  abort lets a failure arrive for a request that is gone.

### Fairness

- *GPUs.* `WF(Device(r))`: a GPU executes what is queued on its stream, a thread
  that spins on a flag that is set sees it. A step that gives a spin up
  (`TimeOut`, `Trap`, `GiveUp`) is never fair: nothing relies on it, and liveness is
  stated as "unless an error word is set".
- *Hosts.* `WF(Launch(r))`, `WF(Run(r))`: all ranks execute the same steps of the
  model, so each issues the same calls.
- *CTAs.* A grid has at most 36 CTAs (`MAX_BLOCKS`), which the GPU holds at once,
  so all of them run; `WF(Progress(r))` in `FlagsAllReduce` rests on that.
- *Setup.* A live rank runs its constructor to the end; a collective that lost a peer
  fails in the end (torch's timeouts), which is `Refused`.
- *Scheduler.* The engine loop calls `schedule()` as long as it has requests.
- *Construction.* `WF(Construct(r))`: a rank runs the constructor to its end; its
  collectives complete because every rank reaches them.
- *Pipeline stages.* `WF(StageStep(s))`, `WF(LastStep)`: a stage's worker loop takes every
  step it is sent; `WF(Broadcast)`, `WF(SendPayload)`: a collective completes once every
  member has it at the head of its stream. Nothing is assumed of the scheduler,
  which may stop at any step.

### Disagreements between the code and its documentation

The five runs that find a violation check a sentence of a docstring, a comment or
a test against the code.

- `HostShmBail`: "On timeout the block sets an error word in the shared header
  and returns without writing its output". A two-shot that times out in its
  second barrier has written its own sub-chunk already.
- `HostShmReplay`: "The host side checks those words periodically and raises".
  The check, and the count that makes it periodic, sit in Python code that a
  replayed CUDA graph does not run, so all-reduces issued by replays are not part
  of any period. The run has replays only and shows a rank three all-reduces past
  a set error word, with a period of two, that has not looked. An eager call
  between replays counts and looks when its turn comes; with `Modes = {"eager"}`
  the same property holds.
- `CeRingShown`: "Error words ... are read ... before any result is published".
  They are, but a rank's word only says that this rank gave a wait up; a peer
  that received a wrong partial in time has a clear word and publishes it.
- `FairPrefillStarve`: a test's docstring says that with the short bypass every
  step carries every decode stream. Running prefills the bypass exempts are
  neither capped nor charged and can take the whole token budget from a decode
  behind them in the running list.
- `FailedInputsServed`: "so no request is served from those inputs". A running
  request R that reused a block of the failed request P fails with it, but only
  P's blocks leave the prefix cache: the block R filled behind P's, computed over
  wrong KV, stays. Once a later request has computed P's block anew, the next
  one finds the whole prefix and is served from R's block. `SweptNeverServed` is what does
  hold: nobody is served from a block that the failed request filled itself. (It
  excepts a request that was aborted before its failure arrived:
  `handle_failed_inputs` skips it, `failed_inputs.py:150`, and its blocks stay cached as
  well.)

## Proofs

Every invariant, every action property and every refinement that a passing run checks is
also a theorem, proved for every value of the constants that satisfies the module's
`...Assumption`: any number of ranks, stages or requests, any number of calls or steps, any workload.

| module | theorem | says |
|---|---|---|
| `HostShmAllReduce_proofs` | `TypeCorrect` | `Spec => []TypeOK` |
| | `InvariantHolds` | `NoWrap => (Spec => []IInv)` |
| | `WrongSumsAreReported` | `NoWrap => (Spec => []WrongSumIsReported)` |
| | `SkewBounded` | `NoWrap => (Spec => []SkewAtMostOne)` |
| | `PolledFlagsStand` | `NoWrap => (Spec => []PolledFlagNotOverrun)` |
| | `HostShmImplementsAllReduce` | `NoWrap => (Spec => ImplementsAllReduce)` |
| `HostShmSetup_proofs` | `TypeCorrect` | `Spec => []TypeOK` |
| | `RegistersInTurn` | `Spec => []RegisterOneAtATime` |
| | `AllEnableOrNone` | `Spec => []EnabledTogether` |
| | `EnabledPeersAreReady` | `Spec => []EnabledIsComplete` |
| | `SetupCleansUp` | `Spec => []NothingLeftBehind` |
| `FlagsAllReduce_proofs` | `SlotsApart` | two items of a call never have the same slot |
| | `SlotsWithinExtent` | every slot of a call is within the extent of its epoch word |
| | `PartitionsCover` | the ranks' partitions cover the message |
| | `TypeCorrect` | `Spec => []TypeOK` |
| | `InvariantHolds` | `Spec => []FlagsInv` |
| | `ReturnsAreExact` | `Spec => []ReturnedIsExact` |
| | `BlameIsFair` | `Spec => []BlamedPeerIsLate` |
| | `NothingIsOverwritten` | `Spec => PushLandsOnSentinel` |
| | `FlagsImplementAllReduce` | `Spec => ImplementsAllReduce` |
| `CeRingAllReduce_proofs` | `TypeCorrect` | `Spec => []TypeOK` |
| | `InvariantHolds` | `Spec => []CeInv` |
| | `SetupIsCommon` | `Spec => []SharedTogether` |
| | `SumsAreExact` | `Spec => []WrongSumIsReported` |
| | `SlotsAreReadFirst` | `Spec => SlotReadBeforeReuse` |
| | `FlagsOnlyRise` | `Spec => FlagsNeverFall` |
| | `CeRingImplementsAllReduce` | `Spec => ImplementsAllReduce` |
| `DraftTail_proofs` | `TypeCorrect` | `Spec => []TypeOK` |
| | `InvariantHolds` | `Spec => []DraftInv` |
| | `NewestDraftsAreRead` | `Spec => []DraftsAreNewest` |
| | `NoDraftStrays` | `Spec => []NoStrayDrafts` |
| | `AgedEntriesHaveLanded` | `Spec => []AgedHaveLanded` |
| `FairPrefill_proofs` | `TypeCorrect` | `Spec => []TypeOK` |
| | `InvariantHolds` | `Spec => []FairInv` |
| | `BudgetsBalance` | `Spec => []BudgetBalances` |
| | `LongPrefillsShare` | `Spec => []LongPrefillsShareTheChunk` |
| | `DecodesKeepTheirSlot` | `RoomForDecodes => (Spec => []DecodesRideAlong)` |
| | `EveryDecodeIsTaken` | `Spec => []EveryDecodeGetsItsTurn` |
| `FailedInputs_proofs` | `TypeCorrect` | `Spec => []TypeOK` |
| | `InvariantHolds` | `Spec => []FailedInv` |
| | `SweptNeverServedHolds` | `Spec => []SweptNeverServed` |
| | `Innocents` | `Spec => InnocentsSpared` |

Assumptions beyond the ranges of the constants:

- `NoWrap`, that is `MaxCalls < GenMod`, in the theorems that name it: the 32-bit
  generation has not come round. It is needed, because spins wait for a flag to be
  equal to their generation and a flag of the call one full turn earlier would
  satisfy them.
- `SlotsAssumption` of `FlagsAllReduce`: no partition of a `two_shot_z` message is
  longer than the layout's stride `LbMax`. The launch code rejects such a message
  (`custom_all_reduce_flags.py:930`); without it areas of two senders would overlap.
- `RoomForDecodes` of `FairInvariant`, in the one theorem that names it: `Chunk > 0` and
  `Most(Chunk, Lookahead + 1) + MaxSeqs - 1 <= MaxTokens`. Without a chunk no budget is
  kept from the prompts, and with fewer tokens a decode can find the step's tokens spent.
- `FailedInputsAssumption`: the pool has blocks for all requests at once. A scheduler whose
  pool runs out preempts, which `FailedInputs` leaves out.

### Host-staged all-reduce

`WrongSumIsReported` is far from inductive: that a sum is right depends on what
the slots held when it was read, that on where the writers were, and that on which
flags had been seen. The invariant `IInv` (in `HostShmInvariant`, checked by run
`HostShm`) has three layers.

1. `TInv`: types, `CountsOK` (no GPU runs a call its host has not issued) and
   `PhaseOK` (what may be left to do in each phase). Inductive on its own, also
   after an error and without `NoWrap`.
2. `Sync`, as long as no error word is set: `FlagsOK` (a flag is never ahead of its
   writer), `Barrier0OK` and `Barrier1OK` (a rank that has seen a peer's flag, or
   finished a call, knows how far that peer is). From these follows that two ranks
   are at most one call apart, and no rank overwrites a slot of the parity a
   peer is reading. The single-buffered copy-engine slot has no parity; there it is
   the second barrier that keeps the writer behind its readers, which is why
   `Barrier1OK` speaks of every earlier call that has one.
3. `Data`, on top of `Sync`: `SlotsOK` and `GatherOK` (what a rank has published
   is still there while a peer may read it) and `OutOK` (the finished words of
   the output are exact).

The step lemmas (`TypeStep`, `SyncStep`, `DataStep`) have one step per action and
below it one per conjunct the action disturbs; `SourceFresh` and `GatherFresh`
are the two facts about reads. `PolledFlagsStand` needs one conjunct more,
`OwnFlagsOK`: once a rank has released a barrier its flag there is the generation
of its own call. The refinement (`RefineStep`) maps `Start` to
`Begin`, the kernel's last step to `Finish`, a timeout and everything after it to
`Break`, and all else to a stutter.

### Set-up of the host-staged all-reduce

The argument is that a vote is given once and never withdrawn, and that a rank is at
a stage only when every rank voted ok in each stage before it. The invariant
(in `HostShmSetup_proofs`) has `VoteOK`, `PassedOK`, `TurnOK` and clauses that tie
what a rank holds - name, mapping, pin - to the votes it gave. `KnownOK` says that
every pin is one `_registered` tells `close()` of, or one that `host_register` tried
to take back; with it a rank that fell back has left nothing it did not try to
release (`ReleasedOK`). Two ranks that register
would be in the turns of each other (`TurnOK`), and each has passed
the other's turn, or not reached it. `EnabledTogether` excepts runs in which a process
died; the other four hold whatever dies.

### Flags-in-data all-reduce

`FlagsInv` (checked by run `Flags`) has no flags to speak of, so it says of every
item - an element of a partition at a sender - how far it has come: pushed, summed,
gathered, and re-filled in the next call. `OrderOK` relates these across ranks (who
has summed an item, all have pushed it; who has gathered it, its owner has summed
it); `OriginOK` says that whatever a buffer holds was sent in one of the three calls
its stages stand for and not re-filled since, `SentOK` that whatever was sent
and not re-filled is there, with its value. `EpochOK` ties the device's epoch words to
the call. The other half is the layout, with which the module begins: were two items given one
slot, a push would be read as another; were a slot beyond the recorded extent, the
re-fill would miss it and a later call would take it for its own. Both
are arithmetic over sizes that do not divide, with three layouts. A rank
is at most one call ahead of another because it cannot finish before every rank
pushed; hence three stages suffice. Every `Push` maps to a stutter except the first
step of a call (`Begin`) and the last (`Finish`); no step is a fault.

### Copy-engine ring and owner sum

Two separate arguments. `CeRingProgram_proofs` is about the programs: for any number
of ranks, which operation stands at which index, that a flag is signalled in one place of
one program (`SignalUnique`), that a copy has before it the wait that guards
its slot (`Gated`), that every slot that is copied into is awaited (`EverySlotAwaited`),
and what a location holds after each operation of the program executed by itself
(`Holds`). It is arithmetic modulo the number of ranks, on programs given
as functions of the index.

`CeRingAllReduce_proofs` uses only those lemmas. `SetupOK` covers the constructor:
the votes are common, and flags are cleared before a peer can signal one. `WaitsOK`
is the heart of the protocol: a wait that was passed met the signal of its own call.
It follows since a flag is compared with the epoch by >=, a slot's
flag is never above its owner's epoch (the sender waited for the owner to be ready in this
call) and a ready flag has one writer. With it, whoever copies into a slot and the
owner of the slot are in the same call, a slot is written once in a call, and
`SlotsOK` and `OutOK` follow operation by operation. `BegunOK` keeps contributions
from appearing before their call. Once a wait is given up nothing but `TypeOK` and
`SetupOK` is claimed, which is what the code claims: a stale slot is read and an
error word is set. The refinement maps `Run` to `Begin`, the last operation of a
program to `Finish`, a wait given up and everything after it to `Break`.

### Pipeline-parallel draft tail

None of the properties is inductive: which drafts a row holds depends on what was in
the queues and on whether a generation that was compared still told the truth.
`DraftInv` (in `DraftTailInvariant`, checked by run `DraftTail`) says what each of
these stands for.

1. `NewestOK` describes the scheduler's history: what it calls a request's newest
   drafts is the last step that sampled for the row since the row was freed, PP
   or more steps ago.
2. `GenOK`: a row's generation at a stage counts how often that stage has freed it.
   So a snapshot is equal to the present generation if and only if the row was not
   freed since (`Since`, kept by `StepSince`), and every comparison the code makes
   finds the rows still held (`StepHeld`). With the generation's growth per step
   (`FreesStep`) this is where the cardinality lemmas are used.
3. `QueueOK`, `PendingOK` and `StoredOK` follow the drafts of an earlier stage: the
   queue's place i is the step PP - i steps back; what was consumed is stored or
   pending, and whatever is pending is the newest; a row holds drafts of its present
   request only. A step has sixteen cases (frees first or last, with or without the
   split event, with or without rows, with or without results): `StageRows` computes
   row by row what each leaves, and the three parts follow from it.
4. `RemoteOK`, `LastOK` and `ReadOK` do so for the last stage: the entries are
   ordered by their steps, an entry queued for a row is newer than what the row holds,
   and what was made for a row is stored or queued. `DueFacts` and `AppliedFacts` say
   what `RemoteDraftQueue.due` and `apply` return; that the greatest due entry exists
   is the induction of `MaxFacts`. A forward then reads the newest drafts
   (`ForwardRead`): whatever is queued for a row of the batch is due.
5. `StreamOK` and `LandedOK` are about the collectives: a stage's are in the order
   of its steps with the drafts last, a step's drafts have left the stream of every
   stage or of none, and an earlier stage has waited for what it consumed. The age
   limit needs all of it: an entry that is too old saw PP forwards or more since
   (`RemoteOK`); so stage 0 has run a step with rows that consumed those drafts, and
   waited; so they have landed there, and therefore everywhere.

### Fair chunked prefill

`FairInv` (in `FairInvariant`, checked by run `FairPrefill`) follows one step of the
scheduler through the upstream loops it is called from.

1. `RequestOK` says what a request is waiting for: a decode has one token to compute or
   its last token in flight, a prefill has tokens left. `StepOK` and `LoopOK` say who is
   where: only running requests are scheduled, the loop has scheduled nothing at or
   beyond its index, and the held request is the one at the index unless a
   preemption has moved it.
2. `BudgetBalances` is an equation between the step's counters and sums over the
   scheduled requests. A sum is the cardinality of a set of pairs (`Sum`), so that adding,
   changing and taking away a summand are lemmas about finite sets (`SumApart`,
   `SumChange`, `SumPart`), not inductions. `ChargeBalances` and `RefundBalances` are the
   two steps: what makes a refund exact is that a request that was running when the
   step began keeps its `is_prefill_chunk` and its remaining length until it is
   preempted (`UnscheduleOne`, `RefundedIs`), and that nothing admitted by this step's
   waiting loop is ever preempted in it.
3. `RideOK`: when the running loop comes to a decode it has scheduled at most
   `MaxSeqs - 1` other requests, the decodes among them with one token each and the
   prefills with no more than `step.total` together; so a token is left (`RoomLeft`).
4. `TurnOK` is why no decode is passed over for a whole round. Once `r` has been
   passed over in k steps in a row, let the outran be those before `r` in the running
   list that had a token sampled since, and the left the decodes up to `r` that had
   none: then `(pp - k) * |outran| >= k * |left|`. Every step that passes over `r` takes a share
   of at least a pp-th of all decodes before it, from the left, since who has a token in
   flight cannot be taken again (`Round`, `PassedOver`). With k = pp the left would be
   empty, and `r` is one of them. A request that ends was not among the outran (its
   token has returned), the order of the list stays as it is when requests leave it
   (`WithoutFacts`, `AheadWithout`), and who joins does so behind `r`.

In `passed` a step counts that passed `r` over for the share; one whose tokens ran out
before the loop came to `r` ends the row, since it takes no share from the others either.

### Failed model inputs

`FailedInv` (in `FailedInvariant`, checked by run `FailedInputs`) sees what is in flight as
a set of events (`Pending`): <<k, r>> is the worker's computing for request r in step k,
and the worker takes them in order (`Precedes`). An event reads the blocks in front of its
first token and writes the blocks from it on.

1. `RequestOK` and `StepsOK` say what a request holds and how its steps in flight join: each
   starts where the last one ended, and the first at `computed - flying` (`StartsAt`). So
   when a failure is handled, the first token computed from the in-flight count is the first
   token of the step that failed (`FirstTokenIs`), however many steps were scheduled since.
   This is what `InnocentsSpared` needs; the blocks swept are then those the owner filled from
   that step on (`OnlyTheseFail`).
2. `SharedOK`: a block that its request has still to fill is in nobody else's hands and
   in no prefix, so a new step writes into nothing that is shared. `OrderOK`: what another
   request's steps in flight write into a live request's blocks - it took them from the
   prefix cache while they were being filled, or they were freed and given away - they
   write before its own steps read.
3. `CauseOK` gives an account of every block whose KV is wrong for c's failed inputs. It is
   `Excused` while the failure is still to be handled: then it will find c gone, or the block
   among those it sweeps; or c was gone when it came (`missed`). Or it is `Swept`: c has
   failed, and the block is `Dropped`, that is, whoever can still reach it (`Held`) or has a step
   that reads it finds it written again first. c's own steps in flight still execute, so
   the same must hold of each block they are going to write, from then on.
4. `CausesOK` carries the account into the steps that have run: what a live request's step was
   computed from is excused by one of the blocks the request holds, in the step's own place
   in the queue at the latest. When the failure is handled, that request holds a swept block and
   fails (`UpdateSweeps`); so when the step's own output is processed and the request is served,
   the causes left are of requests that were gone.

`Schedule` and `WorkerStep` are loops over the requests (`FoldLeft`). The proof turns a
fold into a chain, a sequence of its intermediate results (`Chain`), and carries an invariant
along it: `Midway` of the requests that have their blocks in a step being scheduled, `Halfway`
of a step the worker has executed for the first n requests, where `CauseOK` is stated for the
events still to come (`Coming`). `FreeBlocksFacts` shows that the CHOOSE of the i-th free block
has a value and that the blocks chosen differ: ranking free blocks by how many come sooner is a
bijection. `Update` then moves every event one step up (`UpdatedPending`) and `Abort` only takes
a request from the living.

The invariant says nothing of cause -1, KV computed over a wrong block of another request: that
such KV may be served is the finding of `FailedInputsServed`.

### What is only model-checked

- Liveness (`EveryCallCompletes`, `EveryoneFinishes`, `Served`, `EveryStepFinishes`):
  fairness and ENABLED are outside what the proof system can do.
- The five runs that find a violation: a counterexample needs no proof.

Hardly anything rests on induction over data: sums over sets of ranks are sets of
contributions here, so that an exact sum is an equation of sets, not the
value of a recursive function, and token counts are cardinalities. The only inductions
say that a bounded set of numbers has a greatest element (`MaxFacts`) and a nonempty
one a least (`LeastOf`), from the well-foundedness of < on the naturals; what a fold computes
(`FailedInputs_proofs`) is had from that, as the least place at which its chain would break.


## What the models leave out

- *Memory ordering.* Flags are written with release and polled with acquire
  operations of system scope, and packs are volatile 16-byte accesses; the models
  take every store as visible at once and every 16-byte pack as one value. What
  the fences guarantee on the hardware is not examined, only what the protocol needs
  from them.
- *Blocks.* `HostShmAllReduce` has one block per launch, the shipped block cap of 1.
- *Arithmetic.* Order of summation, rounding, the compressed codec, the sentinel's
  bit pattern. A sum is the set of its contributions.
- *Wrap-around.* Generations and epochs do not wrap in the models.
- *Different calls on different ranks.* All ranks are assumed to issue the same
  calls with the same sizes; nothing in the code survives without that.
- *`FlagsAllReduce`.* A CTA is one thread (its threads meet only at the
  start, before the CTA counts as having read the stage), an element of `two_shot_z` is a whole warp block, a trapped rank stops
  for good. The host's watcher and the error record's hand-over are left out.
- *`HostShmSetup`.* Probes, the extension build and the device allocation succeed or
  fail; a collective that lost a peer may fail or succeed on each survivor. A
  release may fail without anybody noticing - `host_unregister` and the
  `cudaHostUnregister` in `host_register` do not look at the result, `close()`
  swallows a failed `synchronize` and a `BufferError` of the mapping - and then the
  mapping or the pins stay until the process ends: `NothingLeftBehind` excepts
  exactly what `stuck` records. The segment's name has no such exception, but an
  `os.unlink` that fails otherwise than with `FileNotFoundError`, which would leave
  the constructor with an exception, is left out.
- *`CeRingAllReduce`.* A rank whose allocation fails leaves the others in the
  all-gather until torch's timeout; handles a rank opened before another one refused
  are not closed; which messages the ring takes. The model starts each rank's
  allocation successfully.
- *`DraftTail`.* A stage's host and its main stream are one process, which stops
  where the stream waits for an event; the broadcast stream runs beside it. The
  payload's rows and widths, the private workspaces of the tail and the warm-up are
  data. Upstream's handler (the queue of results, the generations) and its
  scheduler are not in the repository and are modelled from their use; what it
  leaves open is left open here: a step's freed rows may be processed before or after the
  results it consumes, and a row is given away in the step that frees it.
- *`FailedInputs`.* One KV cache group with positionally stable blocks, no preemption
  (upstream's accounting of a preempted request's tokens in flight is not in the
  repository), and a request ends with its prompt: decode tokens add blocks of the same kind.
  Free blocks that no prefix is found under are taken first.
- *`FairPrefill`.* Speculative decoding and align-mode Mamba are off, and under a
  pipeline nothing is preempted, so that a decode that was counted against the
  share and then preempted (`step.py:170`, which `refund` does not take back) is not
  examined. Upstream's running and waiting loops, its KV cache
  manager and the preemption policy are not in the repository; they are modelled
  from how `sched/` is called by them and are marked external in `PROJECT.json`.

## Plan

Done in this order: `AllReduce`, `HostShmAllReduce` and its proofs,
`HostShmSetup`, `FlagsAllReduce`, `CeRingAllReduce`, `FairPrefill`, then `DraftTail`,
`FailedInputs`, the ring's constructor and pipeline-parallel decode spreading. Left, by
importance:

1. `ErrorRecord`: the kernel's `wait_failed`, the watcher thread and the exit
   handler on one pinned record, composed with `FlagsAllReduce`'s trap.
2. `SetArms` (`hot_swap.py`), `Readahead` (`kernels/exl3/readahead.py`), adaptive
   draft width, the fetch ring of `csrc/exl3/engram_fetch.cpp`.
