---------------------------- MODULE HostShmSetup ----------------------------
(***************************************************************************)
(* How the ranks of a group agree to use the host-staged all-reduce:       *)
(* HostShmAllreduce.__init__, _setup, _step, _agree and close of           *)
(* vllm_sm80/distributed/host_shm_all_reduce.py.                           *)
(*                                                                         *)
(* Setup is a fixed sequence of stages.  In each a rank does its local     *)
(* work, which may fail, then all-gathers whether it succeeded; it goes on *)
(* only if everyone did.  A process may die at any point; a collective     *)
(* that has lost a peer may then fail on a rank or still succeed on it.    *)
(***************************************************************************)
EXTENDS Naturals, FiniteSets

CONSTANTS
    N,             \* world size
    MaxAttempts,   \* 1 + Len(REGISTER_RETRY_DELAYS_S), 4 in the code
    MaxDeaths      \* bound: processes that may die during setup

ASSUME SetupAssumption ==
    /\ N \in Nat \ {0}
    /\ MaxAttempts \in Nat \ {0}
    /\ MaxDeaths \in Nat

Rank == 0 .. N - 1

(* The stages in order; rank i registers in stage Register(i). *)
StandAside  == 0
LoadFirst   == 1
LoadOthers  == 2
Name        == 3
Create      == 4
Map         == 5
Register(i) == 6 + i
AllocSeq    == 6 + N
Stage       == StandAside .. AllocSeq

VARIABLES
    handover,    \* VLLM_CUSTOM_ALLREDUCE_PCIE_P2P is set
    stage,       \* stage[r]: the stage rank r is in
    phase,       \* phase[r]: "work", "registering", "agree" or "done"
    vote,        \* vote[r][s]: the flag r gave the all-gather of stage s
    attempts,    \* attempts[r]: failed cudaHostRegister calls
    exists,      \* the segment's name is in /dev/shm
    created,     \* _created of rank 0
    mapped,      \* ranks whose process maps the segment
    pinned,      \* ranks whose mapping the driver has registered
    registered,  \* ranks whose _registered is set
    stuck,       \* what a call that should have given it up failed to release
    enabled,     \* ranks with disabled = False
    dead         \* processes that died

(* What a rank takes hold of besides the name. *)
Holding == {"mapping", "pins"}

memory == <<mapped, pinned, registered, stuck>>
vars == <<handover, stage, phase, vote, attempts, exists, created, mapped,
          pinned, registered, stuck, enabled, dead>>

-----------------------------------------------------------------------------
Init ==
    /\ handover \in BOOLEAN
    /\ stage = [r \in Rank |-> IF handover THEN StandAside ELSE LoadFirst]
    /\ phase = [r \in Rank |-> "work"]
    /\ vote = [r \in Rank |-> [s \in Stage |-> "none"]]
    /\ attempts = [r \in Rank |-> 0]
    /\ exists = FALSE
    /\ created = FALSE
    /\ mapped = {}
    /\ pinned = {}
    /\ registered = {}
    /\ stuck = {}
    /\ enabled = {}
    /\ dead = {}

Working(r, s) == r \notin dead /\ phase[r] = "work" /\ stage[r] = s

(* Mutant of Vote: a rank that failed leaves without telling the others. *)
VoteOnlyOk(r, ok) ==
    /\ phase' = [phase EXCEPT ![r] = IF ok THEN "agree" ELSE "done"]
    /\ vote' = [vote EXCEPT ![r][stage[r]] = IF ok THEN "ok" ELSE "none"]
    /\ UNCHANGED <<handover, stage, dead, enabled>>

(* The rank is through with its local work and enters the all-gather. *)
Vote(r, ok) ==
    /\ phase' = [phase EXCEPT ![r] = "agree"]
    /\ vote' = [vote EXCEPT ![r][stage[r]] = IF ok THEN "ok" ELSE "bad"]
    /\ UNCHANGED <<handover, stage, dead, enabled>>

(* Probes, the extension build and the device allocation: they succeed or   *)
(* raise, and leave nothing behind that the other stages see.  A rank with  *)
(* nothing to do in a stage votes ok.                                       *)
Local(r) ==
    /\ \/ Working(r, StandAside)
       \/ Working(r, LoadFirst)
       \/ Working(r, LoadOthers)
       \/ Working(r, AllocSeq)
    /\ \E ok \in BOOLEAN :
         /\ stage[r] = LoadFirst /\ r # 0 => ok
         /\ stage[r] = LoadOthers /\ r = 0 => ok
         /\ Vote(r, ok)
    /\ UNCHANGED <<attempts, exists, created, memory>>

(* The name is drawn on rank 0 and broadcast: a receiver waits for rank 0   *)
(* to reach the broadcast.  It fails only when a connection is lost.        *)
GetName(r) ==
    /\ Working(r, Name)
    /\ \E ok \in BOOLEAN :
         /\ ok => r = 0 \/ vote[0][Name] = "ok"
         /\ ~ok => dead # {}
         /\ Vote(r, ok)
    /\ UNCHANGED <<attempts, exists, created, memory>>

(* Rank 0 creates the segment.  A failure may come before the name exists   *)
(* or after it (ftruncate or the zeroing of the header).                    *)
CreateSegment(r) ==
    /\ Working(r, Create)
    /\ \E ok, named \in BOOLEAN :
         /\ r # 0 => ok /\ ~named
         /\ r = 0 /\ ok => named
         /\ exists' = (exists \/ named)
         /\ created' = (created \/ named)
         /\ Vote(r, ok)
    /\ UNCHANGED <<attempts, memory>>

(* A rank maps the segment.  A failure may come before the mapping is there *)
(* or after it (the address taken of it, its alignment).                    *)
MapSegment(r) ==
    /\ Working(r, Map)
    /\ \E ok, held \in BOOLEAN :
         /\ ok => held
         /\ held => exists
         /\ mapped' = IF held THEN mapped \cup {r} ELSE mapped
         /\ Vote(r, ok)
    /\ UNCHANGED <<attempts, exists, created, pinned, registered, stuck>>

(* Mutant of BeginRegister: ranks do not take turns. *)
RegisterAtOnce(r) ==
    /\ Working(r, Register(0))
    /\ phase' = [phase EXCEPT ![r] = "registering"]
    /\ UNCHANGED <<handover, stage, vote, attempts, exists, created, memory,
                   enabled, dead>>

(* Only the rank whose turn it is calls cudaHostRegister. *)
BeginRegister(r) ==
    /\ Working(r, Register(r))
    /\ phase' = [phase EXCEPT ![r] = "registering"]
    /\ UNCHANGED <<handover, stage, vote, attempts, exists, created, memory,
                   enabled, dead>>

SkipRegister(r) ==
    /\ \E i \in Rank \ {r} : Working(r, Register(i))
    /\ Vote(r, TRUE)
    /\ UNCHANGED <<attempts, exists, created, memory>>

(* host_register fails: cudaHostRegister is refused, or the device pointer  *)
(* is and the registration is taken back; whether that worked is not looked *)
(* at.                                                                      *)
NotRegistered(r) ==
    \/ UNCHANGED <<pinned, stuck>>
    \/ /\ pinned' = pinned \cup {r}
       /\ stuck' = stuck \cup {<<r, "pins">>}

(* Mutant of RegisterAttempt: a retry after the last pause. *)
RetryOnceMore(r) ==
    /\ r \notin dead
    /\ phase[r] = "registering"
    /\ \/ /\ r \notin pinned
          /\ pinned' = pinned \cup {r}
          /\ registered' = registered \cup {r}
          /\ Vote(r, TRUE)
          /\ UNCHANGED <<attempts, stuck>>
       \/ /\ attempts' = [attempts EXCEPT ![r] = @ + 1]
          /\ UNCHANGED registered
          /\ NotRegistered(r)
          /\ IF attempts[r] < MaxAttempts
               THEN UNCHANGED <<handover, stage, phase, vote, enabled, dead>>
               ELSE Vote(r, FALSE)
    /\ UNCHANGED <<exists, created, mapped>>

(* One attempt: it succeeds, fails and is retried after a pause, or was the *)
(* last one.  Pages that are still registered cannot be registered again.   *)
RegisterAttempt(r) ==
    /\ r \notin dead
    /\ phase[r] = "registering"
    /\ \/ /\ r \notin pinned
          /\ pinned' = pinned \cup {r}
          /\ registered' = registered \cup {r}
          /\ Vote(r, TRUE)
          /\ UNCHANGED <<attempts, stuck>>
       \/ /\ attempts' = [attempts EXCEPT ![r] = @ + 1]
          /\ UNCHANGED registered
          /\ NotRegistered(r)
          /\ IF attempts[r] + 1 < MaxAttempts
               THEN UNCHANGED <<handover, stage, phase, vote, enabled, dead>>
               ELSE Vote(r, FALSE)
    /\ UNCHANGED <<exists, created, mapped>>

-----------------------------------------------------------------------------
(* Leaving setup, with the finally clause: rank 0 unlinks what it created.  *)
Leave(r) ==
    /\ phase' = [phase EXCEPT ![r] = "done"]
    /\ exists' = (exists /\ ~(r = 0 /\ created))
    /\ created' = (created /\ r # 0)

(* Mutant of Agreed: a rank goes by its own flag. *)
AgreedAlone(r) ==
    /\ r \notin dead
    /\ phase[r] = "agree"
    /\ vote[r][stage[r]] = "ok"
    /\ IF stage[r] = AllocSeq
         THEN /\ Leave(r)
              /\ enabled' = enabled \cup {r}
              /\ UNCHANGED stage
         ELSE /\ stage' = [stage EXCEPT ![r] = @ + 1]
              /\ phase' = [phase EXCEPT ![r] = "work"]
              /\ UNCHANGED <<enabled, exists, created>>
    /\ UNCHANGED <<handover, vote, attempts, memory, dead>>

(* Every rank of the group gave ok: on to the next stage, or enable. *)
Agreed(r) ==
    /\ r \notin dead
    /\ phase[r] = "agree"
    /\ \A q \in Rank : vote[q][stage[r]] = "ok"
    /\ IF stage[r] = AllocSeq
         THEN /\ Leave(r)
              /\ enabled' = enabled \cup {r}
              /\ UNCHANGED stage
         ELSE /\ stage' = [stage EXCEPT ![r] = @ + 1]
              /\ phase' = [phase EXCEPT ![r] = "work"]
              /\ UNCHANGED <<enabled, exists, created>>
    /\ UNCHANGED <<handover, vote, attempts, memory, dead>>

(* Mutant of Close: nothing is unmapped unless it was registered too. *)
CloseRegistered(r) ==
    /\ IF r \in registered THEN mapped' = mapped \ {r} /\ pinned' = pinned \ {r}
                            ELSE UNCHANGED <<mapped, pinned>>
    /\ registered' = registered \ {r}
    /\ UNCHANGED stuck

(* close() unregisters what _registered tells it of and unmaps what is      *)
(* mapped.  Either may fail, the first also without an exception: the error *)
(* is swallowed and the rank forgets what it still holds.                   *)
Close(r) ==
    \E failed \in SUBSET Holding :
        /\ "mapping" \in failed => r \in mapped
        /\ "pins" \in failed => r \in registered
        /\ mapped' = IF "mapping" \in failed THEN mapped ELSE mapped \ {r}
        /\ pinned' = IF r \in registered /\ "pins" \notin failed
                       THEN pinned \ {r} ELSE pinned
        /\ registered' = registered \ {r}
        /\ stuck' = stuck \cup ({r} \X failed)

(* Some rank gave bad, or the all-gather lost a peer: the rank falls back   *)
(* to NCCL and closes.                                                      *)
Refused(r) ==
    /\ r \notin dead
    /\ phase[r] = "agree"
    /\ \/ /\ \A q \in Rank : vote[q][stage[r]] # "none"
          /\ \E q \in Rank : vote[q][stage[r]] = "bad"
       \/ dead # {}
    /\ Leave(r)
    /\ Close(r)
    /\ UNCHANGED <<handover, stage, vote, attempts, enabled, dead>>

(* The process is killed: its mapping and pins go with it, a name in        *)
(* /dev/shm does not.                                                       *)
Die(r) ==
    /\ r \notin dead
    /\ Cardinality(dead) < MaxDeaths
    /\ dead' = dead \cup {r}
    /\ mapped' = mapped \ {r}
    /\ pinned' = pinned \ {r}
    /\ registered' = registered \ {r}
    /\ UNCHANGED <<handover, stage, phase, vote, attempts, exists, created,
                   stuck, enabled>>

Step(r) ==
    \/ Local(r) \/ GetName(r) \/ CreateSegment(r) \/ MapSegment(r)
    \/ BeginRegister(r) \/ SkipRegister(r) \/ RegisterAttempt(r)
    \/ Agreed(r) \/ Refused(r)

Next == \E r \in Rank : Step(r) \/ Die(r)

(* A rank alive runs its constructor to the end. *)
Spec == Init /\ [][Next]_vars /\ \A r \in Rank : WF_vars(Step(r))

-----------------------------------------------------------------------------
TypeOK ==
    /\ handover \in BOOLEAN
    /\ stage \in [Rank -> Stage]
    /\ phase \in [Rank -> {"work", "registering", "agree", "done"}]
    /\ vote \in [Rank -> [Stage -> {"none", "ok", "bad"}]]
    /\ attempts \in [Rank -> 0 .. MaxAttempts]
    /\ exists \in BOOLEAN /\ created \in BOOLEAN
    /\ mapped \subseteq Rank /\ pinned \subseteq Rank /\ registered \subseteq Rank
    /\ stuck \subseteq Rank \X Holding
    /\ enabled \subseteq Rank /\ dead \subseteq Rank

Live(r) == r \notin dead

(* Either every rank enables the host path or every rank falls back: with   *)
(* no process lost, two ranks that are through agree.                       *)
EnabledTogether ==
    dead = {} => \A r, q \in Rank :
        phase[r] = "done" /\ phase[q] = "done" => (r \in enabled <=> q \in enabled)

(* A rank that enables the path, even one that outlives a peer, does so     *)
(* only after every rank had mapped and registered the segment: nobody will *)
(* read through a pointer a peer never got.                                 *)
EnabledIsComplete ==
    enabled # {} =>
        \A q \in Rank : /\ vote[q][AllocSeq] = "ok"
                        /\ Live(q) /\ phase[q] # "done" => q \in pinned
                        /\ q \in enabled /\ Live(q) => q \in mapped \cap pinned

(* cudaHostRegister of the shared pages never runs in two processes at      *)
(* once, whatever fails or dies in between.                                 *)
RegisterOneAtATime ==
    \A r, q \in Rank :
        (Live(r) /\ Live(q) /\ phase[r] = "registering" /\ phase[q] = "registering")
            => r = q

(* Nothing is left in /dev/shm once rank 0 is through, and a rank that fell *)
(* back keeps a mapping or pinned pages only where a call meant to release  *)
(* them failed: whatever step failed, and after whatever it had taken hold  *)
(* of, close() knows of everything there is to give up.                     *)
NothingLeftBehind ==
    /\ Live(0) /\ phase[0] = "done" => ~exists
    /\ \A r \in Rank : phase[r] = "done" /\ r \notin enabled =>
          /\ r \in mapped => <<r, "mapping">> \in stuck
          /\ r \in pinned => <<r, "pins">> \in stuck

(* No rank waits forever in a collective its peers will not join. *)
EveryoneFinishes == \A r \in Rank : <>(phase[r] = "done" \/ ~Live(r))
=============================================================================
