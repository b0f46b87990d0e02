------------------------ MODULE HostShmSetup_proofs ------------------------
(***************************************************************************)
(* What holds of the collective setup of the host-staged all-reduce for    *)
(* any number of ranks, attempts and deaths: types, one registration at a  *)
(* time, all ranks or none, an enabled rank's peers hold what it will use, *)
(* and nothing left behind.  The argument is that a vote is given once and *)
(* never withdrawn, and that a rank is at a stage only when every rank     *)
(* voted ok in each stage before it.                                       *)
(***************************************************************************)
EXTENDS HostShmSetup, TLAPS

(* The stage the constructor starts at (_setup's handover probe is skipped  *)
(* when no handover was asked for).                                         *)
FirstStage == IF handover THEN StandAside ELSE LoadFirst

(* A rank gives its flag in its current stage when it enters the            *)
(* all-gather, and none for a later stage.                                  *)
VoteOK ==
    \A r \in Rank :
        /\ stage[r] >= FirstStage
        /\ \A s \in Stage : s > stage[r] => vote[r][s] = "none"
        /\ phase[r] \in {"work", "registering"} => vote[r][stage[r]] = "none"

(* A rank is past a stage only when everybody voted ok there.               *)
PassedOK ==
    \A r, q \in Rank : \A s \in Stage :
        FirstStage <= s /\ s < stage[r] => vote[q][s] = "ok"

(* Who registers is at the stage of its turn.                               *)
TurnOK == \A r \in Rank : phase[r] = "registering" => stage[r] = Register(r)

(* No attempt is made before the turn, and the last failed one ends it.     *)
AttemptsOK ==
    \A r \in Rank :
        /\ stage[r] < Register(r) => attempts[r] = 0
        /\ stage[r] = Register(r) /\ phase[r] = "work" => attempts[r] = 0
        /\ phase[r] = "registering" => attempts[r] < MaxAttempts

(* A rank enables the path at the end of the last stage, all flags ok.      *)
EnabledOK ==
    \A r \in enabled :
        /\ phase[r] = "done" /\ stage[r] = AllocSeq
        /\ \A q \in Rank : vote[q][AllocSeq] = "ok"

(* While no process is lost a rank falls back because somebody failed in    *)
(* its stage.                                                               *)
RefusedOK ==
    dead = {} =>
        \A r \in Rank \ enabled :
            phase[r] = "done" => \E q \in Rank : vote[q][stage[r]] = "bad"

(* A rank that is not through, or that enabled the path, holds what it said *)
(* it had mapped and registered.                                            *)
HeldOK ==
    \A r \in Rank :
        Live(r) /\ (phase[r] # "done" \/ r \in enabled) =>
            /\ vote[r][Map] = "ok" => r \in mapped
            /\ vote[r][Register(r)] = "ok" => r \in pinned

(* close() is told of every pin but those host_register failed to take      *)
(* back.                                                                    *)
KnownOK ==
    \A r \in Rank : phase[r] # "done" /\ r \in pinned \ registered =>
        <<r, "pins">> \in stuck

(* A rank that fell back holds only what a call failed to release.          *)
ReleasedOK ==
    \A r \in Rank \ enabled :
        phase[r] = "done" => /\ r \in mapped => <<r, "mapping">> \in stuck
                             /\ r \in pinned => <<r, "pins">> \in stuck

(* The name in /dev/shm is one that rank 0 knows it created, until rank 0   *)
(* leaves setup.                                                            *)
CreatedOK ==
    /\ exists => created
    /\ created => phase[0] # "done"

SetupInv ==
    /\ TypeOK /\ VoteOK /\ PassedOK /\ TurnOK /\ AttemptsOK
    /\ EnabledOK /\ RefusedOK /\ HeldOK /\ KnownOK /\ ReleasedOK /\ CreatedOK

-----------------------------------------------------------------------------
(* The stages are numbered in order, the turns between Map and AllocSeq.    *)
LEMMA StageOrder ==
    /\ 0 \in Rank
    /\ {StandAside, LoadFirst, LoadOthers, Name, Create, Map, AllocSeq} \subseteq Stage
    /\ \A r \in Rank : Register(r) \in Stage /\ Map < Register(r) /\ Register(r) < AllocSeq
    /\ FirstStage \in {StandAside, LoadFirst}
BY SetupAssumption DEF Rank, Stage, StandAside, LoadFirst, LoadOthers, Name, Create, Map,
   Register, AllocSeq, FirstStage

(* Vote writes one flag, of the rank's own and of its current stage.        *)
LEMMA VoteWrites ==
    ASSUME TypeOK, NEW r \in Rank, NEW ok \in BOOLEAN, Vote(r, ok)
    PROVE  /\ phase' \in [Rank -> {"work", "registering", "agree", "done"}]
           /\ vote' \in [Rank -> [Stage -> {"none", "ok", "bad"}]]
           /\ phase'[r] = "agree"
           /\ \A q \in Rank \ {r} : phase'[q] = phase[q]
           /\ vote'[r][stage[r]] = IF ok THEN "ok" ELSE "bad"
           /\ \A q \in Rank, s \in Stage :
                 q # r \/ s # stage[r] => vote'[q][s] = vote[q][s]
           /\ UNCHANGED <<handover, stage, dead, enabled>>
<1>1. stage[r] \in Stage
  BY DEF TypeOK
<1>2. vote' = [vote EXCEPT ![r][stage[r]] = IF ok THEN "ok" ELSE "bad"]
  BY DEF Vote
<1>3. vote' \in [Rank -> [Stage -> {"none", "ok", "bad"}]]
  BY <1>1, <1>2 DEF TypeOK
<1>4. vote'[r][stage[r]] = IF ok THEN "ok" ELSE "bad"
  BY <1>1, <1>2 DEF TypeOK
<1>5. \A q \in Rank, s \in Stage : q # r \/ s # stage[r] => vote'[q][s] = vote[q][s]
  BY <1>1, <1>2 DEF TypeOK
<1> QED
  BY <1>3, <1>4, <1>5 DEF Vote, TypeOK

(* Giving a flag keeps what is known of the flags: it is the first one the  *)
(* rank gives in this stage, so nobody has passed the stage yet.            *)
LEMMA VoteKeeps ==
    ASSUME SetupInv, NEW r \in Rank, NEW ok \in BOOLEAN, Vote(r, ok),
           phase[r] \in {"work", "registering"}
    PROVE  VoteOK' /\ PassedOK' /\ TurnOK' /\ EnabledOK' /\ RefusedOK'
<1> USE StageOrder DEF SetupInv
<1>1. \A q \in Rank : stage[q] \in Stage
  BY DEF TypeOK
<1>2. vote[r][stage[r]] = "none"
  BY DEF VoteOK
<1>3. VoteOK'
  <2>1. \A q \in Rank \ {r} : vote'[q] = vote[q] /\ phase'[q] = phase[q]
    BY DEF Vote, TypeOK
  <2>2. \A s \in Stage : s > stage[r] => s # stage[r]
    BY <1>1, SetupAssumption DEF Stage, StandAside, AllocSeq
  <2>3. \A s \in Stage : s > stage[r] => vote'[r][s] = "none"
    BY <2>2, VoteWrites DEF VoteOK
  <2> QED
    BY <1>1, <2>1, <2>3, VoteWrites DEF VoteOK, FirstStage
<1>4. PassedOK'
  BY <1>1, <1>2, VoteWrites DEF PassedOK, FirstStage
<1>5. TurnOK'
  BY VoteWrites DEF TurnOK
<1>6. EnabledOK'
  <2>1. \A q \in enabled : q # r /\ stage[r] # AllocSeq
    BY <1>2 DEF EnabledOK, TypeOK
  <2> QED
    BY <2>1, VoteWrites DEF EnabledOK, TypeOK
<1>7. RefusedOK'
  <2> SUFFICES ASSUME dead' = {}, NEW q \in Rank \ enabled', phase'[q] = "done"
               PROVE  \E p \in Rank : vote'[p][stage'[q]] = "bad"
    BY DEF RefusedOK
  <2>1. q # r /\ phase[q] = "done" /\ q \notin enabled /\ dead = {} /\ stage' = stage
    BY VoteWrites
  <2>2. PICK p \in Rank : vote[p][stage[q]] = "bad"
    BY <2>1 DEF RefusedOK
  <2>3. vote'[p][stage[q]] = "bad"
    BY <1>1, <1>2, <2>2, VoteWrites
  <2> QED
    BY <2>1, <2>3
<1> QED
  BY <1>3, <1>4, <1>5, <1>6, <1>7

(* Initially nobody voted, registered or holds anything.                    *)
LEMMA SetupInit == Init => SetupInv
<1> SUFFICES ASSUME Init PROVE SetupInv
  OBVIOUS
<1> USE SetupAssumption, StageOrder
<1>1. \A r \in Rank : stage[r] = FirstStage /\ FirstStage \in Stage /\ FirstStage < Name
  BY DEF Init, FirstStage, StandAside, LoadFirst, Name
<1>2. TypeOK
  <2>1. stage \in [Rank -> Stage]
    BY <1>1 DEF Init, FirstStage
  <2>2. 0 \in 0 .. MaxAttempts
    OBVIOUS
  <2>3. /\ phase \in [Rank -> {"work", "registering", "agree", "done"}]
        /\ vote \in [Rank -> [Stage -> {"none", "ok", "bad"}]]
        /\ attempts \in [Rank -> 0 .. MaxAttempts]
    BY <2>2 DEF Init
  <2> QED
    BY <2>1, <2>3 DEF Init, TypeOK
<1>3. VoteOK
  BY <1>1 DEF Init, VoteOK, Stage, StandAside, LoadFirst, AllocSeq, FirstStage
<1>4. PassedOK
  BY <1>1 DEF Init, PassedOK, Stage, StandAside, LoadFirst, AllocSeq, FirstStage
<1>5. AttemptsOK
  BY DEF Init, AttemptsOK
<1>6. TurnOK /\ EnabledOK /\ RefusedOK /\ KnownOK /\ ReleasedOK
  BY DEF Init, TurnOK, EnabledOK, RefusedOK, KnownOK, ReleasedOK
<1>7. HeldOK
  BY DEF Init, HeldOK
<1>8. CreatedOK
  BY DEF Init, CreatedOK
<1> QED
  BY <1>2, <1>3, <1>4, <1>5, <1>6, <1>7, <1>8 DEF SetupInv

(* A rank that gives its flag in a stage where it neither maps nor          *)
(* registers changes nothing else the others see.                           *)
LEMMA PlainVote ==
    ASSUME SetupInv, NEW r \in Rank, NEW ok \in BOOLEAN, Vote(r, ok),
           phase[r] = "work", stage[r] # Map, stage[r] # Register(r), r \notin dead,
           UNCHANGED <<attempts, memory>>,
           exists' \in BOOLEAN, created' \in BOOLEAN, CreatedOK'
    PROVE  SetupInv'
<1> USE SetupAssumption, StageOrder DEF SetupInv
<1>1. VoteOK' /\ PassedOK' /\ TurnOK' /\ EnabledOK' /\ RefusedOK'
  BY VoteKeeps
<1>2. TypeOK'
  BY VoteWrites DEF TypeOK, memory
<1>3. AttemptsOK'
  BY VoteWrites DEF AttemptsOK
<1>4. HeldOK'
  BY VoteWrites DEF HeldOK, Live, memory
<1>5. KnownOK' /\ ReleasedOK'
  BY VoteWrites DEF KnownOK, ReleasedOK, memory
<1> QED
  BY <1>1, <1>2, <1>3, <1>4, <1>5

(* Every step of a constructor and every death keeps the invariant.         *)
LEMMA SetupStep == SetupInv /\ [Next]_vars => SetupInv'
<1> SUFFICES ASSUME SetupInv, [Next]_vars PROVE SetupInv'
  OBVIOUS
<1> USE SetupAssumption, StageOrder DEF SetupInv
<1>t. \A q \in Rank : stage[q] \in Stage /\ stage[q] \in Nat /\ q \in Nat
  BY DEF TypeOK, Stage, StandAside, AllocSeq, Rank
<1>1. ASSUME NEW r \in Rank, Local(r) PROVE SetupInv'
  <2>1. PICK ok \in BOOLEAN : Vote(r, ok)
    BY <1>1 DEF Local
  <2>2. phase[r] = "work" /\ stage[r] # Map /\ stage[r] # Register(r) /\ r \notin dead
    BY <1>1 DEF Local, Working, StandAside, LoadFirst, LoadOthers, AllocSeq, Map, Register, Rank
  <2>3. UNCHANGED <<attempts, exists, created, memory>>
    BY <1>1 DEF Local
  <2>4. CreatedOK' /\ exists' \in BOOLEAN /\ created' \in BOOLEAN
    BY <2>1, <2>3, VoteWrites DEF CreatedOK, TypeOK
  <2> QED
    BY <2>1, <2>2, <2>3, <2>4, PlainVote
<1>2. ASSUME NEW r \in Rank, GetName(r) PROVE SetupInv'
  <2>1. PICK ok \in BOOLEAN : Vote(r, ok)
    BY <1>2 DEF GetName
  <2>2. phase[r] = "work" /\ stage[r] # Map /\ stage[r] # Register(r) /\ r \notin dead
    BY <1>2 DEF GetName, Working, Name, Map, Register, Rank
  <2>3. UNCHANGED <<attempts, exists, created, memory>>
    BY <1>2 DEF GetName
  <2>4. CreatedOK' /\ exists' \in BOOLEAN /\ created' \in BOOLEAN
    BY <2>1, <2>3, VoteWrites DEF CreatedOK, TypeOK
  <2> QED
    BY <2>1, <2>2, <2>3, <2>4, PlainVote
<1>3. ASSUME NEW r \in Rank, CreateSegment(r) PROVE SetupInv'
  <2>1. PICK ok \in BOOLEAN, named \in BOOLEAN :
          /\ r # 0 => ok /\ ~named
          /\ exists' = (exists \/ named)
          /\ created' = (created \/ named)
          /\ Vote(r, ok)
    BY <1>3 DEF CreateSegment
  <2>2. phase[r] = "work" /\ stage[r] # Map /\ stage[r] # Register(r) /\ r \notin dead
    BY <1>3 DEF CreateSegment, Working, Create, Map, Register, Rank
  <2>3. UNCHANGED <<attempts, memory>>
    BY <1>3 DEF CreateSegment
  <2>4. exists' \in BOOLEAN /\ created' \in BOOLEAN
    BY <2>1
  <2>5. CreatedOK'
    BY <2>1, <2>2, VoteWrites DEF CreatedOK
  <2> QED
    BY <2>1, <2>2, <2>3, <2>4, <2>5, PlainVote
<1>4. ASSUME NEW r \in Rank, MapSegment(r) PROVE SetupInv'
  <2>1. PICK ok \in BOOLEAN, held \in BOOLEAN :
          /\ ok => held
          /\ mapped' = IF held THEN mapped \cup {r} ELSE mapped
          /\ Vote(r, ok)
    BY <1>4 DEF MapSegment
  <2>2. phase[r] = "work" /\ stage[r] = Map /\ stage[r] # Register(r) /\ r \notin dead
    BY <1>4, <1>t DEF MapSegment, Working, Map, Register
  <2>3. VoteOK' /\ PassedOK' /\ TurnOK' /\ EnabledOK' /\ RefusedOK'
    BY <2>1, <2>2, VoteKeeps
  <2>4. UNCHANGED <<attempts, exists, created, pinned, registered, stuck>>
    BY <1>4 DEF MapSegment
  <2>5. TypeOK'
    BY <2>1, <2>4, VoteWrites DEF TypeOK
  <2>6. AttemptsOK'
    BY <2>1, <2>2, <2>4, VoteWrites DEF AttemptsOK
  <2>7. HeldOK'
    <3>1. \A q \in Rank \ {r} : vote'[q] = vote[q] /\ phase'[q] = phase[q]
                                /\ (q \in mapped' <=> q \in mapped)
      BY <2>1 DEF Vote, TypeOK
    <3>2. vote'[r][Map] = "ok" => r \in mapped'
      BY <2>1, <2>2, VoteWrites
    <3>3. vote'[r][Register(r)] = vote[r][Register(r)]
      BY <2>1, <2>2, VoteWrites
    <3>4. phase[r] # "done" /\ UNCHANGED <<pinned, enabled, dead>>
      BY <2>1, <2>2, <2>4, VoteWrites
    <3> QED
      BY <2>2, <3>1, <3>2, <3>3, <3>4 DEF HeldOK, Live
  <2>8. KnownOK' /\ ReleasedOK'
    <3>1. /\ phase'[r] = "agree" /\ phase[r] # "done"
          /\ \A q \in Rank \ {r} : /\ phase'[q] = phase[q]
                                   /\ q \in mapped' <=> q \in mapped
          /\ UNCHANGED <<pinned, registered, stuck, enabled>>
      BY <2>1, <2>2, <2>4, VoteWrites
    <3> QED
      BY <3>1 DEF KnownOK, ReleasedOK
  <2>9. CreatedOK'
    BY <2>1, <2>4, VoteWrites DEF CreatedOK
  <2> QED
    BY <2>3, <2>5, <2>6, <2>7, <2>8, <2>9
<1>5. ASSUME NEW r \in Rank, BeginRegister(r) PROVE SetupInv'
  <2>1. /\ phase[r] = "work" /\ stage[r] = Register(r)
        /\ phase' = [phase EXCEPT ![r] = "registering"]
        /\ UNCHANGED <<handover, stage, vote, attempts, exists, created, mapped,
                       pinned, registered, stuck, enabled, dead>>
    BY <1>5 DEF BeginRegister, Working, memory
  <2>2. TypeOK'
    BY <2>1 DEF TypeOK
  <2>3. VoteOK' /\ PassedOK' /\ TurnOK'
    BY <2>1 DEF VoteOK, PassedOK, TurnOK, TypeOK, FirstStage
  <2>4. AttemptsOK'
    <3>1. attempts[r] = 0 /\ phase'[r] = "registering"
      BY <2>1 DEF AttemptsOK, TypeOK
    <3>2. \A q \in Rank \ {r} : phase'[q] = phase[q]
      BY <2>1 DEF TypeOK
    <3>3. \A q \in Rank : stage'[q] = stage[q] /\ attempts'[q] = attempts[q]
      BY <2>1
    <3>4. stage'[r] = Register(r) /\ ~(stage'[r] < Register(r))
      BY <2>1, <1>t
    <3> QED
      BY <3>1, <3>2, <3>3, <3>4 DEF AttemptsOK
  <2>5. EnabledOK' /\ RefusedOK'
    BY <2>1 DEF EnabledOK, RefusedOK, TypeOK
  <2>6. HeldOK' /\ KnownOK' /\ ReleasedOK' /\ CreatedOK'
    BY <2>1 DEF HeldOK, KnownOK, ReleasedOK, CreatedOK, TypeOK, Live
  <2> QED
    BY <2>2, <2>3, <2>4, <2>5, <2>6
<1>6. ASSUME NEW r \in Rank, SkipRegister(r) PROVE SetupInv'
  <2>1. Vote(r, TRUE) /\ UNCHANGED <<attempts, exists, created, memory>>
    BY <1>6 DEF SkipRegister
  <2>2. phase[r] = "work" /\ stage[r] # Map /\ stage[r] # Register(r) /\ r \notin dead
    BY <1>6, <1>t DEF SkipRegister, Working, Map, Register
  <2>3. CreatedOK' /\ exists' \in BOOLEAN /\ created' \in BOOLEAN
    BY <2>1, VoteWrites DEF CreatedOK, TypeOK
  <2> QED
    BY <2>1, <2>2, <2>3, PlainVote
<1>7. ASSUME NEW r \in Rank, RegisterAttempt(r) PROVE SetupInv'
  <2>1. /\ phase[r] = "registering" /\ r \notin dead /\ stage[r] = Register(r)
        /\ attempts[r] < MaxAttempts /\ attempts[r] \in Nat
        /\ UNCHANGED <<exists, created, mapped>>
    BY <1>7 DEF RegisterAttempt, TurnOK, AttemptsOK, TypeOK
  <2>n. ASSUME NotRegistered(r)
        PROVE  /\ pinned' \subseteq Rank /\ stuck' \subseteq Rank \X Holding
               /\ pinned \subseteq pinned' /\ stuck \subseteq stuck'
               /\ \A q \in Rank : q \in pinned' => q \in pinned \/ <<q, "pins">> \in stuck'
    BY <2>n DEF NotRegistered, TypeOK, Holding
  <2>2. CASE /\ pinned' = pinned \cup {r} /\ registered' = registered \cup {r}
             /\ Vote(r, TRUE) /\ UNCHANGED <<attempts, stuck>>
    <3>0. PICK ok \in BOOLEAN : Vote(r, ok)
      BY <2>2
    <3>1. VoteOK' /\ PassedOK' /\ TurnOK' /\ EnabledOK' /\ RefusedOK'
      BY <2>1, <3>0, VoteKeeps
    <3>2. TypeOK'
      BY <2>1, <2>2, <3>0, VoteWrites DEF TypeOK
    <3>3. AttemptsOK'
      BY <2>1, <2>2, <3>0, <1>t, VoteWrites DEF AttemptsOK, Register
    <3>4. HeldOK'
      <4>1. \A q \in Rank \ {r} : vote'[q] = vote[q] /\ phase'[q] = phase[q]
                                  /\ (q \in pinned' <=> q \in pinned)
        BY <2>2 DEF Vote, TypeOK
      <4>2. Map # stage[r] /\ Map \in Stage
        BY <2>1, <1>t DEF Map, Register
      <4>3. r \in pinned' /\ vote'[r][Map] = vote[r][Map]
        BY <2>2, <3>0, <4>2, VoteWrites
      <4> QED
        BY <2>1, <4>1, <4>3, <3>0, VoteWrites DEF HeldOK, Live
    <3>5. KnownOK' /\ ReleasedOK' /\ CreatedOK'
      BY <2>1, <2>2, <3>0, VoteWrites DEF KnownOK, ReleasedOK, CreatedOK
    <3> QED
      BY <3>1, <3>2, <3>3, <3>4, <3>5
  <2>3. CASE /\ attempts' = [attempts EXCEPT ![r] = @ + 1] /\ UNCHANGED registered
             /\ NotRegistered(r) /\ attempts[r] + 1 < MaxAttempts
             /\ UNCHANGED <<handover, stage, phase, vote, enabled, dead>>
    <3>1. TypeOK'
      BY <2>1, <2>3, <2>n DEF TypeOK
    <3>2. VoteOK' /\ PassedOK' /\ TurnOK' /\ EnabledOK' /\ RefusedOK'
      BY <2>3 DEF VoteOK, PassedOK, TurnOK, EnabledOK, RefusedOK, FirstStage
    <3>3. AttemptsOK'
      BY <2>1, <2>3, <1>t DEF AttemptsOK, TypeOK, Register
    <3>4. HeldOK' /\ CreatedOK'
      BY <2>1, <2>3, <2>n DEF HeldOK, CreatedOK, Live
    <3>5. KnownOK' /\ ReleasedOK'
      BY <2>1, <2>3, <2>n DEF KnownOK, ReleasedOK
    <3> QED
      BY <3>1, <3>2, <3>3, <3>4, <3>5
  <2>4. CASE /\ attempts' = [attempts EXCEPT ![r] = @ + 1] /\ UNCHANGED registered
             /\ NotRegistered(r) /\ Vote(r, FALSE)
    <3>0. PICK ok \in BOOLEAN : Vote(r, ok) /\ ~ok
      BY <2>4
    <3>1. VoteOK' /\ PassedOK' /\ TurnOK' /\ EnabledOK' /\ RefusedOK'
      BY <2>1, <3>0, VoteKeeps
    <3>a. attempts' \in [Rank -> 0 .. MaxAttempts]
      BY <2>1, <2>4 DEF TypeOK
    <3>b. \A q \in Rank \ {r} : attempts'[q] = attempts[q]
      BY <2>4 DEF TypeOK
    <3>2. TypeOK'
      BY <2>1, <2>4, <2>n, <3>0, <3>a, VoteWrites DEF TypeOK
    <3>3. AttemptsOK'
      BY <2>1, <3>0, <3>b, <1>t, VoteWrites DEF AttemptsOK, Register
    <3>4. HeldOK'
      BY <2>1, <2>4, <2>n, <3>0, VoteWrites DEF HeldOK, Live
    <3>5. /\ phase'[r] = "agree" /\ \A q \in Rank \ {r} : phase'[q] = phase[q]
          /\ UNCHANGED <<registered, enabled, mapped, exists, created>>
      BY <2>1, <2>4, <3>0, VoteWrites
    <3>6. KnownOK' /\ ReleasedOK'
      BY <2>1, <2>4, <2>n, <3>5 DEF KnownOK, ReleasedOK
    <3>7. CreatedOK'
      BY <3>5 DEF CreatedOK
    <3> QED
      BY <3>1, <3>2, <3>3, <3>4, <3>6, <3>7
  <2> QED
    BY <1>7, <2>2, <2>3, <2>4 DEF RegisterAttempt
<1>8. ASSUME NEW r \in Rank, Agreed(r) PROVE SetupInv'
  <2>1. /\ r \notin dead /\ phase[r] = "agree"
        /\ \A q \in Rank : vote[q][stage[r]] = "ok"
        /\ UNCHANGED <<handover, vote, attempts, mapped, pinned, registered, stuck, dead>>
    BY <1>8 DEF Agreed, memory
  <2>2. CASE stage[r] = AllocSeq /\ Leave(r) /\ enabled' = enabled \cup {r} /\ UNCHANGED stage
    <3>1. TypeOK'
      BY <2>1, <2>2 DEF TypeOK, Leave
    <3>2. VoteOK' /\ PassedOK' /\ TurnOK'
      BY <2>1, <2>2 DEF VoteOK, PassedOK, TurnOK, TypeOK, Leave, FirstStage
    <3>3. AttemptsOK'
      BY <2>1, <2>2 DEF AttemptsOK, TypeOK, Leave
    <3>4. EnabledOK' /\ RefusedOK'
      BY <2>1, <2>2 DEF EnabledOK, RefusedOK, TypeOK, Leave
    <3>5. HeldOK' /\ KnownOK' /\ ReleasedOK' /\ CreatedOK'
      BY <2>1, <2>2 DEF HeldOK, KnownOK, ReleasedOK, CreatedOK, TypeOK, Leave, Live
    <3> QED
      BY <3>1, <3>2, <3>3, <3>4, <3>5
  <2>3. CASE /\ stage[r] # AllocSeq /\ stage' = [stage EXCEPT ![r] = @ + 1]
             /\ phase' = [phase EXCEPT ![r] = "work"]
             /\ UNCHANGED <<enabled, exists, created>>
    <3>s. stage[r] + 1 \in Stage /\ stage[r] + 1 \in Nat
      BY <2>3, <1>t DEF Stage, StandAside, AllocSeq
    <3>t. \A s \in Stage : s \in Nat
      BY DEF Stage, StandAside, AllocSeq
    <3>f. FirstStage \in Nat
      BY DEF StandAside, LoadFirst
    <3>1. TypeOK'
      BY <2>1, <2>3, <3>s DEF TypeOK
    <3>2. VoteOK'
      <4>1. vote[r][stage[r] + 1] = "none"
        BY <1>t, <3>s DEF VoteOK
      <4> QED
        BY <2>1, <2>3, <1>t, <3>s, <3>t, <3>f, <4>1 DEF VoteOK, TypeOK, FirstStage
    <3>3. PassedOK'
      <4>1. UNCHANGED FirstStage
        BY <2>1 DEF FirstStage
      <4>2. \A s \in Stage : s < stage[r] + 1 => s < stage[r] \/ s = stage[r]
        BY <1>t, <3>t
      <4>3. /\ stage'[r] = stage[r] + 1
            /\ \A p \in Rank \ {r} : stage'[p] = stage[p]
            /\ \A p \in Rank : vote'[p] = vote[p]
        BY <2>1, <2>3 DEF TypeOK
      <4> QED
        BY <2>1, <4>1, <4>2, <4>3 DEF PassedOK
    <3>4. TurnOK'
      BY <2>1, <2>3 DEF TurnOK, TypeOK
    <3>5. AttemptsOK'
      <4>1. /\ stage'[r] = stage[r] + 1 /\ phase'[r] = "work"
            /\ \A p \in Rank \ {r} : stage'[p] = stage[p] /\ phase'[p] = phase[p]
            /\ \A p \in Rank : attempts'[p] = attempts[p]
        BY <2>1, <2>3 DEF TypeOK
      <4>2. stage[r] + 1 < Register(r) => stage[r] < Register(r)
        BY <1>t DEF Register
      <4>3. stage[r] + 1 = Register(r) => stage[r] < Register(r)
        BY <1>t DEF Register
      <4> QED
        BY <4>1, <4>2, <4>3 DEF AttemptsOK
    <3>6. EnabledOK' /\ RefusedOK'
      BY <2>1, <2>3 DEF EnabledOK, RefusedOK, TypeOK
    <3>7. HeldOK' /\ KnownOK' /\ ReleasedOK' /\ CreatedOK'
      BY <2>1, <2>3 DEF HeldOK, KnownOK, ReleasedOK, CreatedOK, TypeOK, Live
    <3> QED
      BY <3>1, <3>2, <3>3, <3>4, <3>5, <3>6, <3>7
  <2> QED
    BY <1>8, <2>2, <2>3 DEF Agreed
<1>9. ASSUME NEW r \in Rank, Refused(r) PROVE SetupInv'
  <2>1. /\ r \notin dead /\ phase[r] = "agree" /\ Leave(r) /\ Close(r)
        /\ UNCHANGED <<handover, stage, vote, attempts, enabled, dead>>
        /\ dead = {} => \E q \in Rank : vote[q][stage[r]] = "bad"
    BY <1>9 DEF Refused
  <2>0. PICK failed \in SUBSET Holding :
          /\ "mapping" \in failed => r \in mapped
          /\ "pins" \in failed => r \in registered
          /\ mapped' = IF "mapping" \in failed THEN mapped ELSE mapped \ {r}
          /\ pinned' = IF r \in registered /\ "pins" \notin failed
                         THEN pinned \ {r} ELSE pinned
          /\ registered' = registered \ {r}
          /\ stuck' = stuck \cup ({r} \X failed)
    BY <2>1, Zenon DEF Close
  <2>2. r \notin enabled
    BY <2>1 DEF EnabledOK
  <2>3. TypeOK'
    <3>1. stuck' \subseteq Rank \X Holding
      BY <2>0 DEF TypeOK
    <3>2. mapped' \subseteq Rank /\ pinned' \subseteq Rank /\ registered' \subseteq Rank
      BY <2>0 DEF TypeOK
    <3> QED
      BY <2>1, <3>1, <3>2 DEF TypeOK, Leave
  <2>4. VoteOK' /\ PassedOK' /\ TurnOK'
    BY <2>1 DEF VoteOK, PassedOK, TurnOK, TypeOK, Leave, FirstStage
  <2>5. AttemptsOK'
    BY <2>1 DEF AttemptsOK, TypeOK, Leave
  <2>6. EnabledOK' /\ RefusedOK'
    BY <2>1, <2>2 DEF EnabledOK, RefusedOK, TypeOK, Leave
  <2>7. /\ phase'[r] = "done"
        /\ \A q \in Rank \ {r} : /\ phase'[q] = phase[q]
                                 /\ q \in mapped' <=> q \in mapped
                                 /\ q \in pinned' <=> q \in pinned
                                 /\ q \in registered' <=> q \in registered
        /\ stuck \subseteq stuck'
    BY <2>0, <2>1 DEF TypeOK, Leave
  <2>8. HeldOK'
    BY <2>1, <2>2, <2>7 DEF HeldOK, Live
  <2>9. KnownOK'
    BY <2>7 DEF KnownOK
  <2>10. ReleasedOK'
    <3>1. r \in mapped' => <<r, "mapping">> \in stuck'
      BY <2>0
    <3>2. r \in pinned' => <<r, "pins">> \in stuck'
      <4>1. CASE r \in registered
        BY <2>0, <4>1
      <4>2. CASE r \notin registered
        BY <2>0, <2>1, <4>2 DEF KnownOK
      <4> QED
        BY <4>1, <4>2
    <3> QED
      BY <2>1, <2>7, <3>1, <3>2 DEF ReleasedOK
  <2>11. CreatedOK'
    BY <2>1 DEF CreatedOK, TypeOK, Leave
  <2> QED
    BY <2>3, <2>4, <2>5, <2>6, <2>8, <2>9, <2>10, <2>11
<1>10. ASSUME NEW r \in Rank, Die(r) PROVE SetupInv'
  <2>1. /\ dead' = dead \cup {r} /\ mapped' = mapped \ {r} /\ pinned' = pinned \ {r}
        /\ registered' = registered \ {r}
        /\ UNCHANGED <<handover, stage, phase, vote, attempts, exists, created, stuck, enabled>>
    BY <1>10 DEF Die
  <2>2. TypeOK' /\ AttemptsOK' /\ TurnOK'
    BY <2>1 DEF TypeOK, AttemptsOK, TurnOK
  <2>3. VoteOK' /\ PassedOK'
    BY <2>1 DEF VoteOK, PassedOK, FirstStage
  <2>4. EnabledOK' /\ RefusedOK'
    BY <2>1 DEF EnabledOK, RefusedOK
  <2>5. HeldOK' /\ KnownOK' /\ ReleasedOK' /\ CreatedOK'
    BY <2>1 DEF HeldOK, KnownOK, ReleasedOK, CreatedOK, Live
  <2> QED
    BY <2>2, <2>3, <2>4, <2>5
<1>11. ASSUME UNCHANGED vars PROVE SetupInv'
  BY <1>11 DEF vars, TypeOK, VoteOK, PassedOK, TurnOK, AttemptsOK, EnabledOK, RefusedOK,
     HeldOK, KnownOK, ReleasedOK, CreatedOK, FirstStage, Live
<1> QED
  BY <1>1, <1>2, <1>3, <1>4, <1>5, <1>6, <1>7, <1>8, <1>9, <1>10, <1>11 DEF Next, Step

(* SetupInv holds in every reachable state.                                 *)
LEMMA SetupInvariant == Spec => []SetupInv
<1>1. Init => SetupInv
  BY SetupInit
<1>2. SetupInv /\ [Next]_vars => SetupInv'
  BY SetupStep
<1> QED
  BY <1>1, <1>2, PTL DEF Spec

-----------------------------------------------------------------------------
(* The states of __init__, _setup, _step and close keep their types; the    *)
(* retries of cudaHostRegister stay within MaxAttempts.                     *)
THEOREM TypeCorrect == Spec => []TypeOK
BY SetupInvariant, PTL DEF SetupInv

(* Two ranks are never inside cudaHostRegister at once: the later one would *)
(* have passed the stage in which the earlier has not voted yet.            *)
THEOREM RegistersInTurn == Spec => []RegisterOneAtATime
<1>1. SetupInv => RegisterOneAtATime
  <2> SUFFICES ASSUME SetupInv, NEW r \in Rank, NEW q \in Rank,
                      phase[r] = "registering", phase[q] = "registering", r < q
               PROVE  FALSE
    BY DEF RegisterOneAtATime, Rank
  <2>1. stage[r] = Register(r) /\ stage[q] = Register(q)
    BY DEF SetupInv, TurnOK
  <2>2. vote[r][Register(r)] = "none"
    BY <2>1 DEF SetupInv, VoteOK
  <2>3. Register(r) \in Stage /\ FirstStage <= Register(r) /\ Register(r) < Register(q)
    BY SetupAssumption, StageOrder DEF Rank, Register, FirstStage, StandAside, LoadFirst
  <2> QED
    BY <2>1, <2>2, <2>3 DEF SetupInv, PassedOK
<1> QED
  BY <1>1, SetupInvariant, PTL

(* With no process lost, the ranks that are through all enabled the path or *)
(* all fell back: a rank that enabled it saw ok from everybody in every     *)
(* stage, a rank that fell back saw a bad flag in one of them.              *)
THEOREM AllEnableOrNone == Spec => []EnabledTogether
<1>1. SetupInv => EnabledTogether
  <2> SUFFICES ASSUME SetupInv, dead = {}, NEW r \in enabled, NEW q \in Rank \ enabled,
                      r \in Rank, phase[q] = "done"
               PROVE  FALSE
    BY DEF EnabledTogether
  <2>1. PICK p \in Rank : vote[p][stage[q]] = "bad"
    BY DEF SetupInv, RefusedOK
  <2>2. /\ stage[r] = AllocSeq /\ vote[p][AllocSeq] = "ok"
        /\ stage[q] \in Stage /\ FirstStage <= stage[q]
    BY DEF SetupInv, EnabledOK, VoteOK, TypeOK
  <2>3. stage[q] = AllocSeq \/ stage[q] < stage[r]
    BY <2>2, SetupAssumption DEF Stage, StandAside, AllocSeq
  <2> QED
    BY <2>1, <2>2, <2>3 DEF SetupInv, PassedOK
<1> QED
  BY <1>1, SetupInvariant, PTL

(* Whoever enables the path, its peers that live and did not fall back hold *)
(* the mapping and the registration that reads through their pages need.    *)
THEOREM EnabledPeersAreReady == Spec => []EnabledIsComplete
<1>1. SetupInv => EnabledIsComplete
  <2> SUFFICES ASSUME SetupInv, NEW r \in enabled, NEW q \in Rank
               PROVE  /\ vote[q][AllocSeq] = "ok"
                      /\ Live(q) /\ phase[q] # "done" => q \in pinned
                      /\ q \in enabled /\ Live(q) => q \in mapped \cap pinned
    BY DEF EnabledIsComplete
  <2>1. r \in Rank /\ stage[r] = AllocSeq /\ vote[q][AllocSeq] = "ok"
    BY DEF SetupInv, EnabledOK, TypeOK
  <2>2. /\ FirstStage <= Map /\ Map < AllocSeq /\ Map \in Stage
        /\ FirstStage <= Register(q) /\ Register(q) < AllocSeq /\ Register(q) \in Stage
    BY SetupAssumption, StageOrder
       DEF Rank, Register, AllocSeq, Map, FirstStage, StandAside, LoadFirst
  <2>3. vote[q][Map] = "ok" /\ vote[q][Register(q)] = "ok"
    BY <2>1, <2>2 DEF SetupInv, PassedOK
  <2> QED
    BY <2>1, <2>3 DEF SetupInv, HeldOK
<1> QED
  BY <1>1, SetupInvariant, PTL

(* The name is gone from /dev/shm when rank 0 leaves its constructor, and a *)
(* rank that fell back holds a mapping or pins only where a call to release *)
(* them failed: close() misses nothing that a step took hold of, also not   *)
(* what a step took that then failed (close, _unlink_segment, _register).   *)
THEOREM SetupCleansUp == Spec => []NothingLeftBehind
<1>1. SetupInv => NothingLeftBehind
  BY DEF SetupInv, CreatedOK, ReleasedOK, NothingLeftBehind
<1> QED
  BY <1>1, SetupInvariant, PTL
=============================================================================
