----------------------- MODULE CeRingAllReduce_proofs -----------------------
(***************************************************************************)
(* Theorems about CeRingAllReduce, for any number of ranks, workload,      *)
(* number of calls and bound on the waits given up.  CeRingProgram_proofs  *)
(* has the facts about the two programs; from here on a program is only    *)
(* what those lemmas say of it.                                            *)
(***************************************************************************)
EXTENDS CeRingProgram_proofs

-----------------------------------------------------------------------------
(* Types. *)

(* The steps of the constructor by their numbers. *)
LEMMA StageNumbers ==
  ASSUME NEW r, setup[r] \in DOMAIN Stage
  PROVE  /\ setup[r] \in 1 .. 9
         /\ Building(r, {"allocate scratch", "allocate flags"}) => setup[r] \in {1, 4}
         /\ Building(r, {"open scratch", "open flags"}) => setup[r] \in {2, 5}
         /\ Building(r, {"agree scratch", "agree flags"}) => setup[r] \in {3, 6}
         /\ Building(r, {"clear"}) => setup[r] = 7
         /\ Building(r, {"barrier"}) => setup[r] = 8
         /\ IsReady(r) => setup[r] = 9
  <1>1. setup[r] \in 1 .. 9
    BY DEF Stage
  <1>2. /\ Stage[1] = "allocate scratch" /\ Stage[2] = "open scratch" /\ Stage[3] = "agree scratch"
        /\ Stage[4] = "allocate flags" /\ Stage[5] = "open flags" /\ Stage[6] = "agree flags"
        /\ Stage[7] = "clear" /\ Stage[8] = "barrier" /\ Stage[9] = "ready"
    BY DEF Stage
  <1>3. setup[r] \in {1, 2, 3, 4, 5, 6, 7, 8, 9}
    BY <1>1
  <1> QED
    BY <1>1, <1>2, <1>3 DEF Building, IsReady

LEMMA PlanType ==
  ASSUME TypeOK, NEW n \in Call
  PROVE  plan[n] \in AnyKind
  BY CeRingAssumption DEF TypeOK, AnyKind

(* A running rank is at an operation of its program. *)
LEMMA AtOperation ==
  ASSUME TypeOK, NEW r \in Rank, Running(r)
  PROVE  /\ epoch[r] \in Call /\ plan[epoch[r]] \in AnyKind
         /\ Ops(r) = Program[plan[epoch[r]]][r]
         /\ pc[r] \in 1 .. Len(Ops(r)) /\ Len(Ops(r)) \in Nat
         /\ pc[r] \in DOMAIN Program[plan[epoch[r]]][r]
         /\ Op(r) = Program[plan[epoch[r]]][r][pc[r]]
         /\ Op(r) \in Operation
  <1>1. epoch[r] \in Call /\ pc[r] \in 1 .. Len(Ops(r))
    BY DEF TypeOK, Call
  <1>2. plan[epoch[r]] \in AnyKind
    BY <1>1, PlanType
  <1>3. Ops(r) = Program[plan[epoch[r]]][r] /\ Op(r) = Program[plan[epoch[r]]][r][pc[r]]
    BY DEF Ops, Op
  <1> QED
    BY <1>1, <1>2, <1>3, ProgramType

(* What an operation is, by its opcode. *)
LEMMA OperationForms ==
  ASSUME NEW o \in Operation
  PROVE  /\ o.op = "set" => o.rank \in Rank /\ o.flag \in Flag /\ o = SetFlag(o.rank, o.flag)
         /\ o.op = "wait" => o.flag \in Flag /\ o = WaitFlag(o.flag)
         /\ o.op = "copy" => o.dst \in Location /\ o.src \in Place /\ o = Copy(o.dst, o.src)
         /\ o.op = "sum" => o.dst \in Location /\ o.parts \subseteq Place /\ o = Sum(o.dst, o.parts)
         /\ o.op \in {"set", "wait", "copy", "sum"}
  BY DEF Operation, SetFlag, WaitFlag, Copy, Sum

(* The end of a step leaves the program's counter in range. *)
LEMMA CounterType ==
  ASSUME TypeOK, NEW r \in Rank, Running(r), StepOn(r), UNCHANGED <<plan, epoch>>
  PROVE  /\ pc' \in [Rank -> Nat]
         /\ \A q \in Rank : (Running(q) => epoch[q] > 0 /\ pc[q] \in 1 .. Len(Ops(q)))'
         /\ \A q \in Rank \ {r} : pc'[q] = pc[q] /\ (Running(q)' <=> Running(q))
         /\ pc'[r] = IF pc[r] = Len(Ops(r)) THEN 0 ELSE pc[r] + 1
  <1>1. pc[r] \in 1 .. Len(Ops(r)) /\ Len(Ops(r)) \in Nat /\ epoch[r] > 0
    BY AtOperation DEF TypeOK
  <1>2. pc \in [Rank -> Nat]
    BY DEF TypeOK
  <1>3. /\ pc' \in [Rank -> Nat]
        /\ \A q \in Rank \ {r} : pc'[q] = pc[q]
        /\ pc'[r] = IF pc[r] = Len(Ops(r)) THEN 0 ELSE pc[r] + 1
    BY <1>1, <1>2 DEF StepOn
  <1>4. \A q \in Rank : Ops(q)' = Ops(q)
    BY DEF Ops
  <1>5. \A q \in Rank \ {r} : Running(q)' <=> Running(q)
    BY <1>3 DEF Running
  <1>6. ASSUME NEW q \in Rank, Running(q)'
        PROVE  epoch'[q] > 0 /\ pc'[q] \in 1 .. Len(Ops(q)')
    <2>1. CASE q = r
      BY <1>1, <1>3, <1>4, <1>6, <2>1 DEF Running
    <2>2. CASE q # r
      <3>1. Running(q) /\ pc'[q] = pc[q] /\ Ops(q)' = Ops(q)
        BY <1>3, <1>4, <1>5, <1>6, <2>2
      <3> QED
        BY <3>1 DEF TypeOK
    <2> QED
      BY <2>1, <2>2
  <1> QED
    BY <1>3, <1>5, <1>6

(* What is read is contributions, if the readers of inputs have begun.      *)
LEMMA ReadType ==
  ASSUME TypeOK, NEW r \in Rank, epoch[r] \in Call, NEW l,
         (\E j \in Rank : l = In(r, j)) \/ l \in Location
  PROVE  Read(l) \subseteq Contribution
  <1>1. CASE \E j \in Rank : l = In(r, j)
    <2>1. PICK j \in Rank : l = In(r, j)
      BY <1>1
    <2>2. Read(l) = {<<r, epoch[r], j>>}
      BY <2>1 DEF Read, In
    <2> QED
      BY <2>2 DEF Contribution
  <1>2. CASE l \in Location
    <2>1. l[1] # "in"
      BY <1>2 DEF Location, Out, Slot
    <2>2. Read(l) = mem[l]
      BY <2>1 DEF Read
    <2> QED
      BY <1>2, <2>2 DEF TypeOK
  <1> QED
    BY <1>1, <1>2

(* A copy and a sum read the rank's own input and places in memory.         *)
LEMMA WrittenFrom ==
  ASSUME TypeOK, NEW r \in Rank, Running(r)
  PROVE  /\ Op(r).op = "copy" => (\E j \in Rank : Op(r).src = In(r, j)) \/ Op(r).src \in Location
         /\ Op(r).op = "sum" => \A l \in Op(r).parts : (\E j \in Rank : l = In(r, j)) \/ l \in Location
  <1> DEFINE c == plan[epoch[r]]
             i == pc[r]
  <1>0. /\ c \in AnyKind /\ i \in DOMAIN Program[c][r] /\ Op(r) = Program[c][r][i]
    BY AtOperation
  <1> HIDE DEF c, i
  <1>1. ASSUME Op(r).op = "copy"
        PROVE  (\E j \in Rank : Op(r).src = In(r, j)) \/ Op(r).src \in Location
    <2>1. CASE \E q \in Rank \ {r}, k \in 0 .. Steps - 1 :
                 Program[c][r][i].dst = Slot(q, k) /\ <<r, i>> \in Copies[c][q][k]
      <3>1. PICK q \in Rank \ {r}, k \in 0 .. Steps - 1 : <<r, i>> \in Copies[c][q][k]
        BY <2>1
      <3> DEFINE j == SlotShard(c, q, k)
      <3>2. j \in Rank /\ (Program[c][r][i].src = In(r, j) \/ Program[c][r][i].src = Out(r, j))
        BY <1>0, <3>1, SlotValue
      <3> QED
        BY <1>0, <3>2 DEF Location
    <2>2. CASE \E k \in 0 .. Steps - 1 :
                 /\ SlotShard(c, r, k) \in Rank
                 /\ Program[c][r][i] = Copy(Out(r, SlotShard(c, r, k)), Slot(r, k))
      BY <1>0, <2>2 DEF Copy, Location
    <2> QED
      BY <1>0, <1>1, <2>1, <2>2, CopyForms
  <1>2. ASSUME Op(r).op = "sum", NEW l \in Op(r).parts
        PROVE  (\E j \in Rank : l = In(r, j)) \/ l \in Location
    <2>1. Program[c][r][i].op = "sum"
      BY <1>0, <1>2
    <2>2. PICK j \in Rank, K \in SUBSET (0 .. Steps - 1) : IsSum(c, r, i, j, K)
      BY <1>0, <2>1, SumForms
    <2> QED
      BY <1>0, <1>2, <2>2 DEF IsSum, Sum, Location
  <1> QED
    BY <1>1, <1>2

(* What a copy and a sum write is contributions. *)
LEMMA WrittenType ==
  ASSUME TypeOK, NEW r \in Rank
  PROVE  /\ Executing(r, "copy") => Op(r).dst \in Location /\ Read(Op(r).src) \subseteq Contribution
         /\ Executing(r, "sum") => /\ Op(r).dst \in Location
                                   /\ UNION {Read(l) : l \in Op(r).parts} \subseteq Contribution
  <1>1. Running(r) => Op(r) \in Operation /\ epoch[r] \in Call
    BY AtOperation
  <1>2. ASSUME Executing(r, "copy")
        PROVE  Op(r).dst \in Location /\ Read(Op(r).src) \subseteq Contribution
    <2>1. Running(r) /\ Op(r).op = "copy"
      BY <1>2 DEF Executing
    <2>2. (\E j \in Rank : Op(r).src = In(r, j)) \/ Op(r).src \in Location
      BY <2>1, WrittenFrom
    <2> QED
      BY <1>1, <2>1, <2>2, OperationForms, ReadType
  <1>3. ASSUME Executing(r, "sum")
        PROVE  Op(r).dst \in Location /\ UNION {Read(l) : l \in Op(r).parts} \subseteq Contribution
    <2>1. Running(r) /\ Op(r).op = "sum"
      BY <1>3 DEF Executing
    <2>2. \A l \in Op(r).parts : (\E j \in Rank : l = In(r, j)) \/ l \in Location
      BY <2>1, WrittenFrom
    <2>3. \A l \in Op(r).parts : Read(l) \subseteq Contribution
      BY <1>1, <2>1, <2>2, ReadType
    <2> QED
      BY <1>1, <2>1, <2>3, OperationForms
  <1> QED
    BY <1>2, <1>3

LEMMA TypeInit == Init => TypeOK
  <1> SUFFICES ASSUME Init PROVE TypeOK
    OBVIOUS
  <1>1. setup \in [Rank -> DOMAIN Stage]
    BY DEF Init, Stage
  <1>2. flags \in [Rank -> [Flag -> 0 .. MaxCalls]]
    BY CeRingAssumption DEF Init
  <1>3. epoch \in [Rank -> 0 .. MaxCalls] /\ pc \in [Rank -> Nat]
    BY CeRingAssumption DEF Init
  <1>4. \A r \in Rank : ~Running(r)
    BY DEF Init, Running
  <1>5. timeouts \in 0 .. MaxTimeouts
    BY CeRingAssumption DEF Init
  <1> QED
    BY <1>1, <1>2, <1>3, <1>4, <1>5 DEF Init, TypeOK

(* The constructor's steps change its variables and the cleared flags.      *)
LEMMA ConstructType ==
  ASSUME TypeOK, NEW r \in Rank, Construct(r)
  PROVE  TypeOK'
  <1>0. setup \in [Rank -> DOMAIN Stage] /\ setup[r] \in DOMAIN Stage /\ DOMAIN Stage = 1 .. 9
    BY DEF TypeOK, Stage
  <1>s. /\ Building(r, {"allocate scratch", "allocate flags"}) => setup[r] < 9
        /\ Building(r, {"open scratch", "open flags"}) => setup[r] < 9
        /\ Building(r, {"agree scratch", "agree flags"}) => setup[r] < 9
        /\ Building(r, {"clear"}) => setup[r] < 9
        /\ Building(r, {"barrier"}) => setup[r] < 9
    <2>1. setup[r] \in DOMAIN Stage
      BY <1>0
    <2>2. /\ Building(r, {"allocate scratch", "allocate flags"}) => setup[r] \in {1, 4}
          /\ Building(r, {"open scratch", "open flags"}) => setup[r] \in {2, 5}
          /\ Building(r, {"agree scratch", "agree flags"}) => setup[r] \in {3, 6}
          /\ Building(r, {"clear"}) => setup[r] = 7
          /\ Building(r, {"barrier"}) => setup[r] = 8
      BY <2>1, StageNumbers
    <2>3. 1 < 9 /\ 2 < 9 /\ 3 < 9 /\ 4 < 9 /\ 5 < 9 /\ 6 < 9 /\ 7 < 9 /\ 8 < 9
      OBVIOUS
    <2> QED
      BY <2>2, <2>3, Zenon
  <1>1. BufferOf(setup[r]) \in {"scratch", "flags"}
    BY DEF BufferOf
  <1>2. /\ Running(r)' = Running(r)
        /\ \A q \in Rank : (Running(q)' <=> Running(q)) /\ Ops(q)' = Ops(q)
    BY DEF Construct, Running, Ops
  <1>3. /\ setup' \in [Rank -> DOMAIN Stage]
        /\ refused' \cup owned' \subseteq {"scratch", "flags"} \X Rank
        /\ absent' \subseteq Rank
        /\ flags' \in [Rank -> [Flag -> 0 .. MaxCalls]]
    <2>0. /\ refused \cup owned \subseteq {"scratch", "flags"} \X Rank
          /\ absent \subseteq Rank
          /\ flags \in [Rank -> [Flag -> 0 .. MaxCalls]]
      BY DEF TypeOK
    <2>n. setup[r] < 9 /\ NextStage(r) => setup' \in [Rank -> DOMAIN Stage]
      BY <1>0 DEF NextStage
    <2>1. CASE Allocate(r)
      <3>b. Building(r, {"allocate scratch", "allocate flags"})
        BY <2>1 DEF Allocate
      <3>1. setup[r] < 9
        BY <1>s, <3>b
      <3>2. NextStage(r) /\ owned' = owned \cup {<<BufferOf(setup[r]), r>>} /\ UNCHANGED <<refused, absent, flags>>
        BY <2>1 DEF Allocate
      <3> QED
        BY <1>1, <2>0, <2>n, <3>1, <3>2
    <2>2. CASE Open(r)
      <3>b. Building(r, {"open scratch", "open flags"})
        BY <2>2 DEF Open
      <3>1. setup[r] < 9
        BY <1>s, <3>b
      <3>2. /\ NextStage(r) /\ UNCHANGED <<owned, absent, flags>>
            /\ refused' \in {refused, refused \cup {<<BufferOf(setup[r]), r>>}}
        BY <2>2 DEF Open
      <3> QED
        BY <1>1, <2>0, <2>n, <3>1, <3>2
    <2>3. CASE Agree(r)
      <3>b. Building(r, {"agree scratch", "agree flags"})
        BY <2>3 DEF Agree
      <3>1. setup[r] < 9
        BY <1>s, <3>b
      <3>2. CASE AllOpened(r)
        BY <1>0, <2>0, <2>3, <2>n, <3>1, <3>2 DEF Agree
      <3>3. CASE ~AllOpened(r)
        BY <1>0, <2>0, <2>3, <3>3 DEF Agree
      <3> QED
        BY <3>2, <3>3
    <2>4. CASE Clear(r)
      <3>b. Building(r, {"clear"})
        BY <2>4 DEF Clear
      <3>1. setup[r] < 9
        BY <1>s, <3>b
      <3>2. flags' = [flags EXCEPT ![r] = [f \in DOMAIN flags[r] |-> 0]]
        BY <2>4 DEF Clear
      <3>3. DOMAIN flags[r] = Flag /\ 0 \in 0 .. MaxCalls
        BY <2>0, CeRingAssumption
      <3>4. flags' \in [Rank -> [Flag -> 0 .. MaxCalls]]
        BY <2>0, <3>2, <3>3
      <3> QED
        BY <2>0, <2>4, <2>n, <3>1, <3>4 DEF Clear
    <2>5. CASE Meet(r)
      <3>b. Building(r, {"barrier"})
        BY <2>5 DEF Meet
      <3>1. setup[r] < 9
        BY <1>s, <3>b
      <3> QED
        BY <2>0, <2>5, <2>n, <3>1 DEF Meet
    <2> QED
      BY <2>1, <2>2, <2>3, <2>4, <2>5 DEF Construct
  <1>4. UNCHANGED <<plan, epoch, pc, mem, error, timeouts, shown, failed>>
    BY DEF Construct
  <1> QED
    BY <1>2, <1>3, <1>4 DEF TypeOK

LEMMA TypeStep == TypeOK /\ [Next]_vars => TypeOK'
  <1> SUFFICES ASSUME TypeOK, [Next]_vars PROVE TypeOK'
    OBVIOUS
  <1>1. ASSUME UNCHANGED vars PROVE TypeOK'
    BY <1>1 DEF TypeOK, vars, setupVars, Running, Ops
  <1>2. ASSUME NEW r \in Rank, Run(r) PROVE TypeOK'
    <2>1. /\ epoch[r] < MaxCalls /\ epoch' = [epoch EXCEPT ![r] = @ + 1]
          /\ pc' = [pc EXCEPT ![r] = 1] /\ ~Running(r)
          /\ mem' = [l \in Location |-> IF l[1] = "out" /\ l[2] = r THEN {} ELSE mem[l]]
          /\ shown' = shown \ {r}
          /\ UNCHANGED <<setup, refused, owned, absent, plan, flags, error, timeouts, failed>>
      BY <1>2 DEF Run, setupVars
    <2>2. /\ epoch \in [Rank -> 0 .. MaxCalls] /\ pc \in [Rank -> Nat] /\ MaxCalls \in Nat
          /\ mem \in [Location -> SUBSET Contribution]
      BY CeRingAssumption DEF TypeOK
    <2>3. epoch' \in [Rank -> 0 .. MaxCalls] /\ pc' \in [Rank -> Nat] /\ epoch'[r] > 0 /\ epoch'[r] \in Call
      BY <2>1, <2>2 DEF Call
    <2>4. mem' \in [Location -> SUBSET Contribution]
      BY <2>1, <2>2
    <2>5. ASSUME NEW q \in Rank, Running(q)' PROVE epoch'[q] > 0 /\ pc'[q] \in 1 .. Len(Ops(q)')
      <3>1. CASE q = r
        <4>1. plan[epoch'[r]] \in AnyKind /\ pc'[q] = 1
          BY <2>1, <2>2, <2>3, <3>1, PlanType
        <4>2. Ops(q)' = Program[plan[epoch'[r]]][r]
          BY <2>1, <3>1 DEF Ops
        <4> QED
          BY <2>3, <3>1, <4>1, <4>2, ProgramType
      <3>2. CASE q # r
        <4>1. epoch'[q] = epoch[q] /\ pc'[q] = pc[q] /\ plan' = plan
          BY <2>1, <2>2, <3>2
        <4>2. Ops(q)' = Ops(q) /\ Running(q)
          BY <2>5, <4>1 DEF Ops, Running
        <4> QED
          BY <4>1, <4>2 DEF TypeOK
      <3> QED
        BY <3>1, <3>2
    <2>6. shown' \subseteq {q \in Rank : epoch'[q] > 0 /\ ~Running(q)'}
      <3>1. \A q \in Rank \ {r} : epoch'[q] = epoch[q] /\ (Running(q)' <=> Running(q))
        BY <2>1, <2>2 DEF Running
      <3> QED
        BY <2>1, <3>1 DEF TypeOK
    <2> QED
      BY <2>1, <2>3, <2>4, <2>5, <2>6 DEF TypeOK
  <1>3. ASSUME NEW r \in Rank, Running(r), StepOn(r), UNCHANGED <<setupVars, plan, epoch, shown, failed>>,
               flags' \in [Rank -> [Flag -> 0 .. MaxCalls]],
               mem' \in [Location -> SUBSET Contribution],
               error' \in {error, error \cup {r}}, timeouts' \in 0 .. MaxTimeouts
        PROVE  TypeOK'
    <2>1. /\ pc' \in [Rank -> Nat]
          /\ \A q \in Rank : (Running(q) => epoch[q] > 0 /\ pc[q] \in 1 .. Len(Ops(q)))'
          /\ \A q \in Rank \ {r} : (Running(q)' <=> Running(q))
      BY <1>3, CounterType
    <2>2. shown' \subseteq {q \in Rank : epoch'[q] > 0 /\ ~Running(q)'}
      BY <1>3, <2>1 DEF TypeOK
    <2> QED
      BY <1>3, <2>1, <2>2 DEF TypeOK, setupVars
  <1>4. ASSUME NEW r \in Rank, Signal(r) PROVE TypeOK'
    <2>1. Op(r).rank \in Rank /\ Op(r).flag \in Flag /\ epoch[r] \in 0 .. MaxCalls
      <3>1. Op(r) \in Operation /\ Op(r).op = "set"
        BY <1>4, AtOperation DEF Signal, Executing
      <3> QED
        BY <3>1, OperationForms DEF TypeOK
    <2>2. flags' \in [Rank -> [Flag -> 0 .. MaxCalls]]
      BY <1>4, <2>1 DEF Signal, TypeOK
    <2> QED
      BY <1>3, <1>4, <2>2 DEF Signal, Executing, TypeOK
  <1>5. ASSUME NEW r \in Rank, Wait(r) PROVE TypeOK'
    BY <1>3, <1>5 DEF Wait, Executing, TypeOK
  <1>6. ASSUME NEW r \in Rank, GiveUp(r) PROVE TypeOK'
    <2>1. timeouts' \in 0 .. MaxTimeouts
      BY <1>6, CeRingAssumption DEF GiveUp, TypeOK
    <2> QED
      BY <1>3, <1>6, <2>1 DEF GiveUp, Executing, TypeOK
  <1>7. ASSUME NEW r \in Rank, Move(r) PROVE TypeOK'
    <2>1. mem' \in [Location -> SUBSET Contribution]
      BY <1>7, WrittenType DEF Move, TypeOK
    <2> QED
      BY <1>3, <1>7, <2>1 DEF Move, Executing, TypeOK
  <1>8. ASSUME NEW r \in Rank, Add(r) PROVE TypeOK'
    <2>1. mem' \in [Location -> SUBSET Contribution]
      BY <1>8, WrittenType DEF Add, TypeOK
    <2> QED
      BY <1>3, <1>8, <2>1 DEF Add, Executing, TypeOK
  <1>9. ASSUME NEW r \in Rank, Synchronize(r) PROVE TypeOK'
    <2>1. /\ UNCHANGED <<setup, refused, owned, absent, plan, epoch, pc, flags, mem, error, timeouts>>
          /\ failed' \subseteq error
          /\ shown' \subseteq shown \cup {r} /\ epoch[r] > 0 /\ ~Running(r)
      BY <1>9 DEF Synchronize, setupVars, TypeOK
    <2>2. \A q \in Rank : (Running(q)' <=> Running(q)) /\ Ops(q)' = Ops(q)
      BY <2>1 DEF Running, Ops
    <2> QED
      BY <2>1, <2>2 DEF TypeOK
  <1> QED
    BY <1>1, <1>2, <1>4, <1>5, <1>6, <1>7, <1>8, <1>9, ConstructType DEF Next, Device

(* Every variable stays in its type: no flag beyond the calls there are, no *)
(* operation past a program's end, no result shown before a call has ended. *)
THEOREM TypeCorrect == Spec => []TypeOK
  <1> QED
    BY TypeInit, TypeStep, PTL DEF Spec

-----------------------------------------------------------------------------
(* The constructor. *)

(* A step of the constructor, by the number of the step: either r gives up *)
(* after a vote, or it goes on.                                            *)
GaveUp(r) ==
    /\ setup[r] \in {3, 6} /\ AllAt(setup[r]) /\ ~AllOpened(r)
    /\ owned' = {o \in owned : o[2] # r}
    /\ absent' = absent \cup {r}
    /\ UNCHANGED <<setup, refused, flags>>
WentOn(r) ==
    /\ setup[r] \in 1 .. 8 /\ setup' = [setup EXCEPT ![r] = setup[r] + 1]
    /\ r \notin absent /\ UNCHANGED absent
    /\ setup[r] \in {2, 3, 5, 6, 8} => AllAt(setup[r])
    /\ setup[r] \in {3, 6} => AllOpened(r)
    /\ refused \subseteq refused'
    /\ refused' # refused => /\ setup[r] \in {2, 5}
                             /\ refused' = refused \cup {<<BufferOf(setup[r]), r>>}
    /\ owned' \subseteq owned \cup {<<BufferOf(setup[r]), r>>}
    /\ setup[r] # 7 => UNCHANGED flags
    /\ setup[r] = 7 => flags' = [flags EXCEPT ![r] = [f \in Flag |-> 0]]

LEMMA ConstructForms ==
  ASSUME TypeOK, NEW r \in Rank, Construct(r)
  PROVE  GaveUp(r) \/ WentOn(r)
  <1>0. /\ setup \in [Rank -> 1 .. 9] /\ setup[r] \in DOMAIN Stage /\ r \notin absent
        /\ flags \in [Rank -> [Flag -> 0 .. MaxCalls]]
    <2>1. r \notin absent
      BY DEF Construct, Allocate, Open, Agree, Clear, Meet, Building
    <2>2. setup \in [Rank -> DOMAIN Stage] /\ DOMAIN Stage = 1 .. 9
      BY DEF TypeOK, Stage
    <2> QED
      BY <2>1, <2>2 DEF TypeOK
  <1>1. CASE Allocate(r)
    <2>1. setup[r] \in {1, 4}
      <3>1. Building(r, {"allocate scratch", "allocate flags"})
        BY <1>1 DEF Allocate
      <3> QED
        BY <1>0, <3>1, StageNumbers
    <2>2. /\ setup' = [setup EXCEPT ![r] = setup[r] + 1]
          /\ owned' = owned \cup {<<BufferOf(setup[r]), r>>} /\ UNCHANGED <<refused, absent, flags>>
      BY <1>1 DEF Allocate, NextStage
    <2> QED
      BY <1>0, <2>1, <2>2 DEF WentOn
  <1>2. CASE Open(r)
    <2>1. setup[r] \in {2, 5}
      <3>1. Building(r, {"open scratch", "open flags"})
        BY <1>2 DEF Open
      <3> QED
        BY <1>0, <3>1, StageNumbers
    <2>2. /\ setup' = [setup EXCEPT ![r] = setup[r] + 1] /\ AllAt(setup[r])
          /\ refused' \in {refused, refused \cup {<<BufferOf(setup[r]), r>>}}
          /\ UNCHANGED <<owned, absent, flags>>
      BY <1>2 DEF Open, NextStage
    <2> QED
      BY <1>0, <2>1, <2>2 DEF WentOn
  <1>3. CASE Agree(r)
    <2>1. setup[r] \in {3, 6}
      <3>1. Building(r, {"agree scratch", "agree flags"})
        BY <1>3 DEF Agree
      <3> QED
        BY <1>0, <3>1, StageNumbers
    <2>2. AllAt(setup[r]) /\ UNCHANGED <<refused, flags>>
      BY <1>3 DEF Agree
    <2>3. CASE AllOpened(r)
      <3>1. setup' = [setup EXCEPT ![r] = setup[r] + 1] /\ UNCHANGED <<owned, absent>>
        BY <1>3, <2>3 DEF Agree, NextStage
      <3> QED
        BY <1>0, <2>1, <2>2, <2>3, <3>1 DEF WentOn
    <2>4. CASE ~AllOpened(r)
      <3>1. owned' = {o \in owned : o[2] # r} /\ absent' = absent \cup {r} /\ UNCHANGED setup
        BY <1>3, <2>4 DEF Agree
      <3> QED
        BY <2>1, <2>2, <2>4, <3>1 DEF GaveUp
    <2> QED
      BY <2>3, <2>4
  <1>4. CASE Clear(r)
    <2>1. setup[r] = 7
      <3>1. Building(r, {"clear"})
        BY <1>4 DEF Clear
      <3> QED
        BY <1>0, <3>1, StageNumbers
    <2>2. /\ setup' = [setup EXCEPT ![r] = setup[r] + 1]
          /\ flags' = [flags EXCEPT ![r] = [f \in DOMAIN flags[r] |-> 0]]
          /\ UNCHANGED <<refused, owned, absent>>
      BY <1>4 DEF Clear, NextStage
    <2>3. DOMAIN flags[r] = Flag
      BY <1>0
    <2> QED
      BY <1>0, <2>1, <2>2, <2>3 DEF WentOn
  <1>5. CASE Meet(r)
    <2>1. setup[r] = 8
      <3>1. Building(r, {"barrier"})
        BY <1>5 DEF Meet
      <3> QED
        BY <1>0, <3>1, StageNumbers
    <2>2. /\ setup' = [setup EXCEPT ![r] = setup[r] + 1] /\ AllAt(setup[r])
          /\ UNCHANGED <<refused, owned, absent, flags>>
      BY <1>5 DEF Meet, NextStage
    <2> QED
      BY <1>0, <2>1, <2>2 DEF WentOn
  <1> QED
    BY <1>1, <1>2, <1>3, <1>4, <1>5 DEF Construct

LEMMA Buffers ==
  /\ BufferOf(2) = "scratch" /\ BufferOf(3) = "scratch" /\ BufferOf(5) = "flags" /\ BufferOf(6) = "flags"
  BY DEF BufferOf

LEMMA SetupConstruct ==
  ASSUME TypeOK, SetupOK, NEW r \in Rank, Construct(r)
  PROVE  SetupOK'
  <1>0. /\ setup \in [Rank -> 1 .. 9] /\ r \in DOMAIN setup
        /\ epoch' = epoch
    BY DEF TypeOK, Stage, Construct
  <1>1. CASE GaveUp(r)
    <2>1. /\ UNCHANGED <<setup, refused>> /\ \A n : AllAt(n)' <=> AllAt(n)
      BY <1>1 DEF GaveUp, AllAt
    <2>2. \A q \in Rank : AllOpened(q)' <=> AllOpened(q)
      BY <2>1 DEF AllOpened
    <2>3. \A s \in absent' : /\ setup'[s] \in {3, 6}
                             /\ AllAt(setup[s])'
                             /\ ~AllOpened(s)'
                             /\ \A o \in owned' : o[2] # s
      <3> SUFFICES ASSUME NEW s \in absent'
                   PROVE  /\ setup'[s] \in {3, 6}
                          /\ AllAt(setup[s])'
                          /\ ~AllOpened(s)'
                          /\ \A o \in owned' : o[2] # s
        OBVIOUS
      <3>1. /\ owned' = {o \in owned : o[2] # r} /\ absent' = absent \cup {r}
            /\ setup[r] \in {3, 6} /\ AllAt(setup[r]) /\ ~AllOpened(r)
        BY <1>1 DEF GaveUp
      <3>2. CASE s = r
        BY <1>0, <2>1, <2>2, <3>1, <3>2 DEF AllAt
      <3>3. CASE s # r
        <4>1. s \in absent /\ s \in Rank
          BY <3>1, <3>3 DEF TypeOK
        <4>2. setup[s] \in {3, 6} /\ AllAt(setup[s]) /\ ~AllOpened(s) /\ \A o \in owned : o[2] # s
          BY <4>1 DEF SetupOK
        <4> QED
          BY <2>1, <2>2, <3>1, <4>1, <4>2 DEF AllAt
      <3> QED
        BY <3>2, <3>3
    <2>4. \A q \in Rank : \A n \in {2, 3, 5, 6, 8} : setup'[q] > n => AllAt(n)'
      BY <2>1 DEF SetupOK
    <2> QED
      BY <1>0, <2>1, <2>3, <2>4 DEF SetupOK
  <1>2. CASE WentOn(r)
    <2>1. /\ setup[r] \in 1 .. 8 /\ setup' = [setup EXCEPT ![r] = setup[r] + 1]
          /\ r \notin absent /\ absent' = absent
          /\ setup[r] \in {2, 3, 5, 6, 8} => AllAt(setup[r])
          /\ setup[r] \in {3, 6} => AllOpened(r)
          /\ refused \subseteq refused'
          /\ refused' # refused => /\ setup[r] \in {2, 5}
                                   /\ refused' = refused \cup {<<BufferOf(setup[r]), r>>}
          /\ owned' \subseteq owned \cup {<<BufferOf(setup[r]), r>>}
      BY <1>2 DEF WentOn
    <2>2. /\ \A q \in Rank : setup[q] \in 1 .. 9 /\ setup'[q] \in 1 .. 9 /\ setup'[q] >= setup[q]
          /\ setup'[r] = setup[r] + 1
          /\ \A q \in Rank : q # r => setup'[q] = setup[q]
      BY <1>0, <2>1
    <2>3. \A n \in 1 .. 9 : AllAt(n) => AllAt(n)'
      BY <2>2 DEF AllAt
    <2>4. \A q \in Rank : \A n \in {2, 3, 5, 6, 8} : setup'[q] > n => AllAt(n)'
      <3> SUFFICES ASSUME NEW q \in Rank, NEW n \in {2, 3, 5, 6, 8}, setup'[q] > n PROVE AllAt(n)'
        OBVIOUS
      <3>1. CASE setup[q] > n
        BY <2>3, <3>1 DEF SetupOK
      <3>2. CASE ~(setup[q] > n)
        <4>1. q = r /\ setup[r] = n
          BY <2>2, <3>2
        <4> QED
          BY <2>1, <2>3, <4>1
      <3> QED
        BY <3>1, <3>2
    <2>5. \A q, p \in Rank : /\ setup'[q] > 3 => <<"scratch", p>> \notin refused'
                             /\ setup'[q] > 6 => <<"flags", p>> \notin refused'
      <3> SUFFICES ASSUME NEW q \in Rank, NEW p \in Rank
                   PROVE  /\ setup'[q] > 3 => <<"scratch", p>> \notin refused'
                          /\ setup'[q] > 6 => <<"flags", p>> \notin refused'
        OBVIOUS
      <3>1. /\ setup'[q] > 3 => <<"scratch", p>> \notin refused
            /\ setup'[q] > 6 => <<"flags", p>> \notin refused
        <4>1. CASE q = r /\ setup[r] \in {3, 6}
          <5>1. <<BufferOf(setup[r]), p>> \notin refused
            BY <2>1, <4>1 DEF AllOpened
          <5>2. /\ setup[q] > 3 => <<"scratch", p>> \notin refused
                /\ setup[q] > 6 => <<"flags", p>> \notin refused
            BY DEF SetupOK
          <5>3. CASE setup[r] = 3
            BY <2>2, <4>1, <5>1, <5>3, Buffers
          <5>4. CASE setup[r] = 6
            BY <2>2, <4>1, <5>1, <5>2, <5>4, Buffers
          <5> QED
            BY <4>1, <5>3, <5>4
        <4>2. CASE ~(q = r /\ setup[r] \in {3, 6})
          <5>1. (setup'[q] > 3 => setup[q] > 3) /\ (setup'[q] > 6 => setup[q] > 6)
            BY <2>2, <4>2
          <5> QED
            BY <5>1 DEF SetupOK
        <4> QED
          BY <4>1, <4>2
      <3>2. CASE refused' = refused
        BY <3>1, <3>2
      <3>3. CASE refused' # refused
        <4>1. setup[r] \in {2, 5} /\ refused' = refused \cup {<<BufferOf(setup[r]), r>>}
          BY <2>1, <3>3
        <4>2. CASE setup[r] = 2
          <5>1. ~(setup'[q] > 3) /\ ~(setup'[q] > 6)
            <6>1. ~(setup[q] > 3) /\ ~(setup[q] > 6)
              BY <2>2, <4>2 DEF SetupOK, AllAt
            <6> QED
              BY <2>2, <4>2, <6>1
          <5> QED
            BY <5>1
        <4>3. CASE setup[r] = 5
          <5>1. ~(setup'[q] > 6)
            <6>1. ~(setup[q] > 6)
              BY <2>2, <4>3 DEF SetupOK, AllAt
            <6> QED
              BY <2>2, <4>3, <6>1
          <5>2. refused' = refused \cup {<<"flags", r>>}
            BY <4>1, <4>3, Buffers
          <5>3. <<"scratch", p>> # <<"flags", r>>
            OBVIOUS
          <5> QED
            BY <3>1, <5>1, <5>2, <5>3
        <4> QED
          BY <4>1, <4>2, <4>3
      <3> QED
        BY <3>2, <3>3
    <2>6. \A s \in absent' : /\ setup'[s] \in {3, 6}
                             /\ AllAt(setup[s])'
                             /\ ~AllOpened(s)'
                             /\ \A o \in owned' : o[2] # s
      <3> SUFFICES ASSUME NEW s \in absent'
                   PROVE  /\ setup'[s] \in {3, 6}
                          /\ AllAt(setup[s])'
                          /\ ~AllOpened(s)'
                          /\ \A o \in owned' : o[2] # s
        OBVIOUS
      <3>1. s \in absent /\ s \in Rank /\ s # r
        BY <2>1 DEF TypeOK
      <3>2. setup[s] \in {3, 6} /\ AllAt(setup[s]) /\ ~AllOpened(s) /\ \A o \in owned : o[2] # s
        BY <3>1 DEF SetupOK
      <3>3. setup'[s] = setup[s]
        BY <2>2, <3>1
      <3>4. AllAt(setup[s])'
        BY <2>2, <3>2, <3>3 DEF AllAt
      <3>5. ~AllOpened(s)'
        BY <2>1, <3>2, <3>3 DEF AllOpened
      <3>6. \A o \in owned' : o[2] # s
        BY <2>1, <3>1, <3>2
      <3> QED
        BY <3>2, <3>3, <3>4, <3>5, <3>6
    <2>7. \A q \in Rank : epoch'[q] > 0 => setup'[q] = 9
      <3>1. \A q \in Rank : epoch[q] > 0 => setup[q] = 9
        BY DEF SetupOK
      <3> QED
        BY <1>0, <2>1, <2>2, <3>1
    <2> QED
      BY <2>4, <2>5, <2>6, <2>7 DEF SetupOK
  <1> QED
    BY <1>1, <1>2, ConstructForms

LEMMA SetupInit == Init => SetupOK
  BY DEF Init, SetupOK, AllAt

LEMMA SetupSame ==
  ASSUME SetupOK, UNCHANGED <<setup, refused, owned, absent, epoch>>
  PROVE  SetupOK'
  BY DEF SetupOK, AllAt, AllOpened

LEMMA SetupStep == TypeOK /\ SetupOK /\ [Next]_vars => SetupOK'
  <1> SUFFICES ASSUME TypeOK, SetupOK, [Next]_vars PROVE SetupOK'
    OBVIOUS
  <1>1. ASSUME UNCHANGED vars PROVE SetupOK'
    BY <1>1, SetupSame DEF vars, setupVars
  <1>2. ASSUME NEW r \in Rank, Run(r) PROVE SetupOK'
    <2>1. /\ IsReady(r) /\ epoch' = [epoch EXCEPT ![r] = @ + 1]
          /\ UNCHANGED <<setup, refused, owned, absent>>
      BY <1>2 DEF Run, setupVars
    <2>2. setup[r] = 9
      <3>1. setup[r] \in DOMAIN Stage
        BY DEF TypeOK
      <3> QED
        BY <2>1, <3>1, StageNumbers
    <2>3. \A q \in Rank : epoch'[q] > 0 => setup'[q] = 9
      BY <2>1, <2>2 DEF SetupOK, TypeOK
    <2> QED
      BY <2>1, <2>3 DEF SetupOK, AllAt, AllOpened
  <1>3. ASSUME NEW r \in Rank, Device(r) \/ GiveUp(r) \/ Synchronize(r) PROVE SetupOK'
    BY <1>3, SetupSame DEF Device, Signal, Wait, Move, Add, GiveUp, Synchronize, setupVars
  <1> QED
    BY <1>1, <1>2, <1>3, SetupConstruct DEF Next

LEMMA SetupEnds == TypeOK /\ SetupOK => SharedTogether
  <1> SUFFICES ASSUME TypeOK, SetupOK, NEW r \in absent
               PROVE  /\ \A q \in Rank : setup[q] <= setup[r]
                      /\ \A o \in owned : o[2] # r
    BY DEF SharedTogether
  <1>1. setup[r] \in {3, 6} /\ ~AllOpened(r) /\ \A o \in owned : o[2] # r
    BY DEF SetupOK
  <1>2. PICK p \in Rank : <<BufferOf(setup[r]), p>> \in refused
    BY <1>1 DEF AllOpened
  <1>3. ASSUME NEW q \in Rank PROVE setup[q] <= setup[r]
    <2>1. setup[q] \in 1 .. 9 /\ setup[r] \in 1 .. 9
      BY DEF TypeOK, Stage
    <2>2. ~(setup[q] > setup[r])
      <3>1. CASE setup[r] = 3
        <4>1. <<"scratch", p>> \in refused
          BY <1>2, <3>1, Buffers
        <4> QED
          BY <3>1, <4>1 DEF SetupOK
      <3>2. CASE setup[r] = 6
        <4>1. <<"flags", p>> \in refused
          BY <1>2, <3>2, Buffers
        <4> QED
          BY <3>2, <4>1 DEF SetupOK
      <3> QED
        BY <1>1, <3>1, <3>2
    <2> QED
      BY <2>1, <2>2
  <1> QED
    BY <1>1, <1>3

(* Where one rank gives the ring up no rank goes on, and it keeps nothing.  *)
THEOREM SetupIsCommon == Spec => []SharedTogether
  <1>1. TypeOK /\ SetupOK /\ [Next]_vars => TypeOK' /\ SetupOK'
    BY TypeStep, SetupStep
  <1> QED
    BY TypeInit, SetupInit, <1>1, SetupEnds, PTL DEF Spec

-----------------------------------------------------------------------------
(* What has been executed. *)

(* A rank has executed an operation only if it has executed those before it *)
(* and all of the earlier calls; not the one it is at.                      *)
LEMMA DidBefore ==
  ASSUME TypeOK, NEW r \in Rank, NEW n \in Call, NEW i \in Nat, Did(r, n, i)
  PROVE  /\ epoch[r] >= n
         /\ \A h \in Nat : h < i => Did(r, n, h)
         /\ \A m \in Call : m < n => \A h \in Nat : Did(r, m, h)
  <1>1. epoch[r] \in Nat /\ pc[r] \in Nat /\ n \in Nat /\ Call \subseteq Nat
    BY CeRingAssumption DEF TypeOK, Call
  <1> QED
    BY <1>1 DEF Did

LEMMA DidPast ==
  ASSUME TypeOK, NEW r \in Rank, NEW n \in Call, epoch[r] > n
  PROVE  \A i \in Nat : Did(r, n, i)
  BY DEF Did

LEMMA DidHere ==
  ASSUME TypeOK, NEW r \in Rank, Running(r)
  PROVE  /\ \A i \in Nat : Did(r, epoch[r], i) <=> i < pc[r]
         /\ \A n \in Call : n > epoch[r] => \A i \in Nat : ~Did(r, n, i)
  <1>1. epoch[r] \in Nat /\ pc[r] \in Nat /\ Call \subseteq Nat
    BY CeRingAssumption DEF TypeOK, Call
  <1> QED
    BY <1>1 DEF Did

(* The indices of a program are positive.                                   *)
LEMMA IndexType ==
  ASSUME TypeOK, NEW n \in Call, NEW r \in Rank
  PROVE  /\ plan[n] \in AnyKind
         /\ \A i \in DOMAIN Program[plan[n]][r] : i \in Nat /\ i >= 1 /\ i <= Len(Program[plan[n]][r])
         /\ Len(Program[plan[n]][r]) \in Nat
  <1>1. plan[n] \in AnyKind
    BY PlanType
  <1> QED
    BY <1>1, ProgramType

(* To begin a call executes nothing.                                        *)
LEMMA DidRun ==
  ASSUME TypeOK, NEW r \in Rank, Run(r),
         NEW q \in Rank, NEW n \in Call, NEW i \in Nat, i >= 1
  PROVE  Did(q, n, i)' <=> Did(q, n, i)
  <1>1. /\ epoch \in [Rank -> Nat] /\ pc \in [Rank -> Nat] /\ n \in Nat
    BY CeRingAssumption DEF TypeOK, Call
  <1>2. epoch' = [epoch EXCEPT ![r] = @ + 1] /\ pc' = [pc EXCEPT ![r] = 1] /\ ~Running(r)
    BY DEF Run
  <1>3. CASE q = r
    <2>1. epoch'[q] = epoch[q] + 1 /\ pc'[q] = 1 /\ pc[q] = 0
      BY <1>1, <1>2, <1>3 DEF Running
    <2> QED
      BY <1>1, <2>1 DEF Did, Running
  <1>4. CASE q # r
    <2>1. epoch'[q] = epoch[q] /\ pc'[q] = pc[q]
      BY <1>1, <1>2, <1>4
    <2> QED
      BY <2>1 DEF Did, Running
  <1> QED
    BY <1>3, <1>4

(* An operation executes itself and nothing else.                           *)
LEMMA DidOn ==
  ASSUME TypeOK, NEW r \in Rank, Running(r), StepOn(r), UNCHANGED <<plan, epoch>>,
         NEW q \in Rank, NEW n \in Call, NEW i \in DOMAIN Program[plan[n]][q]
  PROVE  Did(q, n, i)' <=> Did(q, n, i) \/ (q = r /\ n = epoch[r] /\ i = pc[r])
  <1>1. /\ epoch[q] \in Nat /\ pc[q] \in Nat /\ n \in Nat /\ i \in Nat /\ i >= 1
        /\ i <= Len(Program[plan[n]][q])
    BY CeRingAssumption, IndexType DEF TypeOK, Call
  <1>2. /\ \A p \in Rank \ {r} : pc'[p] = pc[p]
        /\ pc'[r] = IF pc[r] = Len(Ops(r)) THEN 0 ELSE pc[r] + 1
        /\ epoch' = epoch
    BY CounterType
  <1>3. CASE q = r
    <2>1. CASE n = epoch[r]
      <3>1. Ops(r) = Program[plan[n]][q] /\ pc[r] \in 1 .. Len(Ops(r)) /\ Len(Ops(r)) \in Nat
        BY <1>3, <2>1, AtOperation
      <3> QED
        BY <1>1, <1>2, <1>3, <2>1, <3>1 DEF Did, Running
    <2>2. CASE n # epoch[r]
      BY <1>1, <1>2, <1>3, <2>2 DEF Did
    <2> QED
      BY <2>1, <2>2
  <1>4. CASE q # r
    BY <1>2, <1>4 DEF Did, Running
  <1> QED
    BY <1>3, <1>4

(* A step of an operation.                                                  *)
LEMMA DeviceForms ==
  ASSUME NEW r \in Rank, Device(r)
  PROVE  /\ Running(r) /\ StepOn(r) /\ UNCHANGED <<setup, refused, owned, absent, plan, epoch, error>>
         /\ Op(r).op = "set" \/ Op(r).op = "wait" \/ Op(r).op = "copy" \/ Op(r).op = "sum"
         /\ Op(r).op = "set" => Signal(r)
         /\ Op(r).op = "wait" => Wait(r)
         /\ Op(r).op = "copy" => Move(r)
         /\ Op(r).op = "sum" => Add(r)
         /\ Op(r).op # "set" => UNCHANGED flags
         /\ Op(r).op \notin {"copy", "sum"} => UNCHANGED mem
  BY DEF Device, Signal, Wait, Move, Add, Executing, setupVars

-----------------------------------------------------------------------------
(* The gates: what a rank has executed tells how far another one is. *)

LEMMA WaitMet ==
  ASSUME TypeOK, WaitsOK, NEW q \in Rank, NEW n \in Call, NEW i \in DOMAIN Program[plan[n]][q],
         Program[plan[n]][q][i].op = "wait", Did(q, n, i)
  PROVE  \E s \in Signals[plan[n]][q][Program[plan[n]][q][i].flag] : Did(s[1], n, s[2])
  BY DEF WaitsOK, Opcode

(* Before a rank copies into a slot for a call, the slot's owner has begun  *)
(* that call.                                                               *)
LEMMA GateBeforeCopy ==
  ASSUME TypeOK, WaitsOK, NEW n \in Call, NEW q \in Rank, NEW k \in 0 .. Steps - 1,
         NEW s \in Copies[plan[n]][q][k],
         \A h \in Nat : h < s[2] => Did(s[1], n, h)
  PROVE  epoch[q] >= n
  <1> DEFINE c == plan[n]
             p == s[1]
  <1>1. c \in AnyKind
    BY PlanType
  <1>2. p \in Rank /\ s[2] \in DOMAIN Program[c][p]
    BY <1>1, CopyIs
  <1>3. PICK i \in DOMAIN Program[c][p] :
               /\ i < s[2]
               /\ Program[c][p][i].op = "wait"
               /\ \A t \in Signals[c][p][Program[c][p][i].flag] : t[1] = q
    BY <1>1, Gated
  <1>4. Did(p, n, i)
    BY <1>2, <1>3, IndexType
  <1>5. PICK t \in Signals[c][p][Program[c][p][i].flag] : Did(t[1], n, t[2])
    BY <1>2, <1>3, <1>4, WaitMet
  <1>6. t[1] = q /\ Did(q, n, t[2])
    BY <1>3, <1>5
  <1>7. t[2] \in Nat
    <2>1. Program[c][p][i].flag \in Flag
      BY <1>1, <1>2, <1>3, WaitFlags
    <2>2. t[2] \in DOMAIN Program[c][t[1]]
      BY <1>1, <1>2, <2>1, SignalIs
    <2> QED
      BY <1>6, <2>2, IndexType
  <1> QED
    BY <1>6, <1>7, DidBefore

(* A slot that was announced was copied into, for a call its owner began.   *)
LEMMA Announced ==
  ASSUME TypeOK, WaitsOK, NEW n \in Call, NEW q \in Rank, NEW k \in 0 .. Steps - 1,
         NEW s \in Signals[plan[n]][q][k], Did(s[1], n, s[2])
  PROVE  /\ epoch[q] >= n
         /\ \E t \in Copies[plan[n]][q][k] : Did(t[1], n, t[2])
  <1> DEFINE c == plan[n]
             t == <<s[1], s[2] - 1>>
  <1>1. c \in AnyKind /\ k \in Flag
    BY PlanType, WType DEF Flag
  <1>2. s[1] \in Rank /\ s[2] \in DOMAIN Program[c][s[1]] /\ s[2] \in Nat
    BY <1>1, SignalIs, IndexType
  <1>3. t \in Copies[c][q][k]
    BY <1>1, CopyThenSignal
  <1>4. \A h \in Nat : h < s[2] => Did(s[1], n, h)
    BY <1>2, DidBefore
  <1>5. t[1] = s[1] /\ t[2] = s[2] - 1 /\ t[2] \in Nat /\ t[2] < s[2]
    <2>1. t[2] \in DOMAIN Program[c][s[1]]
      BY <1>1, <1>3, CopyIs
    <2> QED
      BY <1>2, <2>1, IndexType
  <1>6. Did(t[1], n, t[2])
    BY <1>4, <1>5
  <1>7. \A h \in Nat : h < t[2] => Did(t[1], n, h)
    BY <1>2, <1>4, <1>5
  <1> HIDE DEF t, c
  <1>8. epoch[q] >= n
    BY <1>3, <1>7, GateBeforeCopy DEF c
  <1> QED
    BY <1>3, <1>6, <1>8 DEF c

(* The flag of a slot is at most its owner's epoch.                         *)
LEMMA SlotFlagBounded ==
  ASSUME TypeOK, FlagsOK, WaitsOK, NEW q \in Rank, setup[q] >= 8,
         NEW k \in 0 .. Steps - 1, flags[q][k] > 0
  PROVE  flags[q][k] <= epoch[q]
  <1>1. k \in Flag
    BY WType DEF Flag
  <1>2. flags[q][k] \in Call /\ flags[q][k] \in Nat /\ epoch[q] \in Nat
    BY <1>1, CeRingAssumption DEF TypeOK, Call
  <1> DEFINE v == flags[q][k]
  <1>3. PICK s \in Signals[plan[v]][q][k] : Did(s[1], v, s[2])
    BY <1>1 DEF FlagsOK
  <1> HIDE DEF v
  <1>4. v \in Call
    BY <1>2 DEF v
  <1>5. epoch[q] >= v
    BY <1>3, <1>4, Announced
  <1> QED
    BY <1>2, <1>5 DEF v

(* A rank that copies into a slot is in the owner's call, and nobody has    *)
(* copied there in that call.                                               *)
LEMMA AtCopy ==
  ASSUME TypeOK, WaitsOK, NEW r \in Rank, Running(r), NEW q \in Rank, NEW k \in 0 .. Steps - 1,
         <<r, pc[r]>> \in Copies[plan[epoch[r]]][q][k]
  PROVE  /\ epoch[q] = epoch[r]
         /\ \A s \in Copies[plan[epoch[r]]][q][k] : ~Did(s[1], epoch[r], s[2])
  <1> DEFINE n == epoch[r]
             c == plan[n]
  <1>1. n \in Call /\ c \in AnyKind /\ pc[r] \in DOMAIN Program[c][r] /\ pc[r] \in Nat /\ k \in Flag
    BY AtOperation, WType DEF Flag
  <1>2. <<r, pc[r] + 1>> \in Signals[c][q][k]
    BY <1>1, CopyThenSignal
  <1>3. ~Did(r, n, pc[r]) /\ ~Did(r, n, pc[r] + 1) /\ \A h \in Nat : h < pc[r] => Did(r, n, h)
    BY <1>1, DidHere
  <1>4. \A s \in Signals[c][q][k] : ~Did(s[1], n, s[2])
    <2>1. \A s \in Signals[c][q][k] : s = <<r, pc[r] + 1>>
      BY <1>1, <1>2, SignalUnique
    <2> QED
      BY <1>3, <2>1
  <1>5. \A s \in Copies[c][q][k] : ~Did(s[1], n, s[2])
    <2> SUFFICES ASSUME NEW s \in Copies[c][q][k] PROVE ~Did(s[1], n, s[2])
      OBVIOUS
    <2>1. <<s[1], s[2] + 1>> \in Signals[c][q][k]
      BY <1>1, CopyThenSignal
    <2>2. <<s[1], s[2] + 1>> = <<r, pc[r] + 1>>
      BY <1>1, <1>2, <2>1, SignalUnique
    <2>3. s[2] \in Nat /\ s[1] \in Rank
      BY <1>1, CopyIs, IndexType
    <2>4. s[1] = r /\ s[2] = pc[r]
      BY <1>1, <2>2, <2>3
    <2> QED
      BY <1>3, <2>4
  <1>6. epoch[q] >= n
    BY <1>1, <1>3, GateBeforeCopy
  <1>7. ~(epoch[q] > n)
    <2> SUFFICES ASSUME epoch[q] > n PROVE FALSE
      OBVIOUS
    <2>1. PICK i \in DOMAIN Program[c][q] : Program[c][q][i] = WaitFlag(k)
      BY <1>1, EverySlotAwaited
    <2>2. Program[c][q][i].op = "wait" /\ Program[c][q][i].flag = k
      BY <2>1 DEF WaitFlag
    <2>3. Did(q, n, i)
      BY <1>1, DidPast, IndexType
    <2>4. \E s \in Signals[c][q][Program[c][q][i].flag] : Did(s[1], n, s[2])
      BY <1>1, <2>2, <2>3, WaitMet
    <2> QED
      BY <1>4, <2>2, <2>4
  <1>8. epoch[q] \in Nat /\ n \in Nat
    BY CeRingAssumption DEF TypeOK
  <1> QED
    BY <1>5, <1>6, <1>7, <1>8

(* A slot whose flag was awaited holds what this call put there.            *)
LEMMA SlotHeld ==
  ASSUME TypeOK, WaitsOK, SlotsOK, NEW r \in Rank, Running(r), NEW k \in 0 .. Steps - 1,
         Awaited(plan[epoch[r]], r, k, pc[r])
  PROVE  mem[Slot(r, k)] = Parts(SlotRanks(plan[epoch[r]], r, k), epoch[r],
                                 SlotShard(plan[epoch[r]], r, k))
  <1> DEFINE n == epoch[r]
             c == plan[n]
  <1>1. n \in Call /\ c \in AnyKind /\ pc[r] \in DOMAIN Program[c][r] /\ n > 0
    BY AtOperation DEF Call
  <1>2. PICK h \in DOMAIN Program[c][r] : h < pc[r] /\ Program[c][r][h] = WaitFlag(k)
    BY DEF Awaited
  <1>3. Did(r, n, h)
    BY <1>1, <1>2, IndexType, DidHere
  <1>4. Program[c][r][h].op = "wait" /\ Program[c][r][h].flag = k
    BY <1>2 DEF WaitFlag
  <1>5. PICK s \in Signals[c][r][k] : Did(s[1], n, s[2])
    <2>1. \E s \in Signals[c][r][Program[c][r][h].flag] : Did(s[1], n, s[2])
      BY <1>1, <1>3, <1>4, WaitMet
    <2> QED
      BY <1>4, <2>1
  <1>6. \E t \in Copies[c][r][k] : Did(t[1], n, t[2])
    BY <1>1, <1>5, Announced
  <1> QED
    BY <1>1, <1>6 DEF SlotsOK

-----------------------------------------------------------------------------
(* The calls. *)

(* What has been executed stays executed.                                   *)
LEMMA DidStays ==
  ASSUME TypeOK, NEW r \in Rank, Construct(r) \/ Run(r) \/ Device(r) \/ Synchronize(r),
         NEW q \in Rank, NEW n \in Call, NEW i \in DOMAIN Program[plan[n]][q]
  PROVE  Did(q, n, i) => Did(q, n, i)'
  <1>1. CASE Construct(r) \/ Synchronize(r)
    <2>1. UNCHANGED <<epoch, pc>>
      BY <1>1 DEF Construct, Synchronize
    <2> QED
      BY <2>1 DEF Did, Running
  <1>2. CASE Run(r)
    BY <1>2, DidRun, IndexType
  <1>3. CASE Device(r)
    BY <1>3, DeviceForms, DidOn
  <1> QED
    BY <1>1, <1>2, <1>3

(* A wait is executed only by its own step.                                 *)
LEMMA NewlyDid ==
  ASSUME TypeOK, NEW r \in Rank, Construct(r) \/ Run(r) \/ Device(r) \/ Synchronize(r),
         NEW q \in Rank, NEW n \in Call, NEW i \in DOMAIN Program[plan[n]][q],
         Did(q, n, i)', ~Did(q, n, i)
  PROVE  Device(r) /\ q = r /\ n = epoch[r] /\ i = pc[r] /\ Op(r) = Program[plan[n]][q][i]
  <1>1. CASE Construct(r) \/ Synchronize(r)
    <2>1. UNCHANGED <<epoch, pc>>
      BY <1>1 DEF Construct, Synchronize
    <2> QED
      BY <2>1 DEF Did, Running
  <1>2. CASE Run(r)
    BY <1>2, DidRun, IndexType
  <1>3. CASE Device(r)
    <2>1. q = r /\ n = epoch[r] /\ i = pc[r]
      BY <1>3, DeviceForms, DidOn
    <2>2. Op(r) = Program[plan[n]][q][i]
      BY <1>3, <2>1, DeviceForms, AtOperation
    <2> QED
      BY <1>3, <2>1, <2>2
  <1> QED
    BY <1>1, <1>2, <1>3

LEMMA PlanSame ==
  ASSUME NEW r \in Rank, Construct(r) \/ Run(r) \/ Device(r) \/ Synchronize(r)
  PROVE  plan' = plan
  BY DeviceForms DEF Construct, Run, Synchronize, setupVars

(* A signal leaves the point where it was stored behind the flag.           *)
LEMMA FlagsStep ==
  ASSUME TypeOK, TypeOK', FlagsOK, NEW r \in Rank, Construct(r) \/ Run(r) \/ Device(r) \/ Synchronize(r)
  PROVE  FlagsOK'
  <1>0. plan' = plan /\ flags' \in [Rank -> [Flag -> 0 .. MaxCalls]] /\ MaxCalls \in Nat
    BY PlanSame, CeRingAssumption DEF TypeOK
  <1> SUFFICES ASSUME NEW q \in Rank, setup'[q] >= 8, NEW f \in Flag, NEW v \in Call, flags'[q][f] = v
               PROVE  \E s \in Signals[plan[v]][q][f] : Did(s[1], v, s[2])'
    <2> SUFFICES ASSUME NEW q \in Rank, setup'[q] >= 8, NEW f \in Flag, flags'[q][f] > 0
                 PROVE  (\E s \in Signals[plan[flags[q][f]]][q][f] : Did(s[1], flags[q][f], s[2]))'
      BY DEF FlagsOK
    <2>1. PICK v \in Call : flags'[q][f] = v
      BY <1>0 DEF Call
    <2>2. \E s \in Signals[plan[v]][q][f] : Did(s[1], v, s[2])'
      BY <2>1
    <2> QED
      BY <1>0, <2>1, <2>2 DEF Did, Running
  <1>1. ASSUME setup[q] >= 8, flags'[q][f] = flags[q][f]
        PROVE  \E s \in Signals[plan[v]][q][f] : Did(s[1], v, s[2])'
    <2>1. flags[q][f] = v /\ v > 0
      BY <1>1 DEF Call
    <2>2. PICK s \in Signals[plan[v]][q][f] : Did(s[1], v, s[2])
      BY <1>1, <2>1 DEF FlagsOK
    <2>3. s[1] \in Rank /\ s[2] \in DOMAIN Program[plan[v]][s[1]]
      BY PlanType, SignalIs
    <2>5. Did(s[1], v, s[2])'
      BY <2>2, <2>3, DidStays
    <2> QED
      BY <2>2, <2>5
  <1>2. CASE Construct(r)
    <2>1. CASE GaveUp(r)
      BY <1>1, <2>1 DEF GaveUp
    <2>2. CASE WentOn(r)
      <3>1. /\ setup[r] \in 1 .. 8 /\ setup' = [setup EXCEPT ![r] = setup[r] + 1]
            /\ setup[r] # 7 => UNCHANGED flags
            /\ setup[r] = 7 => flags' = [flags EXCEPT ![r] = [g \in Flag |-> 0]]
        BY <2>2 DEF WentOn
      <3>2. setup \in [Rank -> 1 .. 9] /\ flags \in [Rank -> [Flag -> 0 .. MaxCalls]]
        BY DEF TypeOK, Stage
      <3>3. CASE q = r /\ setup[r] = 7
        <4>1. flags'[q][f] = 0
          BY <3>1, <3>2, <3>3
        <4> QED
          BY <4>1 DEF Call
      <3>4. CASE ~(q = r /\ setup[r] = 7)
        <4>1. setup[q] >= 8 /\ flags'[q] = flags[q]
          BY <3>1, <3>2, <3>4
        <4> QED
          BY <1>1, <4>1
      <3> QED
        BY <3>3, <3>4
    <2> QED
      BY <1>2, <2>1, <2>2, ConstructForms
  <1>3. CASE Run(r) \/ Synchronize(r)
    BY <1>1, <1>3 DEF Run, Synchronize, setupVars
  <1>4. CASE Device(r)
    <2>1. CASE Op(r).op # "set"
      BY <1>1, <1>4, <2>1, DeviceForms
    <2>2. CASE Op(r).op = "set"
      <3>1. /\ Running(r) /\ flags' = [flags EXCEPT ![Op(r).rank][Op(r).flag] = epoch[r]]
            /\ setup' = setup
        BY <1>4, <2>2, DeviceForms DEF Signal
      <3>2. /\ epoch[r] \in Call /\ pc[r] \in DOMAIN Program[plan[epoch[r]]][r]
            /\ Op(r) = Program[plan[epoch[r]]][r][pc[r]]
            /\ plan[epoch[r]] \in AnyKind
            /\ Op(r) \in Operation
        BY <3>1, AtOperation
      <3>3. Op(r).rank \in Rank /\ Op(r).flag \in Flag /\ Op(r) = SetFlag(Op(r).rank, Op(r).flag)
        BY <2>2, <3>2, OperationForms
      <3>4. CASE q = Op(r).rank /\ f = Op(r).flag
        <4>1. epoch[r] = v
          BY <3>1, <3>4 DEF TypeOK
        <4>2. PICK i \in DOMAIN Program[plan[v]][r] : i = pc[r]
          BY <3>2, <4>1
        <4>3. <<r, i>> \in Signals[plan[v]][q][f]
          BY <3>2, <3>3, <3>4, <4>1, <4>2, SignalIs
        <4>4. Did(r, v, i)'
          BY <1>4, <4>1, <4>2, DeviceForms, DidOn
        <4> QED
          BY <4>3, <4>4
      <3>5. CASE ~(q = Op(r).rank /\ f = Op(r).flag)
        <4>1. flags'[q][f] = flags[q][f]
          BY <3>1, <3>3, <3>5 DEF TypeOK
        <4> QED
          BY <1>1, <3>1, <4>1
      <3> QED
        BY <3>4, <3>5
    <2> QED
      BY <2>1, <2>2
  <1> QED
    BY <1>2, <1>3, <1>4

(* A wait that is passed met the signal of its own call: a later value of a *)
(* slot's flag is not there yet, and one of a readiness flag is stored by   *)
(* the same rank, after this call's.                                        *)
LEMMA WaitsStep ==
  ASSUME TypeOK, TypeOK', SetupOK, FlagsOK, WaitsOK,
         NEW r \in Rank, Construct(r) \/ Run(r) \/ Device(r) \/ Synchronize(r)
  PROVE  WaitsOK'
  <1> SUFFICES ASSUME NEW q \in Rank, NEW n \in Call, NEW i \in DOMAIN Program[plan[n]][q],
                      Program[plan[n]][q][i].op = "wait", Did(q, n, i)'
               PROVE  \E s \in Signals[plan[n]][q][Program[plan[n]][q][i].flag] : Did(s[1], n, s[2])'
    BY PlanSame DEF WaitsOK, Opcode
  <1>c. PICK c \in AnyKind : c = plan[n]
    BY PlanType
  <1>f. PICK f \in Flag : f = Program[c][q][i].flag
    BY <1>c, WaitFlags
  <1>1. /\ n \in Nat /\ n > 0 /\ f \in Int
        /\ f > Steps => c = "owner"
        /\ f = Steps => c = "ring"
    BY <1>c, <1>f, WaitFlags, WType DEF Call, Flag
  <1>2. ASSUME \E s \in Signals[c][q][f] : Did(s[1], n, s[2])
        PROVE  \E s \in Signals[plan[n]][q][Program[plan[n]][q][i].flag] : Did(s[1], n, s[2])'
    <2>1. PICK s \in Signals[c][q][f] : Did(s[1], n, s[2])
      BY <1>2
    <2>2. s[1] \in Rank /\ s[2] \in DOMAIN Program[c][s[1]]
      BY SignalIs
    <2>3. Did(s[1], n, s[2])'
      BY <1>c, <2>1, <2>2, DidStays
    <2> QED
      BY <1>c, <1>f, <2>1, <2>3
  <1>3. CASE Did(q, n, i)
    <2>1. \E s \in Signals[c][q][f] : Did(s[1], n, s[2])
      BY <1>c, <1>f, <1>3, WaitMet
    <2> QED
      BY <1>2, <2>1
  <1>4. CASE ~Did(q, n, i)
    <2>1. Device(r) /\ q = r /\ n = epoch[r] /\ i = pc[r] /\ Op(r) = Program[plan[n]][q][i]
      BY <1>4, NewlyDid
    <2>2. Wait(r)
      BY <2>1, DeviceForms
    <2>3. flags[q][f] >= n
      BY <1>c, <1>f, <2>1, <2>2 DEF Wait, Arrived
    <2>v. PICK v \in Call : v = flags[q][f]
      BY <1>1, <2>3, CeRingAssumption DEF TypeOK, Call
    <2>4. v \in Nat /\ v > 0 /\ v >= n
      BY <2>3, <2>v DEF Call
    <2>5. setup[q] >= 8
      BY <1>1, <2>1 DEF SetupOK
    <2>6. PICK s \in Signals[plan[v]][q][f] : Did(s[1], v, s[2])
      BY <2>v, <2>4, <2>5 DEF FlagsOK
    <2>7. CASE v = n
      BY <1>2, <1>c, <2>6, <2>7
    <2>8. CASE v > n /\ f < Steps
      <3>1. f \in 0 .. Steps - 1
        BY <1>1, <2>8, WType DEF Flag
      <3>2. flags[q][f] <= epoch[q]
        BY <2>v, <2>4, <2>5, <3>1, SlotFlagBounded
      <3>3. v <= n
        BY <2>v, <2>1, <3>2
      <3> QED
        BY <1>1, <2>4, <2>8, <3>3
    <2>9. CASE v > n /\ ~(f < Steps)
      <3>1. plan[v] \in AnyKind /\ f >= Steps /\ Steps \in Nat
        BY <1>1, <2>9, PlanType, WType
      <3>2. /\ f > Steps => plan[v] = "owner"
            /\ f = Steps => plan[v] = "ring"
        BY <2>6, <3>1, SignalUnique
      <3>3. f > Steps \/ f = Steps
        BY <1>1, <3>1
      <3>4. plan[v] = c
        BY <1>1, <3>2, <3>3
      <3>5. s \in Signals[c][q][f]
        BY <2>6, <3>4
      <3>6. s[1] \in Rank /\ s[2] \in DOMAIN Program[plan[n]][s[1]]
        BY <1>c, <3>5, SignalIs
      <3>7. s[2] \in Nat
        BY <3>6, IndexType
      <3>8. Did(s[1], n, s[2])
        BY <2>6, <2>9, <3>6, <3>7, DidBefore
      <3> QED
        BY <1>2, <3>5, <3>8
    <2>10. v = n \/ v > n
      BY <1>1, <2>4
    <2> QED
      BY <2>7, <2>8, <2>9, <2>10
  <1> QED
    BY <1>3, <1>4

(* Slots and output shards are places of their own.                         *)
LEMMA PlacesApart ==
  /\ \A q, k, p, h : Slot(q, k) = Slot(p, h) => q = p /\ k = h
  /\ \A q, j, p, h : Out(q, j) = Out(p, h) => q = p /\ j = h
  /\ \A q, k, p, j : Slot(q, k) # Out(p, j)
  /\ \A q \in Rank, k \in 0 .. Steps - 1 : Slot(q, k) \in Location
  /\ \A q, j \in Rank : Out(q, j) \in Location
  BY DEF Slot, Out, Location

(* What a step writes: a copy one place, a sum an output shard of its rank. *)
LEMMA MemoryOnMove ==
  ASSUME TypeOK, NEW r \in Rank, Device(r), NEW l \in Location
  PROVE  /\ Op(r).op \in {"copy", "sum"} => Op(r).dst \in Location
         /\ mem'[l] # mem[l] => Op(r).op \in {"copy", "sum"} /\ l = Op(r).dst
         /\ Op(r).op = "copy" => mem'[Op(r).dst] = Read(Op(r).src)
         /\ Op(r).op = "sum" => mem'[Op(r).dst] = UNION {Read(m) : m \in Op(r).parts}
  <1>0. mem \in [Location -> SUBSET Contribution] /\ Op(r) \in Operation
    BY DeviceForms, AtOperation DEF TypeOK
  <1>1. Op(r).op \in {"copy", "sum"} => Op(r).dst \in Location
    BY <1>0, OperationForms
  <1>2. CASE Op(r).op = "copy"
    <2>1. mem' = [mem EXCEPT ![Op(r).dst] = Read(Op(r).src)]
      BY <1>2, DeviceForms DEF Move
    <2> QED
      BY <1>0, <1>1, <1>2, <2>1
  <1>3. CASE Op(r).op = "sum"
    <2>1. mem' = [mem EXCEPT ![Op(r).dst] = UNION {Read(m) : m \in Op(r).parts}]
      BY <1>3, DeviceForms DEF Add
    <2> QED
      BY <1>0, <1>1, <1>3, <2>1
  <1>4. CASE Op(r).op \notin {"copy", "sum"}
    BY <1>4, DeviceForms
  <1> QED
    BY <1>1, <1>2, <1>3, <1>4

LEMMA MemoryOnRun ==
  ASSUME TypeOK, NEW r \in Rank, Run(r)
  PROVE  /\ \A q \in Rank, k \in 0 .. Steps - 1 : mem'[Slot(q, k)] = mem[Slot(q, k)]
         /\ \A q, j \in Rank : mem'[Out(q, j)] = IF q = r THEN {} ELSE mem[Out(q, j)]
         /\ \A l \in Location : mem'[l] \subseteq mem[l]
  <1>1. /\ mem' = [l \in Location |-> IF l[1] = "out" /\ l[2] = r THEN {} ELSE mem[l]]
        /\ mem \in [Location -> SUBSET Contribution]
    BY DEF Run, TypeOK
  <1>2. \A l \in Location : mem'[l] \subseteq mem[l]
    BY <1>1
  <1>3. ASSUME NEW q \in Rank, NEW k \in 0 .. Steps - 1 PROVE mem'[Slot(q, k)] = mem[Slot(q, k)]
    <2>1. Slot(q, k) \in Location /\ Slot(q, k)[1] # "out"
      BY PlacesApart DEF Slot
    <2> QED
      BY <1>1, <2>1
  <1>4. ASSUME NEW q \in Rank, NEW j \in Rank
        PROVE  mem'[Out(q, j)] = IF q = r THEN {} ELSE mem[Out(q, j)]
    <2>1. Out(q, j) \in Location /\ Out(q, j)[1] = "out" /\ Out(q, j)[2] = q
      BY PlacesApart DEF Out
    <2> QED
      BY <1>1, <2>1
  <1> QED
    BY <1>2, <1>3, <1>4

(* A copy moves what the slot is to hold.                                   *)
LEMMA CopyMoves ==
  ASSUME TypeOK, OutOK, NEW r \in Rank, Running(r), NEW q \in Rank, NEW k \in 0 .. Steps - 1,
         NEW c \in AnyKind, NEW n \in Call, c = plan[n], n = epoch[r],
         <<r, pc[r]>> \in Copies[c][q][k]
  PROVE  Read(Op(r).src) = Parts(SlotRanks(c, q, k), n, SlotShard(c, q, k))
  <1> DEFINE s == <<r, pc[r]>>
             j == SlotShard(c, q, k)
  <1>1. Op(r) = Program[c][r][pc[r]]
    BY AtOperation
  <1>2. s[1] = r /\ s[2] = pc[r]
    OBVIOUS
  <1>3. /\ j \in Rank
        /\ \/ Program[c][s[1]][s[2]].src = In(s[1], j) /\ SlotRanks(c, q, k) = {s[1]}
           \/ Program[c][s[1]][s[2]].src = Out(s[1], j) /\ Holds(c, s[1], s[2], j) = SlotRanks(c, q, k)
    BY SlotValue
  <1> HIDE DEF s, j
  <1>4. CASE Op(r).src = In(r, j) /\ SlotRanks(c, q, k) = {r}
    <2>1. Read(Op(r).src) = {<<r, n, j>>}
      BY <1>4 DEF Read, In
    <2> QED
      BY <1>4, <2>1 DEF Parts, j
  <1>5. CASE Op(r).src = Out(r, j) /\ Holds(c, r, pc[r], j) = SlotRanks(c, q, k)
    <2>1. Read(Op(r).src) = mem[Out(r, j)]
      BY <1>5 DEF Read, Out
    <2>2. mem[Out(r, j)] = Parts(Holds(c, r, pc[r], j), n, j)
      BY <1>3, CeRingAssumption DEF OutOK, Call
    <2> QED
      BY <1>5, <2>1, <2>2 DEF j
  <1> QED
    BY <1>1, <1>2, <1>3, <1>4, <1>5

(* A slot is written once a call, by a rank in its owner's call.            *)
LEMMA SlotsStep ==
  ASSUME TypeOK, TypeOK', WaitsOK, SlotsOK, OutOK,
         NEW r \in Rank, Construct(r) \/ Run(r) \/ Device(r) \/ Synchronize(r)
  PROVE  SlotsOK'
  <1>0. plan' = plan /\ epoch \in [Rank -> 0 .. MaxCalls] /\ epoch' \in [Rank -> 0 .. MaxCalls] /\ MaxCalls \in Nat
    BY PlanSame, CeRingAssumption DEF TypeOK
  <1> SUFFICES ASSUME NEW q \in Rank, NEW k \in 0 .. Steps - 1, NEW n \in 0 .. MaxCalls, epoch'[q] = n
               PROVE  IF n > 0 /\ \E s \in Copies[plan[n]][q][k] : Did(s[1], n, s[2])'
                        THEN mem'[Slot(q, k)] = Parts(SlotRanks(plan[n], q, k), n, SlotShard(plan[n], q, k))
                        ELSE \A c \in mem'[Slot(q, k)] : c[2] < n
    <2> SUFFICES ASSUME NEW q \in Rank, NEW k \in 0 .. Steps - 1
                 PROVE  (IF epoch[q] > 0 /\ \E s \in Copies[plan[epoch[q]]][q][k] : Did(s[1], epoch[q], s[2])
                           THEN mem[Slot(q, k)] = Parts(SlotRanks(plan[epoch[q]], q, k), epoch[q],
                                                        SlotShard(plan[epoch[q]], q, k))
                           ELSE \A c \in mem[Slot(q, k)] : c[2] < epoch[q])'
      BY DEF SlotsOK
    <2>1. PICK n \in 0 .. MaxCalls : epoch'[q] = n
      BY <1>0
    <2>2. IF n > 0 /\ \E s \in Copies[plan[n]][q][k] : Did(s[1], n, s[2])'
            THEN mem'[Slot(q, k)] = Parts(SlotRanks(plan[n], q, k), n, SlotShard(plan[n], q, k))
            ELSE \A c \in mem'[Slot(q, k)] : c[2] < n
      BY <2>1
    <2> QED
      BY <1>0, <2>1, <2>2 DEF Did, Running
  <1>l. Slot(q, k) \in Location
    BY PlacesApart
  <1>1. ASSUME epoch[q] = n, mem'[Slot(q, k)] = mem[Slot(q, k)],
               n > 0 => \A s \in Copies[plan[n]][q][k] : Did(s[1], n, s[2])' <=> Did(s[1], n, s[2])
        PROVE  IF n > 0 /\ \E s \in Copies[plan[n]][q][k] : Did(s[1], n, s[2])'
                 THEN mem'[Slot(q, k)] = Parts(SlotRanks(plan[n], q, k), n, SlotShard(plan[n], q, k))
                 ELSE \A c \in mem'[Slot(q, k)] : c[2] < n
    <2>1. IF n > 0 /\ \E s \in Copies[plan[n]][q][k] : Did(s[1], n, s[2])
            THEN mem[Slot(q, k)] = Parts(SlotRanks(plan[n], q, k), n, SlotShard(plan[n], q, k))
            ELSE \A c \in mem[Slot(q, k)] : c[2] < n
      BY <1>1 DEF SlotsOK
    <2> QED
      BY <1>1, <2>1
  <1>s. ASSUME NEW m \in Call, NEW s \in Copies[plan[m]][q][k]
        PROVE  /\ s[1] \in Rank /\ s[2] \in DOMAIN Program[plan[m]][s[1]] /\ s[2] \in Nat /\ s[2] >= 1
               /\ s = <<s[1], s[2]>>
               /\ Program[plan[m]][s[1]][s[2]].op = "copy"
               /\ Program[plan[m]][s[1]][s[2]].dst = Slot(q, k)
    <2>1. plan[m] \in AnyKind
      BY PlanType
    <2>2. /\ s[1] \in Rank /\ s[2] \in DOMAIN Program[plan[m]][s[1]] /\ s = <<s[1], s[2]>>
          /\ Program[plan[m]][s[1]][s[2]].op = "copy"
          /\ Program[plan[m]][s[1]][s[2]].dst = Slot(q, k)
      BY <2>1, CopyIs
    <2> QED
      BY <2>2, IndexType
  <1>n. n > 0 => n \in Call
    BY <1>0 DEF Call
  <1>2. CASE Construct(r) \/ Synchronize(r)
    <2>1. UNCHANGED <<epoch, pc, mem>>
      BY <1>2 DEF Construct, Synchronize
    <2>2. \A s \in Copies[plan[n]][q][k] : Did(s[1], n, s[2])' <=> Did(s[1], n, s[2])
      BY <2>1 DEF Did, Running
    <2> QED
      BY <1>1, <2>1, <2>2
  <1>3. CASE Run(r)
    <2>1. mem'[Slot(q, k)] = mem[Slot(q, k)] /\ epoch' = [epoch EXCEPT ![r] = @ + 1]
      BY <1>3, MemoryOnRun DEF Run
    <2>2. n > 0 => \A s \in Copies[plan[n]][q][k] : Did(s[1], n, s[2])' <=> Did(s[1], n, s[2])
      BY <1>3, <1>n, <1>s, DidRun
    <2>3. CASE q # r
      BY <1>0, <1>1, <2>1, <2>2, <2>3
    <2>4. CASE q = r
      <3>1. n = epoch[q] + 1 /\ n > 0 /\ n \in Call /\ epoch[q] \in Nat /\ n \in Nat
        BY <1>0, <1>n, <2>1, <2>4
      <3>2. \A s \in Copies[plan[n]][q][k] : ~Did(s[1], n, s[2])'
        <4> SUFFICES ASSUME NEW s \in Copies[plan[n]][q][k], Did(s[1], n, s[2]) PROVE FALSE
          BY <2>2, <3>1
        <4>1. \A h \in Nat : h < s[2] => Did(s[1], n, h)
          BY <1>s, <3>1, DidBefore
        <4>2. epoch[q] >= n
          BY <3>1, <4>1, GateBeforeCopy
        <4> QED
          BY <3>1, <4>2
      <3>3. \A c \in mem[Slot(q, k)] : c[2] < n
        <4>1. CASE epoch[q] > 0 /\ \E s \in Copies[plan[epoch[q]]][q][k] : Did(s[1], epoch[q], s[2])
          <5>1. mem[Slot(q, k)] = Parts(SlotRanks(plan[epoch[q]], q, k), epoch[q], SlotShard(plan[epoch[q]], q, k))
            BY <4>1 DEF SlotsOK
          <5>2. \A c \in mem[Slot(q, k)] : c[2] = epoch[q]
            BY <5>1 DEF Parts
          <5> QED
            BY <3>1, <5>2
        <4>2. CASE ~(epoch[q] > 0 /\ \E s \in Copies[plan[epoch[q]]][q][k] : Did(s[1], epoch[q], s[2]))
          <5>1. \A c \in mem[Slot(q, k)] : c[2] < epoch[q]
            BY <4>2 DEF SlotsOK
          <5>2. \A c \in mem[Slot(q, k)] : c[2] \in Nat
            BY <1>l DEF TypeOK, Contribution, Call
          <5> QED
            BY <3>1, <5>1, <5>2
        <4> QED
          BY <4>1, <4>2
      <3> QED
        BY <2>1, <3>2, <3>3
    <2> QED
      BY <2>3, <2>4
  <1>4. CASE Device(r)
    <2>0. /\ Running(r) /\ StepOn(r) /\ UNCHANGED <<plan, epoch>> /\ epoch[r] \in Call
          /\ pc[r] \in DOMAIN Program[plan[epoch[r]]][r]
          /\ Op(r) = Program[plan[epoch[r]]][r][pc[r]]
          /\ plan[epoch[r]] \in AnyKind /\ epoch[q] = n
      BY <1>4, DeviceForms, AtOperation
    <2>1. CASE Op(r).op = "copy" /\ Op(r).dst = Slot(q, k)
      <3>a. PICK c \in AnyKind, m \in Call : m = epoch[r] /\ c = plan[m]
        BY <2>0
      <3>b. PICK i \in DOMAIN Program[c][r] : i = pc[r]
        BY <2>0, <3>a
      <3>1. m = epoch[r] /\ c = plan[m] /\ i = pc[r]
        BY <3>a, <3>b
      <3>2. <<r, i>> \in Copies[c][q][k]
        BY <2>0, <2>1, <3>1, CopyIs
      <3>3. n = m
        BY <2>0, <3>1, <3>2, AtCopy
      <3>4. Did(r, m, i)'
        BY <2>0, <3>1, DidOn
      <3>5. mem'[Slot(q, k)] = Parts(SlotRanks(c, q, k), n, SlotShard(c, q, k))
        BY <1>4, <1>l, <2>0, <2>1, <3>1, <3>2, <3>3, CopyMoves, MemoryOnMove
      <3>6. n > 0
        BY <3>3 DEF Call
      <3> QED
        BY <3>1, <3>2, <3>3, <3>4, <3>5, <3>6
    <2>2. CASE ~(Op(r).op = "copy" /\ Op(r).dst = Slot(q, k))
      <3>1. mem'[Slot(q, k)] = mem[Slot(q, k)]
        <4>1. CASE Op(r).op = "sum"
          <5>1. PICK j \in Rank, K \in SUBSET (0 .. Steps - 1) : IsSum(plan[epoch[r]], r, pc[r], j, K)
            BY <2>0, <4>1, SumForms
          <5>2. Op(r).dst = Out(r, j)
            BY <2>0, <5>1 DEF IsSum, Sum
          <5> QED
            BY <1>4, <1>l, <5>2, MemoryOnMove, PlacesApart
        <4>2. CASE Op(r).op # "sum"
          BY <1>4, <1>l, <2>2, <4>2, MemoryOnMove
        <4> QED
          BY <4>1, <4>2
      <3>2. ASSUME n > 0, NEW s \in Copies[plan[n]][q][k]
            PROVE  Did(s[1], n, s[2])' <=> Did(s[1], n, s[2])
        <4>1. Did(s[1], n, s[2])' <=> Did(s[1], n, s[2]) \/ (s[1] = r /\ n = epoch[r] /\ s[2] = pc[r])
          BY <1>n, <1>s, <2>0, <3>2, DidOn
        <4>2. ~(s[1] = r /\ n = epoch[r] /\ s[2] = pc[r])
          BY <1>n, <1>s, <2>0, <2>2, <3>2
        <4> QED
          BY <4>1, <4>2
      <3> QED
        BY <1>1, <2>0, <3>1, <3>2
    <2> QED
      BY <2>1, <2>2
  <1> QED
    BY <1>2, <1>3, <1>4

(* An operation leaves the other ranks' outputs alone.                      *)
LEMMA OutsApart ==
  ASSUME TypeOK, NEW r \in Rank, Device(r), NEW q \in Rank, q # r, NEW j \in Rank
  PROVE  mem'[Out(q, j)] = mem[Out(q, j)]
  <1> SUFFICES ASSUME Op(r).op \in {"copy", "sum"}, Op(r).dst = Out(q, j) PROVE FALSE
    BY PlacesApart, MemoryOnMove
  <1>r. Running(r)
    BY DeviceForms
  <1>a. PICK d \in AnyKind : d = plan[epoch[r]]
    BY <1>r, AtOperation
  <1>b. PICK h \in DOMAIN Program[d][r] : h = pc[r]
    BY <1>r, <1>a, AtOperation
  <1>0. Op(r) = Program[d][r][h]
    BY <1>r, <1>a, <1>b, AtOperation
  <1>1. CASE Op(r).op = "copy"
    <2>0. Program[d][r][h].op = "copy"
      BY <1>0, <1>1
    <2>1. CASE \E p \in Rank \ {r}, k \in 0 .. Steps - 1 :
                 Program[d][r][h].dst = Slot(p, k) /\ <<r, h>> \in Copies[d][p][k]
      BY <1>0, <2>1, PlacesApart
    <2>2. CASE \E k \in 0 .. Steps - 1 :
                 /\ SlotShard(d, r, k) \in Rank
                 /\ Program[d][r][h] = Copy(Out(r, SlotShard(d, r, k)), Slot(r, k))
                 /\ Holds(d, r, h + 1, SlotShard(d, r, k)) = SlotRanks(d, r, k)
                 /\ Awaited(d, r, k, h)
      BY <1>0, <2>2, PlacesApart DEF Copy
    <2> QED
      BY <2>0, <2>1, <2>2, CopyForms
  <1>2. CASE Op(r).op = "sum"
    <2>0. Program[d][r][h].op = "sum"
      BY <1>0, <1>2
    <2>1. PICK m \in Rank, K \in SUBSET (0 .. Steps - 1) : IsSum(d, r, h, m, K)
      BY <2>0, SumForms
    <2>2. Op(r).dst = Out(r, m)
      BY <1>0, <2>1 DEF IsSum, Sum
    <2> QED
      BY <2>2, PlacesApart
  <1> QED
    BY <1>1, <1>2

(* How far into its program a rank's outputs are.                           *)
Reached(r) == IF Running(r) THEN pc[r] ELSE Len(Ops(r)) + 1

(* Each operation leaves in the outputs what the program says is there next. *)
LEMMA OutStep ==
  ASSUME TypeOK, TypeOK', WaitsOK, SlotsOK, OutOK,
         NEW r \in Rank, Construct(r) \/ Run(r) \/ Device(r) \/ Synchronize(r)
  PROVE  OutOK'
  <1>0. plan' = plan /\ epoch \in [Rank -> 0 .. MaxCalls] /\ epoch' \in [Rank -> 0 .. MaxCalls] /\ MaxCalls \in Nat
        /\ pc \in [Rank -> Nat]
    BY PlanSame, CeRingAssumption DEF TypeOK
  <1> SUFFICES ASSUME NEW q \in Rank, NEW j \in Rank, NEW n \in Call, NEW c \in AnyKind, NEW i \in Nat,
                      epoch'[q] = n, c = plan[n],
                      i = IF pc'[q] # 0 THEN pc'[q] ELSE Len(Program[c][q]) + 1
               PROVE  mem'[Out(q, j)] = Parts(Holds(c, q, i, j), n, j)
    <2> SUFFICES ASSUME NEW q \in Rank, NEW j \in Rank, epoch'[q] > 0
                 PROVE  (mem[Out(q, j)] = Parts(Holds(plan[epoch[q]], q,
                                                     IF Running(q) THEN pc[q] ELSE Len(Ops(q)) + 1, j),
                                               epoch[q], j))'
      BY DEF OutOK
    <2>1. PICK n \in Call : epoch'[q] = n
      BY <1>0 DEF Call
    <2>2. PICK c \in AnyKind : c = plan[n]
      BY PlanType
    <2>3. Len(Program[c][q]) \in Nat /\ pc'[q] \in Nat
      BY ProgramType DEF TypeOK
    <2>4. PICK i \in Nat : i = IF pc'[q] # 0 THEN pc'[q] ELSE Len(Program[c][q]) + 1
      BY <2>3
    <2>5. mem'[Out(q, j)] = Parts(Holds(c, q, i, j), n, j)
      BY <2>1, <2>2, <2>4
    <2>6. plan'[epoch'[q]] = c
      BY <1>0, <2>1, <2>2
    <2>7. (IF Running(q) THEN pc[q] ELSE Len(Ops(q)) + 1)' = i
      BY <2>4, <2>6 DEF Running, Ops
    <2> QED
      BY <2>1, <2>5, <2>6, <2>7
  <1>l. Out(q, j) \in Location /\ n > 0
    BY PlacesApart DEF Call
  <1>1. ASSUME epoch[q] = n, pc'[q] = pc[q], mem'[Out(q, j)] = mem[Out(q, j)]
        PROVE  mem'[Out(q, j)] = Parts(Holds(c, q, i, j), n, j)
    <2>1. mem[Out(q, j)] = Parts(Holds(plan[epoch[q]], q, Reached(q), j), epoch[q], j)
      BY <1>1, <1>l DEF OutOK, Reached
    <2>2. Reached(q) = i /\ plan[epoch[q]] = c
      BY <1>1 DEF Reached, Running, Ops
    <2> QED
      BY <1>1, <2>1, <2>2
  <1>2. CASE Construct(r) \/ Synchronize(r)
    <2>1. UNCHANGED <<epoch, pc, mem>>
      BY <1>2 DEF Construct, Synchronize
    <2> QED
      BY <1>1, <2>1
  <1>3. CASE Run(r)
    <2>1. /\ epoch' = [epoch EXCEPT ![r] = @ + 1] /\ pc' = [pc EXCEPT ![r] = 1]
      BY <1>3 DEF Run
    <2>2. CASE q = r
      <3>1. mem'[Out(q, j)] = {} /\ i = 1
        BY <1>0, <1>3, <2>1, <2>2, MemoryOnRun
      <3>2. Holds(c, q, 1, j) = {}
        BY HoldsEnds
      <3> QED
        BY <3>1, <3>2 DEF Parts
    <2>3. CASE q # r
      BY <1>0, <1>1, <1>3, <2>1, <2>3, MemoryOnRun
    <2> QED
      BY <2>2, <2>3
  <1>4. CASE Device(r)
    <2>0. /\ Running(r) /\ StepOn(r) /\ UNCHANGED <<plan, epoch>> /\ epoch[q] = n
      BY <1>4, DeviceForms
    <2>a. /\ \A p \in Rank \ {r} : pc'[p] = pc[p]
          /\ pc'[r] = IF pc[r] = Len(Ops(r)) THEN 0 ELSE pc[r] + 1
      BY <2>0, CounterType
    <2>1. CASE q = r
      <3>1. PICK h \in DOMAIN Program[c][q] : h = pc[q]
        BY <2>0, <2>1, AtOperation
      <3>2. Op(q) = Program[c][q][h] /\ Ops(q) = Program[c][q]
        BY <2>0, <2>1, <3>1, AtOperation
      <3>3. i = h + 1 /\ h \in Nat
        <4>1. h \in Nat /\ Len(Program[c][q]) \in Nat /\ h >= 1 /\ h <= Len(Program[c][q])
          BY IndexType
        <4> QED
          BY <2>1, <2>a, <3>1, <3>2, <4>1
      <3>4. mem[Out(q, j)] = Parts(Holds(c, q, h, j), n, j)
        <4>1. mem[Out(q, j)] = Parts(Holds(plan[epoch[q]], q, Reached(q), j), epoch[q], j)
          BY <1>l, <2>0 DEF OutOK, Reached
        <4>2. Reached(q) = h /\ plan[epoch[q]] = c
          BY <2>0, <2>1, <3>1 DEF Reached
        <4> QED
          BY <2>0, <4>1, <4>2
      <3>5. CASE ~WritesOut(Program[c][q][h], q, j)
        <4>1. mem'[Out(q, j)] = mem[Out(q, j)]
          BY <1>4, <1>l, <2>1, <3>2, <3>5, MemoryOnMove DEF WritesOut
        <4>2. Holds(c, q, h + 1, j) = Holds(c, q, h, j)
          BY <3>5, HoldsStep
        <4> QED
          BY <3>3, <3>4, <4>1, <4>2
      <3>6. CASE WritesOut(Program[c][q][h], q, j) /\ Program[c][q][h].op = "copy"
        <4>1. PICK k \in 0 .. Steps - 1 :
                     /\ SlotShard(c, q, k) \in Rank
                     /\ Program[c][q][h] = Copy(Out(q, SlotShard(c, q, k)), Slot(q, k))
                     /\ Holds(c, q, h + 1, SlotShard(c, q, k)) = SlotRanks(c, q, k)
                     /\ Awaited(c, q, k, h)
          <5>1. ~ \E p \in Rank \ {q}, k \in 0 .. Steps - 1 :
                     Program[c][q][h].dst = Slot(p, k) /\ <<q, h>> \in Copies[c][p][k]
            BY <3>6, PlacesApart DEF WritesOut
          <5>2. Program[c][q][h].op = "copy"
            BY <3>6
          <5> QED
            BY <5>1, <5>2, CopyForms
        <4>2. Op(q).dst = Out(q, SlotShard(c, q, k)) /\ Op(q).src = Slot(q, k) /\ Op(q).op = "copy"
          BY <3>2, <4>1 DEF Copy
        <4>3. SlotShard(c, q, k) = j
          BY <3>2, <3>6, <4>2, PlacesApart DEF WritesOut
        <4>4. mem[Slot(q, k)] = Parts(SlotRanks(c, q, k), n, SlotShard(c, q, k))
          BY <2>0, <2>1, <3>1, <4>1, SlotHeld
        <4>5. Read(Slot(q, k)) = mem[Slot(q, k)]
          BY DEF Read, Slot
        <4>6. mem'[Out(q, j)] = mem[Slot(q, k)]
          BY <1>4, <1>l, <2>1, <4>2, <4>3, <4>5, MemoryOnMove
        <4> QED
          BY <3>3, <4>1, <4>3, <4>4, <4>6
      <3>7. CASE WritesOut(Program[c][q][h], q, j) /\ Program[c][q][h].op = "sum"
        <4>1. PICK m \in Rank, K \in SUBSET (0 .. Steps - 1) : IsSum(c, q, h, m, K)
          BY <3>7, SumForms
        <4>2. /\ Op(q) = Sum(Out(q, m), {In(q, m)} \cup {Slot(q, k) : k \in K})
              /\ \A k \in K : SlotShard(c, q, k) = m /\ Awaited(c, q, k, h)
              /\ Holds(c, q, h + 1, m) = {q} \cup UNION {SlotRanks(c, q, k) : k \in K}
          BY <3>2, <4>1 DEF IsSum
        <4>3. /\ Op(q).dst = Out(q, m) /\ Op(q).op = "sum"
              /\ Op(q).parts = {In(q, m)} \cup {Slot(q, k) : k \in K}
          BY <4>2 DEF Sum
        <4>4. m = j
          BY <3>2, <3>7, <4>3, PlacesApart DEF WritesOut
        <4>5. Read(In(q, m)) = {<<q, n, m>>}
          BY <2>0 DEF Read, In
        <4>6. ASSUME NEW k \in K PROVE Read(Slot(q, k)) = Parts(SlotRanks(c, q, k), n, m)
          <5>1. mem[Slot(q, k)] = Parts(SlotRanks(c, q, k), n, SlotShard(c, q, k))
            BY <2>0, <2>1, <3>1, <4>2, SlotHeld
          <5>2. Read(Slot(q, k)) = mem[Slot(q, k)]
            BY DEF Read, Slot
          <5> QED
            BY <4>2, <5>1, <5>2
        <4>7. mem'[Out(q, j)] = UNION {Read(l) : l \in Op(q).parts}
          BY <1>4, <1>l, <2>1, <4>3, <4>4, MemoryOnMove
        <4>8. UNION {Read(l) : l \in Op(q).parts} = {<<q, n, m>>} \cup UNION {Parts(SlotRanks(c, q, k), n, m) : k \in K}
          BY <4>3, <4>5, <4>6
        <4>9. {<<q, n, m>>} \cup UNION {Parts(SlotRanks(c, q, k), n, m) : k \in K}
                = Parts({q} \cup UNION {SlotRanks(c, q, k) : k \in K}, n, m)
          BY DEF Parts
        <4> QED
          BY <3>3, <4>2, <4>4, <4>7, <4>8, <4>9
      <3> QED
        BY <3>5, <3>6, <3>7 DEF WritesOut
    <2>2. CASE q # r
      <3>1. pc'[q] = pc[q]
        BY <2>2, <2>a
      <3>2. mem'[Out(q, j)] = mem[Out(q, j)]
        BY <1>4, <2>2, OutsApart
      <3> QED
        BY <1>1, <2>0, <3>1, <3>2
    <2> QED
      BY <2>1, <2>2
  <1> QED
    BY <1>2, <1>3, <1>4

(* Nobody contributes to a call it has not begun.                           *)
LEMMA BegunStep ==
  ASSUME TypeOK, TypeOK', BegunOK, NEW r \in Rank, Construct(r) \/ Run(r) \/ Device(r) \/ Synchronize(r)
  PROVE  BegunOK'
  <1>0. /\ epoch \in [Rank -> 0 .. MaxCalls] /\ MaxCalls \in Nat
        /\ mem \in [Location -> SUBSET Contribution]
    BY CeRingAssumption DEF TypeOK
  <1> SUFFICES ASSUME NEW l \in Location, NEW x \in mem'[l] PROVE x[2] <= epoch'[x[1]]
    BY DEF BegunOK
  <1>1. /\ epoch' \in [Rank -> 0 .. MaxCalls] /\ \A q \in Rank : epoch[q] <= epoch'[q]
    <2>1. epoch' = epoch \/ epoch' = [epoch EXCEPT ![r] = @ + 1]
      BY DeviceForms DEF Construct, Run, Synchronize
    <2>2. epoch' \in [Rank -> 0 .. MaxCalls]
      BY DEF TypeOK
    <2>3. CASE epoch' = epoch
      BY <1>0, <2>2, <2>3
    <2>4. CASE epoch' = [epoch EXCEPT ![r] = @ + 1]
      BY <1>0, <2>2, <2>4
    <2> QED
      BY <2>1, <2>3, <2>4
  <1>2. ASSUME NEW m \in Location, x \in mem[m] PROVE x[2] <= epoch'[x[1]]
    <2>1. x \in Contribution
      BY <1>0, <1>2
    <2>2. x[1] \in Rank /\ x[2] \in Nat
      BY <2>1 DEF Contribution, Call
    <2>3. x[2] <= epoch[x[1]]
      BY <1>2 DEF BegunOK
    <2>4. epoch[x[1]] \in Nat /\ epoch'[x[1]] \in Nat /\ epoch[x[1]] <= epoch'[x[1]]
      BY <1>0, <1>1, <2>2
    <2> QED
      BY <2>2, <2>3, <2>4
  <1>3. CASE x \in mem[l]
    BY <1>2, <1>3
  <1>4. CASE x \notin mem[l]
    <2>1. Device(r)
      <3>1. ~Run(r)
        BY <1>4, MemoryOnRun
      <3>2. ~Construct(r) /\ ~Synchronize(r)
        BY <1>4 DEF Construct, Synchronize
      <3> QED
        BY <3>1, <3>2
    <2>2. /\ Running(r) /\ epoch' = epoch /\ l = Op(r).dst
          /\ Op(r).op \in {"copy", "sum"}
      BY <1>4, <2>1, DeviceForms, MemoryOnMove
    <2>3. ASSUME NEW m, x \in Read(m), (\E j \in Rank : m = In(r, j)) \/ m \in Location
          PROVE  x[2] <= epoch'[x[1]]
      <3>1. CASE \E j \in Rank : m = In(r, j)
        <4>1. PICK j \in Rank : m = In(r, j)
          BY <3>1
        <4>2. x = <<r, epoch[r], j>>
          BY <2>3, <4>1 DEF Read, In
        <4> QED
          BY <1>0, <2>2, <4>2
      <3>2. CASE m \in Location
        <4>1. m[1] # "in"
          BY <3>2 DEF Location, Out, Slot
        <4>2. x \in mem[m]
          BY <2>3, <4>1 DEF Read
        <4> QED
          BY <1>2, <3>2, <4>2
      <3> QED
        BY <2>3, <3>1, <3>2
    <2>4. PICK c \in AnyKind : c = plan[epoch[r]]
      BY <2>2, AtOperation
    <2>5. pc[r] \in DOMAIN Program[c][r] /\ Op(r) = Program[c][r][pc[r]]
      BY <2>2, <2>4, AtOperation
    <2>6. CASE Op(r).op = "copy"
      <3>1. x \in Read(Op(r).src)
        BY <1>4, <2>1, <2>2, <2>6, MemoryOnMove
      <3>2. (\E j \in Rank : Op(r).src = In(r, j)) \/ Op(r).src \in Location
        BY <2>2, <2>6, WrittenFrom
      <3> QED
        BY <2>3, <3>1, <3>2
    <2>7. CASE Op(r).op = "sum"
      <3>1. x \in UNION {Read(m) : m \in Op(r).parts}
        BY <1>4, <2>1, <2>2, <2>7, MemoryOnMove
      <3>2. \A m \in Op(r).parts : (\E j \in Rank : m = In(r, j)) \/ m \in Location
        BY <2>2, <2>7, WrittenFrom
      <3> QED
        BY <2>3, <3>1, <3>2
    <2> QED
      BY <2>2, <2>6, <2>7
  <1> QED
    BY <1>3, <1>4

-----------------------------------------------------------------------------
(* The invariant. *)

LEMMA CallsInit == Init => CallsOK
  <1> SUFFICES ASSUME Init PROVE CallsOK
    OBVIOUS
  <1>0. /\ \A q \in Rank : epoch[q] = 0 /\ setup[q] = 1
        /\ \A l \in Location : mem[l] = {}
    BY DEF Init
  <1>1. FlagsOK
    BY <1>0 DEF FlagsOK
  <1>2. WaitsOK
    <2>1. \A q \in Rank : \A n \in Call, i \in Nat : ~Did(q, n, i)
      BY <1>0 DEF Did, Call
    <2> SUFFICES ASSUME NEW q \in Rank, NEW n \in Call, NEW i \in DOMAIN Program[plan[n]][q], Did(q, n, i)
                 PROVE  FALSE
      BY DEF WaitsOK
    <2>2. i \in Nat
      BY TypeInit, IndexType
    <2> QED
      BY <2>1, <2>2
  <1>3. SlotsOK
    BY <1>0, PlacesApart DEF SlotsOK
  <1>4. OutOK
    BY <1>0 DEF OutOK
  <1>5. BegunOK
    BY <1>0 DEF BegunOK
  <1> QED
    BY <1>1, <1>2, <1>3, <1>4, <1>5 DEF CallsOK

LEMMA CallsSame ==
  ASSUME CallsOK, UNCHANGED vars
  PROVE  CallsOK'
  <1>0. UNCHANGED <<setup, plan, epoch, pc, flags, mem>>
    BY DEF vars, setupVars
  <1>1. \A q, n, i : Did(q, n, i)' <=> Did(q, n, i)
    BY <1>0 DEF Did, Running
  <1>2. FlagsOK'
    BY <1>0 DEF CallsOK, FlagsOK, Did, Running
  <1>3. WaitsOK'
    BY <1>0, <1>1 DEF CallsOK, WaitsOK, Opcode
  <1>4. SlotsOK'
    BY <1>0 DEF CallsOK, SlotsOK, Did, Running
  <1>5. OutOK'
    BY <1>0 DEF CallsOK, OutOK, Running, Ops
  <1>6. BegunOK'
    BY <1>0 DEF CallsOK, BegunOK
  <1> QED
    BY <1>2, <1>3, <1>4, <1>5, <1>6 DEF CallsOK

(* Error words are never taken back, and a wait that is given up sets one.  *)
LEMMA ErrorStays ==
  ASSUME [Next]_vars
  PROVE  /\ error \subseteq error'
         /\ \A r \in Rank : GiveUp(r) => error' # {}
  BY DEF Next, Construct, Run, Device, Signal, Wait, Move, Add, GiveUp, Synchronize, vars, setupVars

LEMMA InvariantInit == Init => CeInv
  BY TypeInit, SetupInit, CallsInit DEF CeInv

LEMMA InvariantStep == CeInv /\ [Next]_vars => CeInv'
  <1> SUFFICES ASSUME CeInv, [Next]_vars PROVE CeInv'
    OBVIOUS
  <1>1. TypeOK /\ SetupOK /\ TypeOK' /\ SetupOK'
    BY TypeStep, SetupStep DEF CeInv
  <1>2. ASSUME error' = {} PROVE CallsOK'
    <2>1. error = {} /\ \A r \in Rank : ~GiveUp(r)
      BY <1>2, ErrorStays
    <2>2. CallsOK
      BY <2>1 DEF CeInv
    <2>3. CASE UNCHANGED vars
      BY <2>2, <2>3, CallsSame
    <2>4. ASSUME NEW r \in Rank, Construct(r) \/ Run(r) \/ Device(r) \/ Synchronize(r) PROVE CallsOK'
      BY <1>1, <2>2, <2>4, FlagsStep, WaitsStep, SlotsStep, OutStep, BegunStep DEF CallsOK
    <2> QED
      BY <2>1, <2>3, <2>4 DEF Next
  <1> QED
    BY <1>1, <1>2 DEF CeInv

(* The inductive invariant: until a wait is given up, every flag and every  *)
(* slot holds what its place in the programs says.                          *)
THEOREM InvariantHolds == Spec => []CeInv
  <1> QED
    BY InvariantInit, InvariantStep, PTL DEF Spec

LEMMA InvariantExact == CeInv => WrongSumIsReported
  <1> SUFFICES ASSUME CeInv, NEW r \in Rank, ~Running(r), epoch[r] > 0, error = {}
               PROVE  Exact(r)
    BY DEF WrongSumIsReported
  <1>1. epoch[r] \in Call
    BY CeRingAssumption DEF CeInv, TypeOK, Call
  <1>2. PICK c \in AnyKind : c = plan[epoch[r]]
    BY <1>1, PlanType DEF CeInv
  <1>3. ASSUME NEW j \in Rank PROVE mem[Out(r, j)] = {<<q, epoch[r], j>> : q \in Rank}
    <2>1. Holds(c, r, Len(Program[c][r]) + 1, j) = Rank
      BY HoldsEnds
    <2>2. mem[Out(r, j)] = Parts(Holds(plan[epoch[r]], r, Len(Ops(r)) + 1, j), epoch[r], j)
      BY DEF CeInv, CallsOK, OutOK
    <2>3. mem[Out(r, j)] = Parts(Rank, epoch[r], j)
      BY <1>2, <2>1, <2>2 DEF Ops
    <2> QED
      BY <2>3 DEF Parts
  <1> QED
    BY <1>3 DEF Exact

(* A finished call's sum is exact in every shard unless an error word is    *)
(* set, however ring and owner calls alternate.                             *)
THEOREM SumsAreExact == Spec => []WrongSumIsReported
  <1> QED
    BY InvariantHolds, InvariantExact, PTL

(* A slot changes only while nothing of its owner's call is in it.          *)
LEMMA SlotChange ==
  ASSUME TypeOK, WaitsOK, SlotsOK, [Next]_vars, error = {},
         NEW q \in Rank, NEW k \in 0 .. Steps - 1, mem'[Slot(q, k)] # mem[Slot(q, k)]
  PROVE  \A x \in mem[Slot(q, k)] : x[2] < epoch[q]
  <1>l. Slot(q, k) \in Location
    BY PlacesApart
  <1>1. PICK r \in Rank : Device(r)
    <2>1. \A r \in Rank : ~Run(r)
      BY MemoryOnRun
    <2>2. \A r \in Rank : ~Construct(r) /\ ~Synchronize(r) /\ ~GiveUp(r)
      BY DEF Construct, Synchronize, GiveUp
    <2>3. ~UNCHANGED vars
      BY DEF vars
    <2> QED
      BY <2>1, <2>2, <2>3 DEF Next
  <1>2. Running(r) /\ Op(r).op \in {"copy", "sum"} /\ Slot(q, k) = Op(r).dst
    BY <1>1, <1>l, DeviceForms, MemoryOnMove
  <1>a. PICK c \in AnyKind : c = plan[epoch[r]]
    BY <1>2, AtOperation
  <1>b. PICK i \in DOMAIN Program[c][r] : i = pc[r]
    BY <1>2, <1>a, AtOperation
  <1>c. Op(r) = Program[c][r][i]
    BY <1>2, <1>a, <1>b, AtOperation
  <1>3. Op(r).op = "copy"
    <2> SUFFICES ASSUME Op(r).op = "sum" PROVE FALSE
      BY <1>2
    <2>0. Program[c][r][i].op = "sum"
      BY <1>c
    <2>1. PICK m \in Rank, K \in SUBSET (0 .. Steps - 1) : IsSum(c, r, i, m, K)
      BY <2>0, SumForms
    <2>2. Op(r).dst = Out(r, m)
      BY <1>c, <2>1 DEF IsSum, Sum
    <2> QED
      BY <1>2, <2>2, PlacesApart
  <1>4. <<r, pc[r]>> \in Copies[plan[epoch[r]]][q][k]
    BY <1>2, <1>3, <1>a, <1>b, <1>c, CopyIs
  <1>5. /\ epoch[q] = epoch[r]
        /\ \A s \in Copies[plan[epoch[r]]][q][k] : ~Did(s[1], epoch[r], s[2])
    BY <1>2, <1>4, AtCopy
  <1> QED
    BY <1>5 DEF SlotsOK

(* No copy ever lands in a slot that holds what its owner has yet to read,  *)
(* as long as no wait was given up.                                         *)
THEOREM SlotsAreReadFirst == Spec => SlotReadBeforeReuse
  <1>1. CeInv /\ [Next]_vars =>
          [error = {} =>
            \A r \in Rank : \A k \in 0 .. Steps - 1 :
               (mem'[Slot(r, k)] # mem[Slot(r, k)] /\ \E c \in mem[Slot(r, k)] : c[2] = epoch[r])
                  => Slot(r, k) \notin YetToRead(r)]_vars
    <2> SUFFICES ASSUME CeInv, [Next]_vars, error = {}, NEW r \in Rank, NEW k \in 0 .. Steps - 1,
                        mem'[Slot(r, k)] # mem[Slot(r, k)],
                        NEW c \in mem[Slot(r, k)], c[2] = epoch[r]
                 PROVE  FALSE
      OBVIOUS
    <2>1. TypeOK /\ WaitsOK /\ SlotsOK
      BY DEF CeInv, CallsOK
    <2>2. c[2] < epoch[r] /\ epoch[r] \in Nat
      BY <2>1, SlotChange, CeRingAssumption DEF TypeOK
    <2> QED
      BY <2>2
  <1> QED
    BY InvariantHolds, <1>1, PTL DEF Spec, SlotReadBeforeReuse

(* A signal never finds a later call's number in its flag.                  *)
LEMMA SignalRaises ==
  ASSUME TypeOK, SetupOK, FlagsOK, WaitsOK, NEW r \in Rank, Running(r), Op(r).op = "set"
  PROVE  flags[Op(r).rank][Op(r).flag] <= epoch[r]
  <1>n. PICK n \in Call : n = epoch[r]
    BY AtOperation
  <1>c. PICK c \in AnyKind : c = plan[n]
    BY PlanType
  <1>i. PICK i \in DOMAIN Program[c][r] : i = pc[r]
    BY <1>n, <1>c, AtOperation
  <1>1. Op(r) = Program[c][r][i] /\ Op(r) \in Operation /\ i \in Nat
    BY <1>n, <1>c, <1>i, AtOperation, IndexType
  <1>2. PICK q \in Rank, f \in Flag : q = Op(r).rank /\ f = Op(r).flag /\ Op(r) = SetFlag(q, f)
    BY <1>1, OperationForms
  <1>3. <<r, i>> \in Signals[c][q][f]
    BY <1>1, <1>2, SignalIs
  <1>4. setup[q] >= 8
    <2>1. setup[r] = 9
      BY <1>n DEF SetupOK, Call
    <2>2. AllAt(8)
      BY <2>1 DEF SetupOK
    <2> QED
      BY <2>2 DEF AllAt
  <1>5. ~Did(r, n, i)
    BY <1>n, <1>i, <1>1, DidHere
  <1>6. flags[q][f] \in Nat /\ n \in Nat
    BY CeRingAssumption DEF TypeOK, Call
  <1> SUFFICES ASSUME flags[q][f] > n PROVE FALSE
    BY <1>n, <1>2, <1>6
  <1>v. PICK v \in Call : v = flags[q][f]
    BY <1>6, CeRingAssumption DEF TypeOK, Call
  <1>7. v > n /\ v > 0
    BY <1>6, <1>v
  <1>8. PICK s \in Signals[plan[v]][q][f] : Did(s[1], v, s[2])
    BY <1>4, <1>v, <1>7 DEF FlagsOK
  <1>9. CASE f < Steps
    <2>1. f \in 0 .. Steps - 1
      BY <1>9, WType DEF Flag
    <2>2. epoch[q] > n
      <3>1. flags[q][f] <= epoch[q] /\ epoch[q] \in Nat
        BY <1>4, <1>v, <1>7, <2>1, SlotFlagBounded, CeRingAssumption DEF TypeOK
      <3> QED
        BY <1>6, <3>1
    <2>3. PICK h \in DOMAIN Program[c][q] : Program[c][q][h] = WaitFlag(f)
      BY <2>1, EverySlotAwaited
    <2>4. Program[c][q][h].op = "wait" /\ Program[c][q][h].flag = f
      BY <2>3 DEF WaitFlag
    <2>5. Did(q, n, h)
      BY <1>c, <2>2, DidPast, IndexType
    <2>6. PICK t \in Signals[c][q][f] : Did(t[1], n, t[2])
      <3>1. \E t \in Signals[c][q][Program[c][q][h].flag] : Did(t[1], n, t[2])
        BY <1>c, <2>4, <2>5, WaitMet
      <3> QED
        BY <2>4, <3>1
    <2>7. t = <<r, i>>
      BY <1>3, <2>6, SignalUnique
    <2> QED
      BY <1>5, <2>6, <2>7
  <1>10. CASE ~(f < Steps)
    <2>1. plan[v] \in AnyKind /\ (f > Steps \/ f = Steps)
      BY <1>10, PlanType, WType DEF Flag
    <2>2. /\ f > Steps => plan[v] = "owner" /\ c = "owner"
          /\ f = Steps => plan[v] = "ring" /\ c = "ring"
      BY <1>3, <1>8, <2>1, SignalUnique
    <2>3. s \in Signals[c][q][f]
      BY <1>8, <2>1, <2>2
    <2>4. s = <<r, i>>
      BY <1>3, <2>3, SignalUnique
    <2>5. Did(r, v, i)
      BY <1>8, <2>4
    <2>6. epoch[r] >= v
      BY <1>1, <2>5, DidBefore
    <2> QED
      BY <1>n, <1>6, <1>v, <1>7, <2>6
  <1> QED
    BY <1>9, <1>10

(* From the first call on no flag falls, until a wait is given up.          *)
THEOREM FlagsOnlyRise == Spec => FlagsNeverFall
  <1>1. CeInv /\ [Next]_vars =>
          [error = {} /\ (\E r \in Rank : epoch[r] > 0) =>
             \A r \in Rank : \A f \in Flag : flags'[r][f] >= flags[r][f]]_vars
    <2> SUFFICES ASSUME CeInv, [Next]_vars, error = {}, NEW p \in Rank, epoch[p] > 0,
                        NEW q \in Rank, NEW f \in Flag
                 PROVE  flags'[q][f] >= flags[q][f]
      OBVIOUS
    <2>1. TypeOK /\ SetupOK /\ FlagsOK /\ WaitsOK /\ flags[q][f] \in Nat
          /\ flags \in [Rank -> [Flag -> 0 .. MaxCalls]]
      BY CeRingAssumption DEF CeInv, CallsOK, TypeOK
    <2>2. CASE flags' = flags
      BY <2>1, <2>2
    <2>3. ASSUME NEW r \in Rank, Construct(r) PROVE flags' = flags
      <3>1. setup[p] = 9
        BY <2>1 DEF SetupOK
      <3>2. AllAt(8)
        BY <2>1, <3>1 DEF SetupOK
      <3>3. setup[r] # 7
        BY <3>2 DEF AllAt
      <3> QED
        BY <2>1, <2>3, <3>3, ConstructForms DEF GaveUp, WentOn
    <2>4. ASSUME NEW r \in Rank, Device(r) PROVE flags'[q][f] >= flags[q][f]
      <3>1. CASE Op(r).op # "set"
        BY <2>2, <2>4, <3>1, DeviceForms
      <3>2. CASE Op(r).op = "set"
        <4>1. Running(r) /\ flags' = [flags EXCEPT ![Op(r).rank][Op(r).flag] = epoch[r]]
          BY <2>4, <3>2, DeviceForms DEF Signal
        <4>2. flags[Op(r).rank][Op(r).flag] <= epoch[r]
          BY <2>1, <3>2, <4>1, SignalRaises
        <4>3. CASE q = Op(r).rank /\ f = Op(r).flag
          <5>1. flags'[q][f] = epoch[r] /\ epoch[r] \in Nat
            BY <2>1, <4>1, <4>3, CeRingAssumption DEF TypeOK
          <5> QED
            BY <2>1, <4>2, <4>3, <5>1
        <4>4. CASE ~(q = Op(r).rank /\ f = Op(r).flag)
          <5>1. Op(r).rank \in Rank /\ Op(r).flag \in Flag
            BY <2>1, <3>2, <4>1, AtOperation, OperationForms
          <5>2. flags'[q][f] = flags[q][f]
            BY <2>1, <4>1, <4>4, <5>1
          <5> QED
            BY <2>1, <5>2
        <4> QED
          BY <4>3, <4>4
      <3> QED
        BY <3>1, <3>2
    <2>5. ASSUME NEW r \in Rank, Run(r) \/ GiveUp(r) \/ Synchronize(r) PROVE flags' = flags
      BY <2>5 DEF Run, GiveUp, Synchronize
    <2>6. CASE UNCHANGED vars
      BY <2>2, <2>6 DEF vars
    <2> QED
      BY <2>2, <2>3, <2>4, <2>5, <2>6 DEF Next
  <1> QED
    BY InvariantHolds, <1>1, PTL DEF Spec, FlagsNeverFall

-----------------------------------------------------------------------------
(* The refinement. *)

(* What the abstract all-reduce sees of a call, as in ImplementsAllReduce.  *)
CallIn(r, j, q) == IF Running(r) \/ <<q, epoch[r], j>> \notin mem[Out(r, j)] THEN 0 ELSE epoch[r]

LEMMA AbstractInit == Init => Abstract!Init
  <1> SUFFICES ASSUME Init PROVE Abstract!Init
    OBVIOUS
  <1>1. epoch = [r \in Rank |-> 0] /\ pc = [r \in Rank |-> 0] /\ error = {}
    BY DEF Init
  <1>2. \A r, j, q \in Rank : CallIn(r, j, q) = 0
    BY <1>1 DEF CallIn
  <1>3. [r \in Rank |-> Finished(r)] = [r \in Rank |-> 0]
    BY <1>1 DEF Finished, Running
  <1> QED
    BY <1>1, <1>2, <1>3 DEF Abstract!Init, Abstract!NoResult, CallIn

(* A step that leaves calls and finished outputs alone is not seen.         *)
LEMMA NotSeen ==
  ASSUME UNCHANGED <<epoch, error>>,
         \A r \in Rank : (Running(r)' <=> Running(r)),
         \A r, j \in Rank : Running(r) \/ mem'[Out(r, j)] = mem[Out(r, j)]
  PROVE  UNCHANGED Abstract!vars
  <1>1. \A r, j, q \in Rank : CallIn(r, j, q)' = CallIn(r, j, q)
    BY DEF CallIn
  <1>2. \A r \in Rank : Finished(r)' = Finished(r)
    BY DEF Finished
  <1>3. [r \in Rank |-> Finished(r)]' = [r \in Rank |-> Finished(r)]
    BY <1>2
  <1>4. [r \in Rank |-> [j \in Rank |-> [q \in Rank |-> CallIn(r, j, q)]]]'
          = [r \in Rank |-> [j \in Rank |-> [q \in Rank |-> CallIn(r, j, q)]]]
    BY <1>1
  <1> QED
    BY <1>3, <1>4 DEF Abstract!vars, CallIn

(* To run a call begins it.                                                 *)
LEMMA BeginSeen ==
  ASSUME TypeOK, error = {}, NEW r \in Rank, Run(r)
  PROVE  Abstract!Begin(r)
  <1>1. /\ epoch' = [epoch EXCEPT ![r] = @ + 1] /\ pc' = [pc EXCEPT ![r] = 1] /\ ~Running(r)
        /\ UNCHANGED error
        /\ epoch \in [Rank -> Nat] /\ pc \in [Rank -> Nat]
    BY CeRingAssumption DEF Run, TypeOK
  <1>2. Running(r)' /\ \A q \in Rank : q # r => (Running(q)' <=> Running(q)) /\ epoch'[q] = epoch[q]
    BY <1>1 DEF Running
  <1>3. \A q \in Rank : Finished(q)' = Finished(q)
    <2>1. Finished(r)' = Finished(r)
      BY <1>1, <1>2 DEF Finished
    <2>2. \A q \in Rank : q # r => Finished(q)' = Finished(q)
      BY <1>2 DEF Finished
    <2> QED
      BY <2>1, <2>2
  <1>4. [q \in Rank |-> Finished(q)]' = [q \in Rank |-> Finished(q)]
    BY <1>3
  <1>5. \A j, p \in Rank : CallIn(r, j, p)' = 0
    BY <1>2 DEF CallIn
  <1>6. \A q, j, p \in Rank : q # r => CallIn(q, j, p)' = CallIn(q, j, p)
    BY <1>2, MemoryOnRun DEF CallIn
  <1>7. [q \in Rank |-> [j \in Rank |-> [p \in Rank |-> CallIn(q, j, p)]]]'
          = [[q \in Rank |-> [j \in Rank |-> [p \in Rank |-> CallIn(q, j, p)]]]
               EXCEPT ![r] = [j \in Rank |-> [p \in Rank |-> 0]]]
    <2>1. [j \in Rank |-> [p \in Rank |-> CallIn(r, j, p)]]' = [j \in Rank |-> [p \in Rank |-> 0]]
      BY <1>5
    <2>2. ASSUME NEW q \in Rank, q # r
          PROVE  [j \in Rank |-> [p \in Rank |-> CallIn(q, j, p)]]'
                   = [j \in Rank |-> [p \in Rank |-> CallIn(q, j, p)]]
      BY <1>6, <2>2
    <2> QED
      BY <2>1, <2>2
  <1>8. epoch[r] = [q \in Rank |-> Finished(q)][r]
    BY <1>1 DEF Finished
  <1> QED
    BY <1>1, <1>4, <1>7, <1>8 DEF Abstract!Begin, Abstract!NoResult, CallIn

(* The last operation of a program finishes the call: the outputs are       *)
(* exact, so that every rank has begun it.                                  *)
LEMMA FinishSeen ==
  ASSUME TypeOK, TypeOK', error = {}, OutOK', BegunOK', NEW r \in Rank, Device(r), ~Running(r)'
  PROVE  Abstract!Finish(r)
  <1>1. /\ Running(r) /\ StepOn(r) /\ UNCHANGED <<plan, epoch, error>>
        /\ epoch[r] \in Call
    BY DeviceForms, AtOperation
  <1>n. PICK n \in Call : n = epoch[r]
    BY <1>1
  <1>c. PICK c \in AnyKind : c = plan[n]
    BY PlanType
  <1>2. \A q \in Rank : q # r => (Running(q)' <=> Running(q))
    BY <1>1, CounterType
  <1>3. ASSUME NEW j \in Rank PROVE mem'[Out(r, j)] = Parts(Rank, n, j)
    <2>1. Holds(c, r, Len(Program[c][r]) + 1, j) = Rank
      BY HoldsEnds
    <2>2. epoch'[r] > 0 /\ plan' = plan /\ epoch' = epoch
      BY <1>1 DEF Call
    <2>3. mem'[Out(r, j)] = Parts(Holds(plan[n], r, Len(Program[plan[n]][r]) + 1, j), n, j)
      BY <1>n, <2>2 DEF OutOK, Running, Ops
    <2> QED
      BY <1>c, <2>1, <2>3
  <1>4. \A q \in Rank : epoch[q] >= epoch[r]
    <2> SUFFICES ASSUME NEW q \in Rank PROVE epoch[q] >= epoch[r]
      OBVIOUS
    <2>1. <<q, n, r>> \in mem'[Out(r, r)]
      BY <1>3 DEF Parts
    <2>2. n <= epoch'[q]
      <3>1. \A x \in mem'[Out(r, r)] : x[2] <= epoch'[x[1]]
        BY PlacesApart DEF BegunOK
      <3> DEFINE x == <<q, n, r>>
      <3>2. x[1] = q /\ x[2] = n /\ x \in mem'[Out(r, r)]
        BY <2>1
      <3> HIDE DEF x
      <3> QED
        BY <3>1, <3>2
    <2>3. epoch' = epoch /\ n \in Nat /\ epoch[q] \in Nat
      BY <1>1, CeRingAssumption DEF TypeOK, Call
    <2> QED
      BY <1>n, <2>2, <2>3
  <1>5. \A j, p \in Rank : CallIn(r, j, p)' = epoch[r]
    <2> SUFFICES ASSUME NEW j \in Rank, NEW p \in Rank PROVE CallIn(r, j, p)' = epoch[r]
      OBVIOUS
    <2>1. <<p, n, j>> \in mem'[Out(r, j)]
      BY <1>3 DEF Parts
    <2>2. epoch'[r] = n
      BY <1>1, <1>n
    <2>3. <<p, epoch'[r], j>> \in mem'[Out(r, j)] /\ ~Running(r)'
      BY <2>1, <2>2
    <2> QED
      BY <1>n, <2>2, <2>3 DEF CallIn
  <1>6. \A q, j, p \in Rank : q # r => CallIn(q, j, p)' = CallIn(q, j, p)
    BY <1>1, <1>2, OutsApart DEF CallIn
  <1>7. /\ \A q \in Rank : q # r => Finished(q)' = Finished(q)
        /\ Finished(r)' = epoch[r] /\ Finished(r) = epoch[r] - 1
    BY <1>1, <1>2 DEF Finished
  <1>8. [q \in Rank |-> Finished(q)]' = [[q \in Rank |-> Finished(q)] EXCEPT ![r] = epoch[r]]
    BY <1>7
  <1>9. [q \in Rank |-> [j \in Rank |-> [p \in Rank |-> CallIn(q, j, p)]]]'
          = [[q \in Rank |-> [j \in Rank |-> [p \in Rank |-> CallIn(q, j, p)]]]
               EXCEPT ![r] = [j \in Rank |-> [p \in Rank |-> epoch[r]]]]
    <2>1. [j \in Rank |-> [p \in Rank |-> CallIn(r, j, p)]]' = [j \in Rank |-> [p \in Rank |-> epoch[r]]]
      BY <1>5
    <2>2. ASSUME NEW q \in Rank, q # r
          PROVE  [j \in Rank |-> [p \in Rank |-> CallIn(q, j, p)]]'
                   = [j \in Rank |-> [p \in Rank |-> CallIn(q, j, p)]]
      BY <1>6, <2>2
    <2> QED
      BY <2>1, <2>2
  <1>10. [q \in Rank |-> Finished(q)][r] < epoch[r]
    <2>1. epoch[r] \in Nat
      BY <1>1, CeRingAssumption DEF TypeOK
    <2> QED
      BY <1>7, <2>1
  <1> QED
    BY <1>1, <1>4, <1>8, <1>9, <1>10 DEF Abstract!Finish, Abstract!SumOf, CallIn

LEMMA AbstractStep ==
  ASSUME CeInv, CeInv', [Next]_vars
  PROVE  [Abstract!Next]_(Abstract!vars)
  <1>0. TypeOK /\ TypeOK'
    BY DEF CeInv
  <1>1. CASE error' # {}
    BY <1>1 DEF Abstract!Next, Abstract!Break
  <1>2. CASE error' = {}
    <2>1. error = {} /\ \A r \in Rank : ~GiveUp(r)
      BY <1>2, ErrorStays
    <2>2. OutOK' /\ BegunOK'
      BY <1>2 DEF CeInv, CallsOK
    <2>3. ASSUME NEW r \in Rank, Run(r) PROVE Abstract!Next
      BY <1>0, <2>1, <2>3, BeginSeen DEF Abstract!Next
    <2>4. ASSUME NEW r \in Rank, Device(r) PROVE [Abstract!Next]_(Abstract!vars)
      <3>1. CASE ~Running(r)'
        BY <1>0, <2>1, <2>2, <2>4, <3>1, FinishSeen DEF Abstract!Next
      <3>2. CASE Running(r)'
        <4>1. Running(r) /\ StepOn(r) /\ UNCHANGED <<plan, epoch, error>>
          BY <2>4, DeviceForms
        <4>2. \A q \in Rank : Running(q)' <=> Running(q)
          BY <1>0, <3>2, <4>1, CounterType
        <4>3. \A q, j \in Rank : Running(q) \/ mem'[Out(q, j)] = mem[Out(q, j)]
          BY <1>0, <2>4, <4>1, OutsApart
        <4> QED
          BY <4>1, <4>2, <4>3, NotSeen
      <3> QED
        BY <3>1, <3>2
    <2>5. ASSUME UNCHANGED <<epoch, pc, mem, error>> PROVE UNCHANGED Abstract!vars
      BY <2>5, NotSeen DEF Running
    <2>6. ASSUME NEW r \in Rank, Construct(r) \/ Synchronize(r) PROVE UNCHANGED Abstract!vars
      BY <2>5, <2>6 DEF Construct, Synchronize
    <2>7. CASE UNCHANGED vars
      BY <2>5, <2>7 DEF vars
    <2> QED
      BY <2>1, <2>3, <2>4, <2>6, <2>7 DEF Next
  <1> QED
    BY <1>1, <1>2

(* Both calls, in any order, implement the abstract all-reduce until a wait *)
(* is given up.                                                             *)
THEOREM CeRingImplementsAllReduce == Spec => ImplementsAllReduce
  <1>1. CeInv /\ CeInv' /\ [Next]_vars => [Abstract!Next]_(Abstract!vars)
    BY AbstractStep
  <1> QED
    BY InvariantHolds, AbstractInit, <1>1, PTL DEF Spec, ImplementsAllReduce, Abstract!Spec
=============================================================================
