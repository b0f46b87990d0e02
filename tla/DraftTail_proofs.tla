-------------------------- MODULE DraftTail_proofs --------------------------
(***************************************************************************)
(* Theorems about DraftTail, for any set of pipelines, any number of rows, *)
(* steps and events: types, the newest drafts are read, no row holds       *)
(* drafts of another request, the age limit never makes a step wait.  The  *)
(* argument is in DraftTailInvariant: a generation tells whether a row was *)
(* freed since, an earlier stage's queue names the step PP steps back, and *)
(* the stages complete their collectives together and in order.            *)
(***************************************************************************)
EXTENDS DraftTailInvariant, TLAPS, FiniteSetTheorems, SequenceTheorems,
        WellFoundedInduction, NaturalsInduction

-----------------------------------------------------------------------------
(* The numbers of a pipeline. *)
LEMMA PipeFacts ==
    ASSUME TypeOK
    PROVE  /\ PP \in Nat /\ PP >= 2 /\ LastRank \in Nat /\ LastRank = PP - 1
           /\ Stages = 0 .. LastRank /\ Earlier = 0 .. LastRank - 1
           /\ TailStage \in Earlier /\ 0 \in Earlier
           /\ LastRank \in Stages /\ Earlier \subseteq Stages /\ LastRank \notin Earlier
  <1>1. pipe \in [stages : Nat \ {0, 1}, tail : Nat] /\ pipe.tail <= pipe.stages - 2
    BY DraftTailAssumption DEF TypeOK
  <1>2. PP \in Nat /\ PP >= 2 /\ TailStage \in Nat /\ TailStage <= PP - 2
    BY <1>1 DEF PP, TailStage
  <1> QED
    BY <1>2 DEF LastRank, Stages, Earlier

(* The pipeline and the switch are never changed. *)
LEMMA PipeStays ==
    ASSUME pipe' = pipe
    PROVE  /\ PP' = PP /\ LastRank' = LastRank /\ Stages' = Stages /\ Earlier' = Earlier
           /\ TailStage' = TailStage /\ MaxAge' = MaxAge
  BY DEF PP, LastRank, Stages, Earlier, TailStage, MaxAge

LEMMA MaxAgeIs ==
    ASSUME TypeOK
    PROVE  MaxAge = PP + 1
  <1>1. PP \in Nat /\ PP >= 2
    BY PipeFacts
  <1> DEFINE M == CHOOSE x \in {2, PP + 1} : \A y \in {2, PP + 1} : x >= y
  <1>2. \E x \in {2, PP + 1} : \A y \in {2, PP + 1} : x >= y
    BY <1>1
  <1>3. M \in {2, PP + 1} /\ \A y \in {2, PP + 1} : M >= y
    BY <1>2
  <1>4. M = PP + 1
    BY <1>1, <1>3
  <1> QED
    BY <1>4 DEF MaxAge, Max

(* The types of what the variables hold, one by one. *)
StepRecord == [free : SUBSET Slots, rows : SUBSET Slots, sampled : SUBSET Slots,
               structured : BOOLEAN, newest : [Slots -> 0 .. MaxSteps]]
Snapshot == [step : 0 .. MaxSteps, gen : [Slots -> 0 .. MaxEvents]]
PendingEntry == [step : 0 .. MaxSteps, keep : SUBSET Slots, gen : [Slots -> 0 .. MaxEvents]]

LEMMA SchedType ==
    ASSUME TypeOK
    PROVE  /\ Len(sched) \in Nat /\ DOMAIN sched = 1 .. Len(sched)
           /\ \A n \in 1 .. Len(sched) :
                /\ sched[n] \in StepRecord
                /\ sched[n].free \subseteq Slots /\ sched[n].rows \subseteq Slots
                /\ Sampled(n) \subseteq Slots /\ sched[n].structured \in BOOLEAN
                /\ sched[n].newest \in [Slots -> 0 .. MaxSteps]
  <1>1. sched \in Seq(StepRecord)
    BY DEF TypeOK, StepRecord
  <1>2. Len(sched) \in Nat /\ DOMAIN sched = 1 .. Len(sched)
    BY <1>1, LenProperties
  <1>3. ASSUME NEW n \in 1 .. Len(sched) PROVE sched[n] \in StepRecord
    BY <1>1, ElementOfSeq
  <1> QED
    BY <1>2, <1>3 DEF StepRecord, Sampled

LEMMA NumberTypes ==
    ASSUME TypeOK
    PROVE  /\ MaxSteps \in Nat /\ MaxEvents \in Nat /\ qstep \in Nat
           /\ \A s \in Stages : done[s] \in Nat
           /\ \A s \in Stages, r \in Slots : gen[s][r] \in Nat /\ drafts[s][r] \in Nat
           /\ \A s \in Earlier : pending[s] \in PendingEntry /\ pending[s].step \in Nat
           /\ \A s \in Earlier, r \in Slots : pending[s].gen[r] \in Nat
           /\ 1 \in Nat
  <1>1. MaxSteps \in Nat /\ MaxEvents \in Nat
    BY DraftTailAssumption
  <1>2. \A s \in Earlier : pending[s] \in PendingEntry
    BY DEF TypeOK, Earlier, PendingEntry
  <1>3. \A s \in Earlier : pending[s].step \in Nat
    BY <1>1, <1>2 DEF PendingEntry
  <1>4. \A s \in Earlier, r \in Slots : pending[s].gen[r] \in Nat
    BY <1>1, <1>2 DEF PendingEntry
  <1> QED
    BY <1>1, <1>2, <1>3, <1>4 DEF TypeOK

LEMMA QueueType ==
    ASSUME TypeOK, NEW s \in Earlier
    PROVE  /\ queue[s] \in Seq(Snapshot) /\ Len(queue[s]) = PP /\ DOMAIN queue[s] = 1 .. PP
           /\ \A i \in 1 .. PP : /\ queue[s][i] \in Snapshot /\ queue[s][i].step \in Nat
                                 /\ \A r \in Slots : queue[s][i].gen[r] \in Nat
  <1>1. queue[s] \in Seq(Snapshot) /\ Len(queue[s]) = PP
    BY DEF TypeOK, Earlier, Snapshot
  <1>2. DOMAIN queue[s] = 1 .. PP
    BY <1>1, LenProperties
  <1>3. \A i \in 1 .. PP : queue[s][i] \in Snapshot
    BY <1>1, ElementOfSeq
  <1> QED
    BY <1>1, <1>2, <1>3, NumberTypes DEF Snapshot

LEMMA RemoteType ==
    ASSUME TypeOK
    PROVE  /\ remote \in Seq(Entry) /\ Len(remote) \in Nat /\ DOMAIN remote = 1 .. Len(remote)
           /\ \A i \in 1 .. Len(remote) :
                /\ remote[i] \in Entry
                /\ remote[i].step \in Nat /\ remote[i].of \in 1 .. MaxSteps
                /\ remote[i].keep \subseteq Slots
                /\ \A r \in Slots : remote[i].gen[r] \in Nat
  <1>1. remote \in Seq(Entry)
    BY DEF TypeOK
  <1>2. Len(remote) \in Nat /\ DOMAIN remote = 1 .. Len(remote)
    BY <1>1, LenProperties
  <1>3. \A i \in 1 .. Len(remote) : remote[i] \in Entry
    BY <1>1, ElementOfSeq
  <1> QED
    BY <1>1, <1>2, <1>3, NumberTypes DEF Entry

LEMMA StreamType ==
    ASSUME TypeOK, NEW s \in Stages
    PROVE  /\ stream[s] \in Seq(Op) /\ Len(stream[s]) \in Nat
           /\ DOMAIN stream[s] = 1 .. Len(stream[s])
           /\ \A i \in 1 .. Len(stream[s]) :
                stream[s][i] \in Op /\ stream[s][i].step \in 1 .. MaxSteps
  <1>1. stream[s] \in Seq(Op)
    BY DEF TypeOK
  <1>2. Len(stream[s]) \in Nat /\ DOMAIN stream[s] = 1 .. Len(stream[s])
    BY <1>1, LenProperties
  <1>3. \A i \in 1 .. Len(stream[s]) : stream[s][i] \in Op
    BY <1>1, ElementOfSeq
  <1> QED
    BY <1>1, <1>2, <1>3 DEF Op

-----------------------------------------------------------------------------
(* A row is held for one step more if the step does not free it. *)
LEMMA HeldStep ==
    ASSUME NEW r, NEW d \in Nat, NEW n \in Nat, d <= n
    PROVE  Held(r, d, n + 1) <=> Held(r, d, n) /\ r \notin sched[n + 1].free
  <1>1. d + 1 .. n + 1 = (d + 1 .. n) \cup {n + 1}
    OBVIOUS
  <1> QED
    BY <1>1 DEF Held

(* Who is held is held in any part of the time. *)
LEMMA HeldPart ==
    ASSUME NEW r, NEW d \in Nat, NEW n \in Nat, NEW e \in Nat, NEW m \in Nat,
           d <= e, m <= n, Held(r, d, n)
    PROVE  Held(r, e, m)
  <1>1. e + 1 .. m \subseteq d + 1 .. n
    OBVIOUS
  <1> QED
    BY <1>1 DEF Held

-----------------------------------------------------------------------------

(* The events of a history are finitely many. *)
LEMMA EventsFinite ==
    ASSUME TypeOK
    PROVE  IsFiniteSet(Events(sched))
  <1> DEFINE Kinds == {"freed", "unsampled", "structured"}
             All == ((1 .. Len(sched)) \X (0 .. NSlots)) \X Kinds
             triple == [x \in All |-> <<x[1][1], x[1][2], x[2]>>]
             Triples == {triple[x] : x \in All}
  <1>1. Len(sched) \in Nat /\ NSlots \in Nat
    BY SchedType, DraftTailAssumption
  <1>2. IsFiniteSet(Kinds)
    <2>1. IsFiniteSet({} \cup {"freed"})
      BY FS_EmptySet, FS_AddElement
    <2>2. IsFiniteSet(({} \cup {"freed"}) \cup {"unsampled"})
      BY <2>1, FS_AddElement
    <2>3. IsFiniteSet((({} \cup {"freed"}) \cup {"unsampled"}) \cup {"structured"})
      BY <2>2, FS_AddElement
    <2>4. Kinds = (({} \cup {"freed"}) \cup {"unsampled"}) \cup {"structured"}
      OBVIOUS
    <2> QED
      BY <2>3, <2>4
  <1>3. IsFiniteSet(All)
    <2>1. IsFiniteSet(1 .. Len(sched)) /\ IsFiniteSet(0 .. NSlots)
      BY <1>1, FS_Interval
    <2>2. IsFiniteSet((1 .. Len(sched)) \X (0 .. NSlots))
      BY <2>1, FS_Product
    <2> QED
      BY <1>2, <2>2, FS_Product
  <1>4. triple \in Surjection(All, Triples)
    BY DEF Surjection
  <1>5. IsFiniteSet(Triples)
    BY <1>3, <1>4, FS_Surjection
  <1>6. ASSUME NEW n \in 1 .. Len(sched), NEW r \in 0 .. NSlots, NEW k \in Kinds
        PROVE  <<n, r, k>> \in Triples
    <2>1. <<<<n, r>>, k>> \in All
      OBVIOUS
    <2>2. triple[<<<<n, r>>, k>>] = <<n, r, k>>
      BY <2>1
    <2> QED
      BY <2>1, <2>2
  <1>7. ASSUME NEW e \in Events(sched) PROVE e \in Triples
    <2>1. PICK n \in 1 .. Len(sched) :
             \/ \E r \in sched[n].free : e = <<n, r, "freed">>
             \/ \E r \in sched[n].rows \ sched[n].sampled : e = <<n, r, "unsampled">>
             \/ e = <<n, 0, "structured">>
      BY SchedType DEF Events
    <2>2. sched[n].free \subseteq 0 .. NSlots /\ sched[n].rows \subseteq 0 .. NSlots
      BY SchedType, <1>1 DEF Slots
    <2>3. \A r \in 0 .. NSlots : /\ <<n, r, "freed">> \in Triples
                                /\ <<n, r, "unsampled">> \in Triples
                                /\ <<n, r, "structured">> \in Triples
      BY <1>6
    <2>4. 0 \in 0 .. NSlots
      BY <1>1
    <2> HIDE DEF Triples
    <2>5. CASE \E r \in sched[n].free : e = <<n, r, "freed">>
      BY <2>2, <2>3, <2>5, Zenon
    <2>6. CASE \E r \in sched[n].rows \ sched[n].sampled : e = <<n, r, "unsampled">>
      BY <2>2, <2>3, <2>6, Zenon
    <2>7. CASE e = <<n, 0, "structured">>
      BY <2>3, <2>4, <2>7, Zenon
    <2> QED
      BY <2>1, <2>5, <2>6, <2>7
  <1> QED
    BY <1>5, <1>7, FS_Subset

LEMMA FreesFinite ==
    ASSUME TypeOK, NEW s \in Stages, NEW r \in Slots, done[s] <= Len(sched)
    PROVE  /\ IsFiniteSet(Frees(s, r))
           /\ Cardinality(Frees(s, r)) <= Cardinality(Events(sched))
  <1>1. Frees(s, r) \subseteq Events(sched)
    BY SchedType, NumberTypes DEF Frees, Events
  <1> QED
    BY <1>1, EventsFinite, FS_Subset

(* A stage's step adds the frees of the step. *)
LEMMA FreesStep ==
    ASSUME TypeOK, NEW s \in Stages, NEW r \in Slots, HasStep(s),
           sched' = sched, done' = [done EXCEPT ![s] = @ + 1]
    PROVE  /\ Frees(s, r)' = IF r \in Now(s).free THEN Frees(s, r) \cup {<<At(s), r, "freed">>}
                                                  ELSE Frees(s, r)
           /\ <<At(s), r, "freed">> \notin Frees(s, r)
           /\ \A t \in Stages \ {s} : Frees(t, r)' = Frees(t, r)
  <1>1. done[s] \in Nat /\ done'[s] = done[s] + 1 /\ At(s) = done[s] + 1
    BY NumberTypes DEF At, TypeOK
  <1>2. 1 .. done'[s] = (1 .. done[s]) \cup {done[s] + 1} /\ done[s] + 1 \notin 1 .. done[s]
    BY <1>1
  <1>3. <<At(s), r, "freed">> \notin Frees(s, r)
    BY <1>1, <1>2 DEF Frees
  <1>4. ASSUME r \in Now(s).free
        PROVE  Frees(s, r)' = Frees(s, r) \cup {<<At(s), r, "freed">>}
    <2>1. {k \in 1 .. done'[s] : r \in sched[k].free}
            = {k \in 1 .. done[s] : r \in sched[k].free} \cup {At(s)}
      BY <1>1, <1>2, <1>4 DEF Now
    <2> QED
      BY <2>1 DEF Frees
  <1>5. ASSUME r \notin Now(s).free
        PROVE  Frees(s, r)' = Frees(s, r)
    <2>1. {k \in 1 .. done'[s] : r \in sched[k].free} = {k \in 1 .. done[s] : r \in sched[k].free}
      BY <1>1, <1>2, <1>5 DEF Now
    <2> QED
      BY <2>1 DEF Frees
  <1>6. \A t \in Stages \ {s} : done'[t] = done[t]
    BY DEF TypeOK
  <1> QED
    BY <1>3, <1>4, <1>5, <1>6 DEF Frees

-----------------------------------------------------------------------------
(* Schedule adds one step to the history. *)
LEMMA ScheduleFacts ==
    ASSUME TypeOK, SchedOK, Schedule
    PROVE  LET n == Len(sched) + 1
               step == sched'[n]
           IN  /\ UNCHANGED <<setupVars, done, hostVars, stream>>
               /\ setup = "serving" /\ n <= MaxSteps /\ done[0] = Len(sched)
               /\ sched' \in Seq(StepRecord) /\ Len(sched') = n
               /\ DOMAIN sched' = 1 .. n
               /\ \A k \in 1 .. Len(sched) : sched'[k] = sched[k]
               /\ step \in StepRecord /\ step.sampled \subseteq step.rows
               /\ \A r \in Slots :
                    /\ step.newest[r] = IF r \in step.free THEN 0 ELSE NewestBefore(n)[r]
                    /\ r \in step.rows /\ step.newest[r] # 0 =>
                         step.newest[r] + PP <= n /\ r \in step.sampled
               /\ Cardinality(Events(sched')) <= MaxEvents
  <1> DEFINE n == Len(sched) + 1
  <1>1. /\ UNCHANGED <<setupVars, done, hostVars, stream>>
        /\ setup = "serving" /\ n <= MaxSteps /\ done[0] = Len(sched)
        /\ Cardinality(Events(sched')) <= MaxEvents
    BY DEF Schedule
  <1>2. PICK free \in SUBSET Slots, rows \in SUBSET Slots, structured \in BOOLEAN :
          LET newest == [r \in Slots |-> IF r \in free THEN 0 ELSE NewestBefore(n)[r]]
          IN  /\ \A r \in rows : newest[r] = 0 \/ newest[r] + PP <= n
              /\ \E sampled \in SUBSET rows :
                  /\ {r \in rows : newest[r] # 0} \subseteq sampled
                  /\ sched' = Append(sched,
                         [free |-> free, rows |-> rows, sampled |-> sampled,
                          structured |-> structured, newest |-> newest])
    BY Zenon DEF Schedule
  <1> DEFINE newest == [r \in Slots |-> IF r \in free THEN 0 ELSE NewestBefore(n)[r]]
  <1>3. PICK sampled \in SUBSET rows :
          /\ {r \in rows : newest[r] # 0} \subseteq sampled
          /\ sched' = Append(sched, [free |-> free, rows |-> rows, sampled |-> sampled,
                                     structured |-> structured, newest |-> newest])
    BY <1>2
  <1> DEFINE step == [free |-> free, rows |-> rows, sampled |-> sampled,
                      structured |-> structured, newest |-> newest]
  <1>4. Len(sched) \in Nat /\ DOMAIN sched = 1 .. Len(sched) /\ sched \in Seq(StepRecord)
    BY SchedType DEF TypeOK, StepRecord
  <1>5. NewestBefore(n) \in [Slots -> 0 .. MaxSteps]
    <2>1. CASE n = 1
      BY <2>1, NumberTypes DEF NewestBefore, Zeros
    <2>2. CASE n # 1
      <3>1. n - 1 \in 1 .. Len(sched) /\ n - 1 \in 0 .. MaxSteps
        BY <1>1, <1>4, <2>2, NumberTypes
      <3>2. sched[n - 1].newest \in [Slots -> 0 .. MaxSteps]
        BY <3>1, SchedType
      <3> QED
        BY <2>2, <3>1, <3>2 DEF NewestBefore
    <2> QED
      BY <2>1, <2>2
  <1>6. newest \in [Slots -> 0 .. MaxSteps]
    BY <1>5, NumberTypes
  <1>7. step \in StepRecord
    BY <1>6 DEF StepRecord
  <1>8. /\ sched' \in Seq(StepRecord) /\ Len(sched') = n /\ sched'[n] = step
        /\ \A k \in 1 .. Len(sched) : sched'[k] = sched[k]
    BY <1>3, <1>4, <1>7, AppendProperties
  <1>9. DOMAIN sched' = 1 .. n
    BY <1>8, LenProperties
  <1>10. \A r \in Slots : newest[r] = IF r \in free THEN 0 ELSE NewestBefore(n)[r]
    OBVIOUS
  <1>11. ASSUME NEW r \in Slots, r \in rows, newest[r] # 0
         PROVE  newest[r] + PP <= n /\ r \in sampled
    BY <1>2, <1>3, <1>11
  <1> HIDE DEF newest
  <1> QED
    BY <1>1, <1>7, <1>8, <1>9, <1>10, <1>11

(* What was held stays so. *)
LEMMA ScheduleKeeps ==
    ASSUME TypeOK, SchedOK, Schedule
    PROVE  /\ \A k \in 1 .. Len(sched) : sched'[k] = sched[k]
           /\ \A r, d, n : d \in Nat /\ n \in Nat /\ n <= Len(sched) =>
                (Held(r, d, n)' <=> Held(r, d, n))
  <1>1. \A k \in 1 .. Len(sched) : sched'[k] = sched[k]
    BY ScheduleFacts
  <1>2. ASSUME NEW r, NEW d \in Nat, NEW n \in Nat, n <= Len(sched)
        PROVE  Held(r, d, n)' <=> Held(r, d, n)
    <2>1. \A k \in d + 1 .. n : sched'[k] = sched[k]
      BY <1>1, <1>2, SchedType
    <2> QED
      BY <2>1 DEF Held
  <1> QED
    BY <1>1, <1>2

-----------------------------------------------------------------------------
(* The history of the scheduler. *)
LEMMA SchedInit ==
    ASSUME Init
    PROVE  SchedOK
  <1>1. LastRank \in Nat /\ LastRank \in Stages /\ 0 \in Stages
    <2>1. pipe \in [stages : Nat \ {0, 1}, tail : Nat]
      BY DraftTailAssumption DEF Init
    <2> QED
      BY <2>1 DEF LastRank, PP, Stages
  <1>2. Len(sched) = 0 /\ DOMAIN sched = {}
    BY DEF Init
  <1>3. \A s \in Stages : done[s] = 0
    BY DEF Init
  <1> QED
    BY <1>1, <1>2, <1>3, DraftTailAssumption DEF SchedOK, Init

LEMMA NewestScheduled ==
    ASSUME TypeOK, SchedOK, Schedule, NEW n, n = Len(sched) + 1
    PROVE  NewestOK(n)'
  <1> DEFINE step == sched'[n]
  <1>1. /\ Len(sched) \in Nat /\ Len(sched') = n /\ pipe' = pipe
        /\ \A k \in 1 .. Len(sched) : sched'[k] = sched[k]
        /\ step \in StepRecord
        /\ \A r \in Slots : /\ step.newest[r] = IF r \in step.free THEN 0 ELSE NewestBefore(n)[r]
                            /\ r \in step.rows /\ step.newest[r] # 0 =>
                                 step.newest[r] + PP <= n /\ r \in step.sampled
    BY ScheduleFacts, SchedType DEF setupVars
  <1>2. PP' = PP
    BY <1>1, PipeStays
  <1> SUFFICES ASSUME NEW r \in Slots, NEW v, v = step.newest[r]
               PROVE  /\ v # 0 => v < n /\ r \in sched'[v].sampled /\ Held(r, v, n)'
                      /\ \A d \in 1 .. n - 1 : r \in sched'[d].sampled /\ Held(r, d, n)' => d <= v
                      /\ r \in step.rows /\ v # 0 => v + PP <= n /\ r \in step.sampled
    BY <1>2 DEF NewestOK, Sampled
  <1>3. v \in Nat
    BY <1>1, NumberTypes DEF StepRecord
  <1>4. r \in step.rows /\ v # 0 => v + PP <= n /\ r \in step.sampled
    BY <1>1
  <1>5. \A d \in Nat : d <= n - 1 => (Held(r, d, n)' <=> Held(r, d, n - 1) /\ r \notin step.free)
    <2> TAKE d \in Nat
    <2> SUFFICES ASSUME d <= n - 1
                 PROVE  Held(r, d, n)' <=> Held(r, d, n - 1) /\ r \notin step.free
      OBVIOUS
    <2>1. d + 1 .. n = (d + 1 .. n - 1) \cup {n}
      BY <1>1
    <2>2. \A k \in d + 1 .. n - 1 : sched'[k] = sched[k]
      BY <1>1
    <2> QED
      BY <2>1, <2>2 DEF Held
  <1> DEFINE m == Len(sched)
  <1>6. CASE m = 0
    <2>1. NewestBefore(n)[r] = 0
      BY <1>6 DEF NewestBefore, Zeros
    <2> QED
      BY <1>1, <1>4, <1>6, <2>1
  <1>7. CASE m # 0
    <2>1. m \in 1 .. Len(sched) /\ n - 1 = m /\ sched'[m] = sched[m]
      BY <1>1, <1>7
    <2>2. NewestBefore(n)[r] = IF r \in Sampled(m) THEN m ELSE sched[m].newest[r]
      BY <2>1, <1>1 DEF NewestBefore, Sampled
    <2>3. NewestOK(m)
      BY <2>1, SchedType DEF SchedOK
    <2>4. ASSUME v # 0
          PROVE  v < n /\ r \in sched'[v].sampled /\ Held(r, v, n)'
      <3>1. r \notin step.free /\ v = NewestBefore(n)[r]
        BY <1>1, <2>4
      <3>2. CASE r \in Sampled(m)
        <4>1. v = m
          BY <2>2, <3>1, <3>2
        <4>2. Held(r, m, m)
          BY <1>1 DEF Held
        <4> QED
          BY <1>1, <1>3, <1>5, <2>1, <3>1, <3>2, <4>1, <4>2 DEF Sampled
      <3>3. CASE r \notin Sampled(m)
        <4>1. v = sched[m].newest[r]
          BY <2>2, <3>1, <3>3
        <4>2. v < m /\ r \in Sampled(v) /\ Held(r, v, m)
          BY <2>3, <2>4, <4>1 DEF NewestOK
        <4>3. sched'[v] = sched[v]
          BY <1>1, <1>3, <2>4, <4>2
        <4> QED
          BY <1>1, <1>3, <1>5, <2>1, <3>1, <4>2, <4>3 DEF Sampled
      <3> QED
        BY <3>2, <3>3
    <2>5. ASSUME NEW d \in 1 .. n - 1, r \in sched'[d].sampled, Held(r, d, n)'
          PROVE  d <= v
      <3>1. r \notin step.free /\ Held(r, d, m) /\ r \in Sampled(d)
        BY <1>1, <1>5, <2>1, <2>5 DEF Sampled
      <3>2. v = NewestBefore(n)[r]
        BY <1>1, <3>1
      <3>3. CASE r \in Sampled(m)
        BY <2>1, <2>2, <2>5, <3>2, <3>3
      <3>4. CASE r \notin Sampled(m)
        <4>1. d \in 1 .. m - 1
          BY <1>1, <2>1, <3>1, <3>4
        <4>2. v = sched[m].newest[r]
          BY <2>2, <3>2, <3>4
        <4> QED
          BY <2>3, <3>1, <4>1, <4>2 DEF NewestOK
      <3> QED
        BY <3>3, <3>4
    <2> QED
      BY <1>4, <2>4, <2>5
  <1> QED
    BY <1>1, <1>6, <1>7

LEMMA SchedScheduled ==
    ASSUME TypeOK, SchedOK, Schedule
    PROVE  SchedOK'
  <1>1. /\ Len(sched) \in Nat /\ Len(sched') = Len(sched) + 1 /\ DOMAIN sched' = 1 .. Len(sched) + 1
        /\ UNCHANGED <<pipe, setup, done, qstep>>
        /\ setup = "serving" /\ Len(sched') <= MaxSteps /\ done[0] = Len(sched)
        /\ \A k \in 1 .. Len(sched) : sched'[k] = sched[k]
        /\ sched'[Len(sched) + 1].sampled \subseteq sched'[Len(sched) + 1].rows
    BY ScheduleFacts, SchedType DEF setupVars, hostVars
  <1>2. Stages' = Stages /\ LastRank' = LastRank /\ PP' = PP
    BY <1>1, PipeStays
  <1>3. \A s \in Stages : done[s] \in Nat
    BY NumberTypes
  <1>4. ASSUME NEW n \in Nat, n \in 1 .. Len(sched) + 1
        PROVE  Sampled(n)' \subseteq sched'[n].rows /\ NewestOK(n)'
    <2>1. CASE n = Len(sched) + 1
      BY <1>1, <2>1, NewestScheduled DEF Sampled
    <2>2. CASE n # Len(sched) + 1
      <3>1. n \in 1 .. Len(sched)
        BY <1>1, <1>4, <2>2
      <3>2. Sampled(n) \subseteq sched[n].rows /\ NewestOK(n) /\ sched'[n] = sched[n]
        BY <1>1, <3>1, SchedType DEF SchedOK
      <3>3. \A d \in 1 .. n - 1 : Sampled(d)' = Sampled(d)
        BY <1>1, <3>1 DEF Sampled
      <3>4. \A d, r : d \in Nat => (Held(r, d, n)' <=> Held(r, d, n))
        BY <3>1, ScheduleKeeps, <1>1
      <3>5. \A r \in Slots : sched[n].newest[r] \in Nat
        BY <3>1, SchedType, NumberTypes
      <3>6. NewestOK(n)'
        <4> SUFFICES ASSUME NEW r \in Slots, NEW v, v = sched[n].newest[r]
                     PROVE  /\ v # 0 => v < n /\ r \in Sampled(v)' /\ Held(r, v, n)'
                            /\ \A d \in 1 .. n - 1 : r \in Sampled(d)' /\ Held(r, d, n)' => d <= v
                            /\ r \in sched[n].rows /\ v # 0 => v + PP <= n /\ r \in Sampled(n)'
          BY <1>2, <3>2 DEF NewestOK
        <4>1. v # 0 => v \in 1 .. n - 1 /\ r \in Sampled(v) /\ Held(r, v, n)
          BY <3>1, <3>2, <3>5 DEF NewestOK
        <4>2. \A d \in 1 .. n - 1 : r \in Sampled(d) /\ Held(r, d, n) => d <= v
          BY <3>2 DEF NewestOK
        <4>3. r \in sched[n].rows /\ v # 0 => v + PP <= n /\ r \in Sampled(n)
          BY <3>2 DEF NewestOK
        <4>4. Sampled(n)' = Sampled(n)
          BY <3>2 DEF Sampled
        <4> QED
          BY <3>3, <3>4, <3>5, <4>1, <4>2, <4>3, <4>4
      <3> QED
        BY <3>2, <3>6 DEF Sampled
    <2> QED
      BY <2>1, <2>2
  <1> QED
    BY <1>1, <1>2, <1>3, <1>4 DEF SchedOK

-----------------------------------------------------------------------------
(* A step that is added changes nothing of what the stages have done.       *)
LEMMA OthersScheduled ==
    ASSUME DraftInv, Schedule
    PROVE  /\ GenOK' /\ QueueOK' /\ PendingOK' /\ StoredOK' /\ RemoteOK' /\ LastOK'
           /\ ReadOK' /\ StreamOK' /\ LandedOK'
  <1> TypeOK /\ SchedOK
    BY DEF DraftInv
  <1>1. /\ pipe' = pipe /\ split' = split /\ done' = done /\ gen' = gen /\ drafts' = drafts
        /\ read' = read /\ queue' = queue /\ pending' = pending /\ remote' = remote
        /\ qstep' = qstep /\ stream' = stream
    BY ScheduleFacts DEF setupVars, hostVars
  <1>2. /\ PP' = PP /\ LastRank' = LastRank /\ Stages' = Stages /\ Earlier' = Earlier
        /\ MaxAge' = MaxAge
    BY <1>1, PipeStays
  <1>3. /\ PP \in Nat /\ PP >= 2 /\ LastRank \in Stages /\ Earlier \subseteq Stages
        /\ \A s \in Stages : done[s] \in Nat /\ done[s] <= Len(sched)
        /\ Len(sched) \in Nat
    BY PipeFacts, NumberTypes, SchedType DEF SchedOK
  <1>4. /\ \A k \in 1 .. Len(sched) : sched'[k] = sched[k] /\ Sampled(k)' = Sampled(k)
        /\ \A r, d, n : d \in Nat /\ n \in Nat /\ n <= Len(sched) =>
             (Held(r, d, n)' <=> Held(r, d, n))
    BY ScheduleKeeps DEF Sampled
  <1>5. \A g, r : \A s \in Stages, k \in Nat : Since(g, s, r, k)' <=> Since(g, s, r, k)
    BY <1>1, <1>3, <1>4 DEF Since
  <1>6. GenOK'
    <2>1. Cardinality(Events(sched'))  <= MaxEvents
      BY ScheduleFacts
    <2>2. \A s \in Stages, r \in Slots : Frees(s, r)' = Frees(s, r)
      <3> TAKE s \in Stages, r \in Slots
      <3>1. \A k \in 1 .. done[s] : sched'[k] = sched[k]
        BY <1>3, <1>4
      <3> QED
        BY <1>1, <3>1 DEF Frees
    <2> QED
      BY <1>1, <1>2, <2>1, <2>2 DEF GenOK, DraftInv
  <1>7. QueueOK'
    <2> SUFFICES ASSUME NEW s \in Earlier, NEW i \in 1 .. PP, NEW k, k = done[s] - PP + i,
                        NEW g, g = queue[s][i].gen
                 PROVE  IF k >= 1 /\ Sampled(k)' # {}
                        THEN /\ queue[s][i].step = k
                             /\ \A r \in Slots : Since(g, s, r, k)'
                        ELSE queue[s][i].step = 0
      BY <1>1, <1>2 DEF QueueOK
    <2>1. IF k >= 1 /\ Sampled(k) # {}
          THEN /\ queue[s][i].step = k
               /\ \A r \in Slots : Since(g, s, r, k)
          ELSE queue[s][i].step = 0
      BY DEF QueueOK, DraftInv
    <2>2. k \in Int /\ k <= done[s]
      BY <1>3
    <2>3. k >= 1 => k \in 1 .. Len(sched)
      BY <1>3, <2>2
    <2> QED
      BY <1>1, <1>3, <1>4, <1>5, <2>1, <2>2, <2>3
  <1>8. PendingOK'
    <2> SUFFICES ASSUME NEW s \in Earlier, NEW p, p = pending[s]
                 PROVE  IF p.step = 0 THEN p.keep = {}
                        ELSE /\ split
                             /\ p.step <= done[s] - PP /\ sched'[done[s]].rows = {}
                             /\ p.keep \subseteq Sampled(p.step)'
                             /\ \A r \in Sampled(p.step)' : Held(r, p.step, done[s])' => r \in p.keep
                             /\ \A r \in p.keep : Since(p.gen, s, r, p.step)'
                             /\ \A r \in Slots : drafts[s][r] <= p.step
      BY <1>1, <1>2 DEF PendingOK
    <2>1. IF p.step = 0 THEN p.keep = {}
          ELSE /\ split
               /\ p.step <= done[s] - PP /\ sched[done[s]].rows = {}
               /\ p.keep \subseteq Sampled(p.step)
               /\ \A r \in Sampled(p.step) : Held(r, p.step, done[s]) => r \in p.keep
               /\ \A r \in p.keep : Since(p.gen, s, r, p.step)
               /\ \A r \in Slots : drafts[s][r] <= p.step
      BY DEF PendingOK, DraftInv
    <2>2. p.step \in Nat
      BY NumberTypes
    <2>3. p.step # 0 => p.step \in 1 .. Len(sched) /\ done[s] \in 1 .. Len(sched)
      BY <1>3, <2>1, <2>2
    <2> QED
      BY <1>1, <1>3, <1>4, <1>5, <2>1, <2>2, <2>3
  <1>9. StoredOK'
    <2> SUFFICES ASSUME NEW s \in Earlier, NEW r \in Slots, NEW x, x = drafts[s][r]
                 PROVE  /\ x # 0 => x <= done[s] - PP /\ r \in Sampled(x)' /\ Held(r, x, done[s])'
                        /\ \A d \in 1 .. done[s] - PP :
                             r \in Sampled(d)' /\ Held(r, d, done[s])' =>
                                d <= x \/ (d <= pending[s].step /\ r \in pending[s].keep)
      BY <1>1, <1>2 DEF StoredOK
    <2>1. /\ x # 0 => x <= done[s] - PP /\ r \in Sampled(x) /\ Held(r, x, done[s])
          /\ \A d \in 1 .. done[s] - PP :
               r \in Sampled(d) /\ Held(r, d, done[s]) =>
                  d <= x \/ (d <= pending[s].step /\ r \in pending[s].keep)
      BY DEF StoredOK, DraftInv
    <2>2. x \in Nat /\ (x # 0 => x \in 1 .. Len(sched))
      BY <1>3, <2>1, NumberTypes
    <2>3. \A d \in 1 .. done[s] - PP : d \in Nat /\ d \in 1 .. Len(sched)
      BY <1>3
    <2> QED
      BY <1>1, <1>3, <1>4, <2>1, <2>2, <2>3
  <1>10. RemoteOK'
    <2> SUFFICES ASSUME NEW i \in DOMAIN remote, NEW e, e = remote[i]
                 PROVE  /\ e.of <= done[LastRank] /\ e.keep = Sampled(e.of)' /\ e.keep # {}
                        /\ \A r \in Slots : Since(e.gen, LastRank, r, e.of)'
                        /\ \A j \in DOMAIN remote : i < j => e.of < remote[j].of
                        /\ qstep - MaxAge < e.step /\ e.step <= qstep - (Len(remote) - i)
                        /\ qstep - e.step <= done[LastRank] - e.of
                        /\ \/ qstep - e.step < PP
                           \/ \E k \in e.of + PP .. done[LastRank] : sched'[k].rows # {}
      BY <1>1, <1>2 DEF RemoteOK
    <2>1. /\ e.of <= done[LastRank] /\ e.keep = Sampled(e.of) /\ e.keep # {}
          /\ \A r \in Slots : Since(e.gen, LastRank, r, e.of)
          /\ \A j \in DOMAIN remote : i < j => e.of < remote[j].of
          /\ qstep - MaxAge < e.step /\ e.step <= qstep - (Len(remote) - i)
          /\ qstep - e.step <= done[LastRank] - e.of
          /\ \/ qstep - e.step < PP
             \/ \E k \in e.of + PP .. done[LastRank] : sched[k].rows # {}
      BY DEF RemoteOK, DraftInv
    <2>2. e.of \in Nat /\ e.of \in 1 .. Len(sched)
      BY <1>3, <2>1, RemoteType, NumberTypes
    <2>3. \A k \in e.of + PP .. done[LastRank] : sched'[k] = sched[k]
      BY <1>3, <1>4, <2>2
    <2> QED
      BY <1>1, <1>2, <1>3, <1>4, <1>5, <2>1, <2>2, <2>3
  <1>11. LastOK'
    <2> SUFFICES ASSUME NEW r \in Slots, NEW x, x = drafts[LastRank][r]
                 PROVE  /\ x # 0 => /\ x <= done[LastRank] /\ r \in sched'[x].rows
                                    /\ Held(r, x, done[LastRank])'
                        /\ \A i \in DOMAIN remote :
                             r \in remote[i].keep /\ Held(r, remote[i].of, done[LastRank])' =>
                                x < remote[i].of
                        /\ \A d \in 1 .. done[LastRank] :
                             r \in Sampled(d)' /\ Held(r, d, done[LastRank])' =>
                                d <= x \/ \E i \in DOMAIN remote : d <= remote[i].of /\ r \in remote[i].keep
      BY <1>1, <1>2 DEF LastOK
    <2>1. /\ x # 0 => /\ x <= done[LastRank] /\ r \in sched[x].rows
                      /\ Held(r, x, done[LastRank])
          /\ \A i \in DOMAIN remote :
               r \in remote[i].keep /\ Held(r, remote[i].of, done[LastRank]) =>
                  x < remote[i].of
          /\ \A d \in 1 .. done[LastRank] :
               r \in Sampled(d) /\ Held(r, d, done[LastRank]) =>
                  d <= x \/ \E i \in DOMAIN remote : d <= remote[i].of /\ r \in remote[i].keep
      BY DEF LastOK, DraftInv
    <2>2. x \in Nat /\ (x # 0 => x \in 1 .. Len(sched))
      BY <1>3, <2>1, NumberTypes
    <2>3. \A d \in 1 .. done[LastRank] : d \in Nat /\ d \in 1 .. Len(sched)
      BY <1>3
    <2>4. \A i \in DOMAIN remote : remote[i].of \in Nat
      BY RemoteType, NumberTypes
    <2> QED
      BY <1>1, <1>2, <1>3, <1>4, <2>1, <2>2, <2>3, <2>4
  <1>12. ReadOK'
    <2>1. done[LastRank] > 0 => sched'[done[LastRank]] = sched[done[LastRank]]
      BY <1>3, <1>4
    <2> QED
      BY <1>1, <1>2, <2>1 DEF ReadOK, DraftInv
  <1>13. StreamOK'
    <2>1. \A s, n : NoDrafts(s, n)' <=> NoDrafts(s, n)
      BY <1>1 DEF NoDrafts
    <2>2. \A s \in Stages : \A n \in 1 .. done[s] : Sampled(n)' = Sampled(n)
      BY <1>3, <1>4
    <2>3. \A s \in Stages : \A i \in DOMAIN stream[s] :
             stream[s][i].step <= done[s] => Sampled(stream[s][i].step)' = Sampled(stream[s][i].step)
      <3> TAKE s \in Stages
      <3> TAKE i \in DOMAIN stream[s]
      <3>1. stream[s][i].step \in Nat /\ stream[s][i].step >= 1
        BY StreamType, NumberTypes
      <3> QED
        BY <1>1, <1>3, <2>2, <3>1
    <2>4. \A s \in Stages : \A i \in DOMAIN stream[s] :
             LET op == stream[s][i]
             IN  /\ op.step <= done[s] /\ Sampled(op.step)' # {}
                 /\ ~NoDrafts(s, op.step)
                 /\ \A j \in DOMAIN stream[s] :
                      i < j => /\ op.step <= stream[s][j].step
                               /\ op.kind = "drafts" => op.step < stream[s][j].step
      BY <2>3 DEF StreamOK, DraftInv
    <2>5. \A s, t \in Stages : \A n \in 1 .. done[s] :
             Sampled(n)' # {} /\ NoDrafts(s, n) => n <= done[t] /\ NoDrafts(t, n)
      BY <2>2 DEF StreamOK, DraftInv
    <2> QED
      BY <1>1, <1>2, <2>1, <2>4, <2>5 DEF StreamOK
  <1>14. LandedOK'
    <2> SUFFICES ASSUME NEW s \in Earlier, NEW d \in 1 .. done[s] - PP, NEW r \in Sampled(d)'
                 PROVE  /\ Held(r, d, done[s])' => Landed(s, d) \/ pending[s].step = d
                        /\ \A k \in d + PP .. done[s] :
                             sched'[k].rows # {} /\ Held(r, d, k)' => Landed(s, d)
      BY <1>1, <1>2 DEF LandedOK, Landed
    <2>1. d \in Nat /\ d \in 1 .. Len(sched)
      BY <1>3
    <2>2. \A k \in d + PP .. done[s] : k \in Nat /\ k \in 1 .. Len(sched)
      BY <1>3, <2>1
    <2>3. r \in Sampled(d)
      BY <1>4, <2>1
    <2>4. /\ Held(r, d, done[s]) => Landed(s, d) \/ pending[s].step = d
          /\ \A k \in d + PP .. done[s] :
               sched[k].rows # {} /\ Held(r, d, k) => Landed(s, d)
      BY <2>3 DEF LandedOK, DraftInv
    <2> QED
      BY <1>1, <1>3, <1>4, <2>1, <2>2, <2>4
  <1> QED
    BY <1>6, <1>7, <1>8, <1>9, <1>10, <1>11, <1>12, <1>13, <1>14

-----------------------------------------------------------------------------
(* Agreement and collectives leave what the hosts hold alone. *)
LEMMA HostsKeep ==
    ASSUME GenOK /\ QueueOK /\ PendingOK /\ StoredOK /\ RemoteOK /\ LastOK /\ ReadOK,
           UNCHANGED <<pipe, split, sched, done, hostVars>>
    PROVE  (GenOK /\ QueueOK /\ PendingOK /\ StoredOK /\ RemoteOK /\ LastOK /\ ReadOK)'
  <1>1. /\ pipe' = pipe /\ split' = split /\ sched' = sched /\ done' = done /\ gen' = gen
        /\ drafts' = drafts /\ read' = read /\ queue' = queue /\ pending' = pending
        /\ remote' = remote /\ qstep' = qstep
    BY DEF hostVars
  <1>2. /\ PP' = PP /\ LastRank' = LastRank /\ Stages' = Stages /\ Earlier' = Earlier
        /\ MaxAge' = MaxAge
    BY <1>1, PipeStays
  <1>3. GenOK'
    BY <1>1, <1>2 DEF GenOK, Frees
  <1>4. QueueOK'
    BY <1>1, <1>2 DEF QueueOK, Since, Held, Sampled
  <1>5. PendingOK'
    BY <1>1, <1>2 DEF PendingOK, Since, Held, Sampled
  <1>6. StoredOK'
    BY <1>1, <1>2 DEF StoredOK, Held, Sampled
  <1>7. RemoteOK'
    BY <1>1, <1>2 DEF RemoteOK, Since, Held, Sampled
  <1>8. LastOK'
    BY <1>1, <1>2 DEF LastOK, Held, Sampled
  <1>9. ReadOK'
    BY <1>1, <1>2 DEF ReadOK
  <1> QED
    BY <1>3, <1>4, <1>5, <1>6, <1>7, <1>8, <1>9

LEMMA SchedKeeps ==
    ASSUME SchedOK, UNCHANGED <<pipe, sched>>, setup = "serving" => setup' = "serving",
           done' = done, qstep' = qstep
    PROVE  SchedOK'
  <1>1. PP' = PP /\ LastRank' = LastRank /\ Stages' = Stages
    BY PipeStays
  <1> QED
    BY <1>1 DEF SchedOK, NewestOK, Held, Sampled

LEMMA FinalizeStep ==
    ASSUME DraftInv, Finalize
    PROVE  DraftInv'
  <1> TypeOK /\ SchedOK
    BY DEF DraftInv
  <1>1. /\ UNCHANGED <<pipe, split, sched, done, hostVars, stream>>
        /\ setup # "serving"
    BY DEF Finalize, Agree, CopyWeights, Verdict, serveVars
  <1>2. Stages' = Stages /\ Earlier' = Earlier /\ PP' = PP /\ LastRank' = LastRank /\ MaxAge' = MaxAge
    BY <1>1, PipeStays
  <1>3. setup' \in {"agree", "copy", "verdict", "serving"} /\ {ok', live'} \subseteq [Stages -> BOOLEAN]
    <2>1. {ok, live} \subseteq [Stages -> BOOLEAN] /\ setup \in {"agree", "copy", "verdict", "serving"}
      BY DEF TypeOK
    <2>2. TailStage \in Stages
      BY PipeFacts
    <2> QED
      BY <2>1, <2>2 DEF Finalize, Agree, CopyWeights, Verdict
  <1>4. TypeOK'
    BY <1>1, <1>2, <1>3 DEF TypeOK, hostVars, Op
  <1>5. SchedOK'
    BY <1>1, SchedKeeps DEF hostVars
  <1>6. (GenOK /\ QueueOK /\ PendingOK /\ StoredOK /\ RemoteOK /\ LastOK /\ ReadOK)'
    BY <1>1, HostsKeep DEF DraftInv
  <1>7. StreamOK'
    BY <1>1, <1>2 DEF DraftInv, StreamOK, NoDrafts, Sampled
  <1>8. LandedOK'
    BY <1>1, <1>2 DEF DraftInv, LandedOK, Landed, Held, Sampled, hostVars
  <1> QED
    BY <1>4, <1>5, <1>6, <1>7, <1>8 DEF DraftInv

-----------------------------------------------------------------------------
(* A collective that completes leaves the stream of every member at once.   *)
LEMMA CompleteFacts ==
    ASSUME TypeOK, NEW op, NEW group, group \subseteq Stages, Complete(op, group)
    PROVE  /\ UNCHANGED <<setupVars, sched, done, hostVars>>
           /\ \A s \in Stages \ group : stream'[s] = stream[s]
           /\ \A s \in group : /\ Len(stream[s]) >= 1 /\ stream[s][1] = op
                               /\ stream'[s] \in Seq(Op) /\ Len(stream'[s]) = Len(stream[s]) - 1
                               /\ DOMAIN stream'[s] = 1 .. Len(stream[s]) - 1
                               /\ \A i \in 1 .. Len(stream[s]) - 1 :
                                    stream'[s][i] = stream[s][i + 1]
           /\ stream' \in [Stages -> Seq(Op)]
  <1>1. UNCHANGED <<setupVars, sched, done, hostVars>>
    BY DEF Complete
  <1>2. \A s \in Stages : stream'[s] = IF s \in group THEN Tail(stream[s]) ELSE stream[s]
    BY DEF Complete
  <1>3. ASSUME NEW s \in group
        PROVE  /\ Len(stream[s]) >= 1 /\ stream[s][1] = op
               /\ stream'[s] \in Seq(Op) /\ Len(stream'[s]) = Len(stream[s]) - 1
               /\ DOMAIN stream'[s] = 1 .. Len(stream[s]) - 1
               /\ \A i \in 1 .. Len(stream[s]) - 1 : stream'[s][i] = stream[s][i + 1]
    <2>1. stream[s] \in Seq(Op) /\ stream[s] # <<>> /\ Head(stream[s]) = op /\ s \in Stages
      BY StreamType DEF Complete
    <2>2. Len(stream[s]) \in Nat \ {0}
      BY <2>1, EmptySeq
    <2>3. /\ Tail(stream[s]) \in Seq(Op) /\ Len(Tail(stream[s])) = Len(stream[s]) - 1
          /\ \A i \in 1 .. Len(Tail(stream[s])) : Tail(stream[s])[i] = stream[s][i + 1]
      BY <2>1, HeadTailProperties
    <2>4. DOMAIN Tail(stream[s]) = 1 .. Len(stream[s]) - 1
      BY <2>3, LenProperties
    <2>5. stream[s][1] = op
      BY <2>1
    <2>6. stream'[s] = Tail(stream[s])
      BY <1>2, <2>1
    <2>7. Len(Tail(stream[s])) = Len(stream[s]) - 1 /\ Len(stream[s]) >= 1
      BY <2>2, <2>3
    <2> QED
      BY <2>3, <2>4, <2>5, <2>6, <2>7, Zenon
  <1>4. \A s \in Stages : stream'[s] \in Seq(Op)
    BY <1>2, <1>3, StreamType
  <1>5. stream' = [s \in Stages |-> stream'[s]]
    BY <1>2 DEF Complete
  <1> QED
    BY <1>1, <1>2, <1>3, <1>4, <1>5

(* Whether the drafts of a step are through after a collective completed.   *)
LEMMA CompleteDrafts ==
    ASSUME TypeOK, StreamOK, NEW op, NEW group, group \subseteq Stages, Complete(op, group),
           NEW s \in Stages, NEW n
    PROVE  /\ NoDrafts(s, n)' <=>
                NoDrafts(s, n) \/ (s \in group /\ op.kind = "drafts" /\ op.step = n)
           /\ Landed(s, n) => Landed(s, n)'
  <1>1. Len(stream[s]) \in Nat /\ DOMAIN stream[s] = 1 .. Len(stream[s])
        /\ \A i \in 1 .. Len(stream[s]) : stream[s][i].step \in Nat
    BY StreamType, NumberTypes
  <1>2. CASE s \notin group
    <2>1. stream'[s] = stream[s]
      BY <1>2, CompleteFacts
    <2> QED
      BY <1>2, <2>1 DEF NoDrafts, Landed
  <1>3. CASE s \in group
    <2>1. /\ Len(stream[s]) >= 1 /\ stream[s][1] = op
          /\ DOMAIN stream'[s] = 1 .. Len(stream[s]) - 1
          /\ \A i \in 1 .. Len(stream[s]) - 1 : stream'[s][i] = stream[s][i + 1]
      <3>1. \A t \in group :
               /\ Len(stream[t]) >= 1 /\ stream[t][1] = op
               /\ DOMAIN stream'[t] = 1 .. Len(stream[t]) - 1
               /\ \A i \in 1 .. Len(stream[t]) - 1 : stream'[t][i] = stream[t][i + 1]
        <4>1. \A t \in group :
                 /\ Len(stream[t]) >= 1 /\ stream[t][1] = op
                 /\ stream'[t] \in Seq(Op) /\ Len(stream'[t]) = Len(stream[t]) - 1
                 /\ DOMAIN stream'[t] = 1 .. Len(stream[t]) - 1
                 /\ \A i \in 1 .. Len(stream[t]) - 1 : stream'[t][i] = stream[t][i + 1]
          BY CompleteFacts
        <4> QED
          BY <4>1, Zenon
      <3> QED
        BY <1>3, <3>1
    <2>2. Landed(s, n) => Landed(s, n)'
      BY <1>1, <2>1 DEF Landed
    <2>3. ASSUME NoDrafts(s, n)
          PROVE  NoDrafts(s, n)'
      BY <1>1, <2>1, <2>3 DEF NoDrafts
    <2>4. ASSUME op.kind = "drafts", op.step = n
          PROVE  NoDrafts(s, n)'
      <3>1. \A j \in 1 .. Len(stream[s]) : 1 < j => n < stream[s][j].step
        BY <1>1, <2>1, <2>4 DEF StreamOK
      <3> QED
        BY <1>1, <2>1, <2>4, <3>1 DEF NoDrafts
    <2>5. ASSUME NoDrafts(s, n)', ~NoDrafts(s, n)
          PROVE  op.kind = "drafts" /\ op.step = n
      <3>1. PICK j \in 1 .. Len(stream[s]) : stream[s][j].step = n /\ stream[s][j].kind = "drafts"
        BY <1>1, <2>5 DEF NoDrafts
      <3>2. CASE j = 1
        BY <2>1, <3>1, <3>2
      <3>3. CASE j # 1
        <4>1. j - 1 \in 1 .. Len(stream[s]) - 1 /\ stream'[s][j - 1] = stream[s][j]
          BY <1>1, <2>1, <3>3
        <4> QED
          BY <2>1, <2>5, <3>1, <4>1 DEF NoDrafts
      <3> QED
        BY <3>2, <3>3
    <2> QED
      BY <1>3, <2>2, <2>3, <2>4, <2>5
  <1> QED
    BY <1>2, <1>3

(* All stages complete the drafts of a step together. *)
LEMMA CompleteStreams ==
    ASSUME TypeOK, StreamOK, NEW op, NEW group, Complete(op, group),
           group = Stages \/ (group \subseteq Stages /\ op.kind # "drafts")
    PROVE  StreamOK'
  <1>0. group \subseteq Stages
    OBVIOUS
  <1>1. Stages' = Stages /\ done' = done /\ sched' = sched
    BY <1>0, CompleteFacts, PipeStays DEF setupVars
  <1>2. ASSUME NEW s \in Stages, NEW i \in DOMAIN stream'[s]
        PROVE  LET o == stream'[s][i]
               IN  /\ o.step <= done[s] /\ Sampled(o.step) # {}
                   /\ \E j \in DOMAIN stream'[s] :
                        stream'[s][j].step = o.step /\ stream'[s][j].kind = "drafts"
                   /\ \A j \in DOMAIN stream'[s] :
                        i < j => /\ o.step <= stream'[s][j].step
                                 /\ o.kind = "drafts" => o.step < stream'[s][j].step
    <2>1. Len(stream[s]) \in Nat /\ DOMAIN stream[s] = 1 .. Len(stream[s])
      BY StreamType
    <2>2. CASE s \notin group
      <3>1. stream'[s] = stream[s]
        BY <1>0, <2>2, CompleteFacts
      <3> QED
        BY <1>2, <3>1 DEF StreamOK, NoDrafts
    <2>3. CASE s \in group
      <3>1. /\ Len(stream[s]) >= 1 /\ stream[s][1] = op
            /\ DOMAIN stream'[s] = 1 .. Len(stream[s]) - 1
            /\ \A k \in 1 .. Len(stream[s]) - 1 : stream'[s][k] = stream[s][k + 1]
        BY <1>0, <2>3, CompleteFacts
      <3>2. i \in 1 .. Len(stream[s]) - 1 /\ i + 1 \in DOMAIN stream[s]
        BY <1>2, <2>1, <3>1
      <3> DEFINE o == stream[s][i + 1]
      <3>3. /\ o.step <= done[s] /\ Sampled(o.step) # {}
            /\ ~NoDrafts(s, o.step)
            /\ \A j \in DOMAIN stream[s] :
                 i + 1 < j => /\ o.step <= stream[s][j].step
                              /\ o.kind = "drafts" => o.step < stream[s][j].step
        BY <3>2 DEF StreamOK
      <3>4. PICK j \in DOMAIN stream[s] : stream[s][j].step = o.step /\ stream[s][j].kind = "drafts"
        BY <3>3 DEF NoDrafts
      <3>5. j # 1
        <4> SUFFICES ASSUME j = 1 PROVE FALSE
          OBVIOUS
        <4>1. stream[s][1].step < stream[s][i + 1].step
          BY <2>1, <3>1, <3>2, <3>4 DEF StreamOK
        <4>2. o.step \in Nat
          BY <2>1, <3>2, StreamType, NumberTypes
        <4> QED
          BY <3>4, <4>1, <4>2
      <3>6. j - 1 \in DOMAIN stream'[s] /\ stream'[s][j - 1] = stream[s][j]
        BY <2>1, <3>1, <3>5
      <3>7. stream'[s][i] = o
        BY <3>1, <3>2
      <3>8. \A k \in DOMAIN stream'[s] : k + 1 \in DOMAIN stream[s] /\ stream'[s][k] = stream[s][k + 1]
        BY <2>1, <3>1
      <3>9. \A k \in DOMAIN stream'[s] :
               i < k => /\ o.step <= stream'[s][k].step
                        /\ o.kind = "drafts" => o.step < stream'[s][k].step
        <4> SUFFICES ASSUME NEW k \in DOMAIN stream'[s], i < k
                     PROVE  /\ o.step <= stream'[s][k].step
                            /\ o.kind = "drafts" => o.step < stream'[s][k].step
          OBVIOUS
        <4>1. k + 1 \in DOMAIN stream[s] /\ i + 1 < k + 1 /\ stream'[s][k] = stream[s][k + 1]
          BY <2>1, <3>1, <3>2, <3>8
        <4> QED
          BY <3>3, <4>1
      <3> QED
        BY <3>3, <3>4, <3>6, <3>7, <3>9
    <2> QED
      BY <2>2, <2>3
  <1>3. ASSUME NEW s \in Stages, NEW t \in Stages, NEW n \in 1 .. done[s],
               Sampled(n) # {}, NoDrafts(s, n)'
        PROVE  n <= done[t] /\ NoDrafts(t, n)'
    <2>1. CASE NoDrafts(s, n)
      BY <1>0, <1>3, <2>1, CompleteDrafts DEF StreamOK
    <2>2. CASE ~NoDrafts(s, n)
      <3>1. s \in group /\ op.kind = "drafts" /\ op.step = n
        BY <1>0, <1>3, <2>2, CompleteDrafts
      <3>2. group = Stages
        BY <3>1
      <3>3. Len(stream[t]) >= 1 /\ stream[t][1] = op
        BY <1>0, <3>2, CompleteFacts
      <3>4. 1 \in DOMAIN stream[t]
        BY <3>3, StreamType
      <3>5. n <= done[t]
        BY <3>1, <3>3, <3>4 DEF StreamOK
      <3> QED
        BY <1>0, <3>1, <3>2, <3>5, CompleteDrafts
    <2> QED
      BY <2>1, <2>2
  <1>4. \A s \in Stages : \A i \in DOMAIN stream'[s] : ~NoDrafts(s, stream[s][i].step)'
    BY <1>2 DEF NoDrafts
  <1>5. \A s, n : Sampled(n)' = Sampled(n)
    BY <1>1 DEF Sampled
  <1> QED
    BY <1>1, <1>2, <1>3, <1>4, <1>5 DEF StreamOK

LEMMA CompleteStep ==
    ASSUME DraftInv, Broadcast \/ SendPayload
    PROVE  DraftInv'
  <1> TypeOK /\ SchedOK /\ StreamOK /\ LandedOK
    BY DEF DraftInv
  <1>1. PICK op, group : /\ Complete(op, group) /\ group \subseteq Stages
                         /\ group = Stages \/ op.kind # "drafts"
    <2>1. CASE Broadcast
      BY <2>1 DEF Broadcast
    <2>2. CASE SendPayload
      <3>1. TailStage \in Stages /\ LastRank \in Stages
        BY PipeFacts
      <3> QED
        BY <2>2, <3>1 DEF SendPayload
    <2> QED
      BY <2>1, <2>2
  <1>2. UNCHANGED <<setupVars, sched, done, hostVars>> /\ stream' \in [Stages -> Seq(Op)]
    BY <1>1, CompleteFacts
  <1>3. Stages' = Stages /\ Earlier' = Earlier /\ PP' = PP /\ LastRank' = LastRank /\ MaxAge' = MaxAge
    BY <1>2, PipeStays DEF setupVars
  <1>4. TypeOK'
    BY <1>2, <1>3 DEF TypeOK, hostVars, setupVars, Op
  <1>5. SchedOK'
    BY <1>2, SchedKeeps DEF hostVars, setupVars
  <1>6. (GenOK /\ QueueOK /\ PendingOK /\ StoredOK /\ RemoteOK /\ LastOK /\ ReadOK)'
    BY <1>2, HostsKeep DEF DraftInv, setupVars
  <1>7. StreamOK'
    BY <1>1, CompleteStreams
  <1>8. LandedOK'
    <2>1. \A n : \A s \in Earlier : Landed(s, n) => Landed(s, n)'
      BY <1>1, CompleteDrafts, PipeFacts
    <2> SUFFICES ASSUME NEW s \in Earlier, NEW d \in 1 .. done[s] - PP, NEW r \in Sampled(d)
                 PROVE  /\ Held(r, d, done[s]) => Landed(s, d)' \/ pending[s].step = d
                        /\ \A k \in d + PP .. done[s] :
                             sched[k].rows # {} /\ Held(r, d, k) => Landed(s, d)'
      BY <1>2, <1>3 DEF LandedOK, hostVars, Held, Sampled
    <2> QED
      BY <2>1 DEF LandedOK
  <1> QED
    BY <1>4, <1>5, <1>6, <1>7, <1>8 DEF DraftInv

-----------------------------------------------------------------------------
(* The collectives of a step: all of this step, the drafts last.            *)
LEMMA ThreeInARow ==
    ASSUME NEW S, NEW a \in S, NEW b \in S, NEW c \in S
    PROVE  /\ (<<a>> \o <<b>>) \o <<c>> = <<a, b, c>>
           /\ (<<a>> \o <<>>) \o <<c>> = <<a, c>>
  <1>1. <<a>> \in Seq(S) /\ <<b>> \in Seq(S) /\ <<c>> \in Seq(S) /\ <<>> \in Seq(S)
    OBVIOUS
  <1>2. ASSUME NEW t \in Seq(S)
        PROVE  /\ t \o <<c>> \in Seq(S) /\ Len(t \o <<c>>) = Len(t) + 1
               /\ (t \o <<c>>)[Len(t) + 1] = c
               /\ \A i \in 1 .. Len(t) : (t \o <<c>>)[i] = t[i]
    <2>1. t \o <<c>> = Append(t, c)
      BY <1>1, AppendIsConcat
    <2> QED
      BY <2>1, AppendProperties
  <1>3. /\ <<a>> \o <<b>> \in Seq(S) /\ Len(<<a>> \o <<b>>) = 2
        /\ (<<a>> \o <<b>>)[1] = a /\ (<<a>> \o <<b>>)[2] = b
    <2>1. <<a>> \o <<b>> = Append(<<a>>, b)
      BY <1>1, AppendIsConcat
    <2>2. Len(<<a>>) = 1 /\ <<a>>[1] = a
      OBVIOUS
    <2> QED
      BY <1>1, <2>1, <2>2, AppendProperties
  <1>4. (<<a>> \o <<b>>) \o <<c>> = <<a, b, c>>
    <2> DEFINE t == <<a>> \o <<b>>
    <2> HIDE DEF t
    <2>1. t \in Seq(S) /\ Len(t) = 2 /\ t[1] = a /\ t[2] = b
      BY <1>3 DEF t
    <2> DEFINE u == t \o <<c>>
    <2>2. /\ u \in Seq(S) /\ Len(u) = Len(t) + 1 /\ u[Len(t) + 1] = c
          /\ \A i \in 1 .. Len(t) : u[i] = t[i]
      BY <1>2, <2>1
    <2> HIDE DEF u
    <2>3. u \in Seq(S) /\ Len(u) = 3 /\ u[1] = a /\ u[2] = b /\ u[3] = c
      BY <2>1, <2>2
    <2>4. <<a, b, c>> \in Seq(S) /\ Len(<<a, b, c>>) = 3
      OBVIOUS
    <2>5. \A i \in 1 .. 3 : u[i] = <<a, b, c>>[i]
      BY <2>3
    <2>6. u = <<a, b, c>>
      BY <2>3, <2>4, <2>5, SeqEqual
    <2> QED
      BY <2>6 DEF t, u
  <1>5. (<<a>> \o <<>>) \o <<c>> = <<a, c>>
    <2>1. <<a>> \o <<>> = <<a>>
      BY <1>1, ConcatEmptySeq
    <2> DEFINE u == <<a>> \o <<c>>
    <2> HIDE DEF u
    <2>2. u = Append(<<a>>, c)
      BY <1>1, AppendIsConcat DEF u
    <2>3. Len(<<a>>) = 1 /\ <<a>>[1] = a
      OBVIOUS
    <2>4. u \in Seq(S) /\ Len(u) = 2 /\ u[1] = a /\ u[2] = c
      BY <1>1, <2>2, <2>3, AppendProperties
    <2>5. <<a, c>> \in Seq(S) /\ Len(<<a, c>>) = 2 /\ \A i \in 1 .. 2 : u[i] = <<a, c>>[i]
      BY <2>4
    <2>6. u = <<a, c>>
      BY <2>4, <2>5, SeqEqual
    <2> QED
      BY <2>1, <2>6 DEF u
  <1> QED
    BY <1>4, <1>5

LEMMA CollectivesFacts ==
    ASSUME TypeOK, NEW s \in Stages, NEW n \in 1 .. MaxSteps
    PROVE  LET c == Collectives(s, n)
           IN  /\ c \in Seq(Op) /\ Len(c) \in Nat /\ Len(c) >= 1
               /\ \A i \in 1 .. Len(c) : /\ c[i].step = n
                                         /\ c[i].kind = "drafts" <=> i = Len(c)
  <1> DEFINE counts == [step |-> n, kind |-> "counts", root |-> LastRank]
             payload == [step |-> n, kind |-> "payload", root |-> LastRank]
             last == [step |-> n, kind |-> "drafts",
                      root |-> IF RemoteStep(s, n) THEN TailStage ELSE LastRank]
  <1>1. counts \in Op /\ payload \in Op /\ last \in Op
    BY PipeFacts DEF Op
  <1>2. CASE RemoteStep(s, n) /\ s \in {TailStage, LastRank}
    <2>1. Collectives(s, n) = (<<counts>> \o <<payload>>) \o <<last>>
      BY <1>2 DEF Collectives
    <2>2. (<<counts>> \o <<payload>>) \o <<last>> = <<counts, payload, last>>
      BY <1>1, ThreeInARow
    <2> HIDE DEF counts, payload, last
    <2>3. Collectives(s, n) = <<counts, payload, last>>
      BY <2>1, <2>2
    <2>4. counts.step = n /\ counts.kind = "counts" /\ payload.step = n /\ payload.kind = "payload"
          /\ last.step = n /\ last.kind = "drafts"
      BY DEF counts, payload, last
    <2> QED
      BY <1>1, <2>3, <2>4
  <1>3. CASE ~(RemoteStep(s, n) /\ s \in {TailStage, LastRank})
    <2>1. Collectives(s, n) = (<<counts>> \o <<>>) \o <<last>>
      BY <1>3, Zenon DEF Collectives
    <2>2. (<<counts>> \o <<>>) \o <<last>> = <<counts, last>>
      BY <1>1, ThreeInARow
    <2> HIDE DEF counts, payload, last
    <2>3. Collectives(s, n) = <<counts, last>>
      BY <2>1, <2>2
    <2>4. counts.step = n /\ counts.kind = "counts" /\ last.step = n /\ last.kind = "drafts"
      BY DEF counts, last
    <2> QED
      BY <1>1, <2>3, <2>4
  <1> QED
    BY <1>2, <1>3

(* What a stage's step puts on its stream. *)
Issues(s) ==
    /\ HasStep(s) /\ pipe' = pipe /\ sched' = sched /\ done' = [done EXCEPT ![s] = @ + 1]
    /\ \/ Sampled(At(s)) = {} /\ stream' = stream
       \/ /\ Sampled(At(s)) # {}
          /\ stream' = [stream EXCEPT ![s] = @ \o Collectives(s, At(s))]

LEMMA StepNumber ==
    ASSUME TypeOK, SchedOK, NEW s \in Stages, HasStep(s)
    PROVE  /\ At(s) = done[s] + 1 /\ At(s) \in 1 .. Len(sched) /\ At(s) \in 1 .. MaxSteps
           /\ done[s] \in Nat /\ At(s) \in Nat /\ Now(s) = sched[At(s)]
  BY NumberTypes, SchedType DEF HasStep, At, SchedOK, Now

LEMMA IssueFacts ==
    ASSUME TypeOK, SchedOK, NEW s \in Stages, Issues(s)
    PROVE  /\ stream' \in [Stages -> Seq(Op)]
           /\ \A t \in Stages \ {s} : stream'[t] = stream[t] /\ done'[t] = done[t]
           /\ done'[s] = At(s)
           /\ \/ Sampled(At(s)) = {} /\ stream'[s] = stream[s]
              \/ /\ Sampled(At(s)) # {}
                 /\ \E m \in Nat \ {0} :
                      LET l == Len(stream[s])
                      IN  /\ Len(stream'[s]) = l + m /\ DOMAIN stream'[s] = 1 .. l + m
                          /\ \A i \in 1 .. l : stream'[s][i] = stream[s][i]
                          /\ \A i \in l + 1 .. l + m :
                               /\ stream'[s][i].step = At(s)
                               /\ stream'[s][i].kind = "drafts" <=> i = l + m
  <1>1. At(s) \in 1 .. MaxSteps /\ At(s) = done[s] + 1
    BY StepNumber DEF Issues
  <1>2. done'[s] = At(s) /\ \A t \in Stages \ {s} : done'[t] = done[t]
    BY <1>1 DEF Issues, TypeOK
  <1>3. CASE Sampled(At(s)) = {}
    BY <1>2, <1>3 DEF Issues, TypeOK, Op
  <1>4. CASE Sampled(At(s)) # {}
    <2> DEFINE c == Collectives(s, At(s))
    <2>1. stream' = [stream EXCEPT ![s] = @ \o c]
      BY <1>4 DEF Issues
    <2>2. /\ c \in Seq(Op) /\ Len(c) \in Nat /\ Len(c) >= 1
          /\ \A i \in 1 .. Len(c) : c[i].step = At(s) /\ (c[i].kind = "drafts" <=> i = Len(c))
      BY <1>1, CollectivesFacts
    <2>3. stream[s] \in Seq(Op) /\ Len(stream[s]) \in Nat /\ stream \in [Stages -> Seq(Op)]
      BY StreamType DEF TypeOK, Op
    <2> HIDE DEF c
    <2>4. stream'[s] = stream[s] \o c /\ \A t \in Stages \ {s} : stream'[t] = stream[t]
      BY <2>1, <2>3
    <2>5. /\ stream[s] \o c \in Seq(Op) /\ Len(stream[s] \o c) = Len(stream[s]) + Len(c)
          /\ \A i \in 1 .. Len(stream[s]) + Len(c) :
               (stream[s] \o c)[i] = IF i <= Len(stream[s]) THEN stream[s][i] ELSE c[i - Len(stream[s])]
      BY <2>2, <2>3, ConcatProperties
    <2>6. DOMAIN stream'[s] = 1 .. Len(stream[s]) + Len(c)
      BY <2>4, <2>5, LenProperties
    <2>7. stream' \in [Stages -> Seq(Op)]
      BY <2>1, <2>3, <2>5
    <2>8. \A i \in 1 .. Len(stream[s]) : stream'[s][i] = stream[s][i]
      BY <2>2, <2>3, <2>4, <2>5
    <2>9. ASSUME NEW i \in Len(stream[s]) + 1 .. Len(stream[s]) + Len(c)
          PROVE  /\ stream'[s][i].step = At(s)
                 /\ stream'[s][i].kind = "drafts" <=> i = Len(stream[s]) + Len(c)
      <3>1. i - Len(stream[s]) \in 1 .. Len(c) /\ stream'[s][i] = c[i - Len(stream[s])]
        BY <2>2, <2>3, <2>4, <2>5
      <3> QED
        <4> DEFINE j == i - Len(stream[s])
        <4>1. c[j].step = At(s) /\ (c[j].kind = "drafts" <=> j = Len(c))
          BY <2>2, <3>1
        <4>2. j = Len(c) <=> i = Len(stream[s]) + Len(c)
          BY <2>2, <2>3
        <4> QED
          BY <3>1, <4>1, <4>2
    <2>10. Len(c) \in Nat \ {0}
      BY <2>2
    <2>11. Len(stream'[s]) = Len(stream[s]) + Len(c)
      BY <2>4, <2>5
    <2>12. \E m \in Nat \ {0} :
             LET l == Len(stream[s])
             IN  /\ Len(stream'[s]) = l + m /\ DOMAIN stream'[s] = 1 .. l + m
                 /\ \A i \in 1 .. l : stream'[s][i] = stream[s][i]
                 /\ \A i \in l + 1 .. l + m :
                      /\ stream'[s][i].step = At(s)
                      /\ stream'[s][i].kind = "drafts" <=> i = l + m
      BY <2>6, <2>8, <2>9, <2>10, <2>11
    <2> QED
      BY <1>2, <1>4, <2>4, <2>7, <2>12
  <1> QED
    BY <1>3, <1>4

LEMMA IssueLanded ==
    ASSUME TypeOK, SchedOK, NEW s \in Stages, Issues(s), NEW t \in Stages, NEW n \in 1 .. done[t]
    PROVE  /\ Landed(t, n) <=> Landed(t, n)'
           /\ NoDrafts(t, n) <=> NoDrafts(t, n)'
  <1>1. /\ done[s] \in Nat /\ At(s) = done[s] + 1
        /\ Len(stream[s]) \in Nat /\ DOMAIN stream[s] = 1 .. Len(stream[s])
    BY StepNumber, StreamType DEF Issues
  <1>2. CASE t # s \/ Sampled(At(s)) = {}
    <2>1. stream'[t] = stream[t]
      BY <1>2, IssueFacts
    <2> QED
      BY <2>1 DEF Landed, NoDrafts
  <1>3. CASE t = s /\ Sampled(At(s)) # {}
    <2> DEFINE l == Len(stream[s])
    <2>1. PICK m \in Nat \ {0} :
             /\ DOMAIN stream'[s] = 1 .. l + m
             /\ \A i \in 1 .. l : stream'[s][i] = stream[s][i]
             /\ \A i \in l + 1 .. l + m : stream'[s][i].step = At(s)
      BY <1>3, IssueFacts
    <2>2. \A i \in l + 1 .. l + m : stream'[s][i].step # n
      BY <1>1, <1>3, <2>1
    <2>3. 1 .. l + m = (1 .. l) \cup (l + 1 .. l + m)
      BY <1>1, <2>1
    <2> QED
      BY <1>1, <1>3, <2>1, <2>2, <2>3 DEF Landed, NoDrafts
  <1> QED
    BY <1>2, <1>3

LEMMA IssueStreams ==
    ASSUME TypeOK, SchedOK, StreamOK, NEW s \in Stages, Issues(s)
    PROVE  StreamOK'
  <1>1. /\ done[s] \in Nat /\ At(s) = done[s] + 1 /\ done'[s] = At(s)
        /\ Stages' = Stages /\ sched' = sched
        /\ \A t \in Stages \ {s} : stream'[t] = stream[t] /\ done'[t] = done[t]
    BY StepNumber, IssueFacts, PipeStays DEF Issues
  <1>2. \A t \in Stages : /\ done[t] \in Nat /\ done'[t] \in Nat /\ done[t] <= done'[t]
                          /\ DOMAIN stream[t] = 1 .. Len(stream[t]) /\ Len(stream[t]) \in Nat
                          /\ \A i \in DOMAIN stream[t] : stream[t][i].step \in Nat
    BY <1>1, NumberTypes, StreamType
  <1>3. ASSUME NEW t \in Stages, NEW i \in DOMAIN stream'[t]
        PROVE  LET o == stream'[t][i]
               IN  /\ o.step <= done'[t] /\ Sampled(o.step) # {}
                   /\ \E j \in DOMAIN stream'[t] :
                        stream'[t][j].step = o.step /\ stream'[t][j].kind = "drafts"
                   /\ \A j \in DOMAIN stream'[t] :
                        i < j => /\ o.step <= stream'[t][j].step
                                 /\ o.kind = "drafts" => o.step < stream'[t][j].step
    <2>1. CASE t # s \/ Sampled(At(s)) = {}
      <3>1. stream'[t] = stream[t]
        BY <2>1, IssueFacts
      <3>2. LET o == stream[t][i]
            IN  /\ o.step <= done[t] /\ Sampled(o.step) # {}
                /\ \E j \in DOMAIN stream[t] :
                     stream[t][j].step = o.step /\ stream[t][j].kind = "drafts"
                /\ \A j \in DOMAIN stream[t] :
                     i < j => /\ o.step <= stream[t][j].step
                              /\ o.kind = "drafts" => o.step < stream[t][j].step
        BY <1>3, <3>1 DEF StreamOK, NoDrafts
      <3>3. stream[t][i].step <= done'[t]
        BY <1>2, <1>3, <3>1, <3>2
      <3> QED
        BY <3>1, <3>2, <3>3
    <2>2. CASE t = s /\ Sampled(At(s)) # {}
      <3> DEFINE l == Len(stream[s])
      <3>1. PICK m \in Nat \ {0} :
               /\ DOMAIN stream'[s] = 1 .. l + m
               /\ \A k \in 1 .. l : stream'[s][k] = stream[s][k]
               /\ \A k \in l + 1 .. l + m : /\ stream'[s][k].step = At(s)
                                            /\ stream'[s][k].kind = "drafts" <=> k = l + m
        BY <2>2, IssueFacts
      <3>2. l \in Nat /\ DOMAIN stream[s] = 1 .. l
        BY <1>2
      <3> HIDE DEF l
      <3>3. CASE i \in 1 .. l
        <4> DEFINE o == stream[s][i]
        <4>1. stream'[s][i] = o
          BY <3>1, <3>3
        <4>2. /\ o.step <= done[s] /\ Sampled(o.step) # {} /\ ~NoDrafts(s, o.step)
              /\ \A j \in 1 .. l :
                   i < j => /\ o.step <= stream[s][j].step
                            /\ o.kind = "drafts" => o.step < stream[s][j].step
          BY <3>2, <3>3 DEF StreamOK
        <4>3. o.step \in Nat
          BY <1>2, <3>2, <3>3
        <4>4. PICK j \in 1 .. l : stream[s][j].step = o.step /\ stream[s][j].kind = "drafts"
          BY <3>2, <4>2 DEF NoDrafts
        <4>5. j \in DOMAIN stream'[s] /\ stream'[s][j] = stream[s][j]
          BY <3>1, <3>2, <4>4
        <4> HIDE DEF o
        <4>6. ASSUME NEW k \in DOMAIN stream'[s], i < k
              PROVE  /\ o.step <= stream'[s][k].step
                     /\ o.kind = "drafts" => o.step < stream'[s][k].step
          <5>1. CASE k \in 1 .. l
            BY <3>1, <4>2, <4>6, <5>1
          <5>2. CASE k \notin 1 .. l
            <6>1. k \in l + 1 .. l + m
              BY <3>1, <3>2, <5>2
            <6> QED
              BY <1>1, <3>1, <4>2, <4>3, <6>1
          <5> QED
            BY <5>1, <5>2
        <4>7. o.step <= done'[s]
          BY <1>1, <4>2, <4>3
        <4> QED
          BY <2>2, <4>1, <4>2, <4>4, <4>5, <4>6, <4>7
      <3>4. CASE i \notin 1 .. l
        <4>1. i \in l + 1 .. l + m
          BY <1>3, <2>2, <3>1, <3>2, <3>4
        <4>2. stream'[s][i].step = At(s) /\ (stream'[s][i].kind = "drafts" <=> i = l + m)
          BY <3>1, <4>1
        <4>3. l + m \in DOMAIN stream'[s] /\ l + m \in l + 1 .. l + m
          BY <3>1, <3>2
        <4>4. stream'[s][l + m].step = At(s) /\ stream'[s][l + m].kind = "drafts"
          BY <3>1, <4>3
        <4>5. ASSUME NEW k \in DOMAIN stream'[s], i < k
              PROVE  /\ At(s) <= stream'[s][k].step
                     /\ stream'[s][i].kind = "drafts" => At(s) < stream'[s][k].step
          <5>1. k \in l + 1 .. l + m /\ i # l + m
            BY <3>1, <3>2, <4>1, <4>5
          <5> QED
            BY <1>1, <3>1, <4>2, <5>1
        <4> QED
          BY <1>1, <2>2, <4>2, <4>3, <4>4, <4>5
      <3> QED
        BY <3>3, <3>4
    <2> QED
      BY <2>1, <2>2
  <1>4. ASSUME NEW t \in Stages, NEW u \in Stages, NEW n \in 1 .. done'[t],
               Sampled(n) # {}, NoDrafts(t, n)'
        PROVE  n <= done'[u] /\ NoDrafts(u, n)'
    <2>1. n \in 1 .. done[t]
      <3> SUFFICES ASSUME n \notin 1 .. done[t] PROVE FALSE
        OBVIOUS
      <3>1. t = s /\ n = At(s)
        BY <1>1, <1>2
      <3> DEFINE l == Len(stream[s])
      <3>2. PICK m \in Nat \ {0} :
               /\ DOMAIN stream'[s] = 1 .. l + m
               /\ \A k \in l + 1 .. l + m : /\ stream'[s][k].step = At(s)
                                            /\ stream'[s][k].kind = "drafts" <=> k = l + m
        BY <1>4, <3>1, IssueFacts
      <3>3. l + m \in DOMAIN stream'[s] /\ l + m \in l + 1 .. l + m
        BY <1>2, <3>2
      <3> QED
        BY <1>4, <3>1, <3>2, <3>3 DEF NoDrafts
    <2>2. NoDrafts(t, n)
      BY <1>4, <2>1, IssueLanded
    <2>3. n <= done[u] /\ NoDrafts(u, n)
      BY <1>4, <2>1, <2>2 DEF StreamOK
    <2>4. n \in 1 .. done[u] /\ n <= done'[u]
      BY <1>2, <2>1, <2>3
    <2> QED
      BY <2>3, <2>4, IssueLanded
  <1>5. \A t \in Stages : \A i \in DOMAIN stream'[t] : ~NoDrafts(t, stream[t][i].step)'
    BY <1>3 DEF NoDrafts
  <1>6. \A n : Sampled(n)' = Sampled(n)
    BY <1>1 DEF Sampled
  <1> QED
    BY <1>1, <1>3, <1>4, <1>5, <1>6 DEF StreamOK

-----------------------------------------------------------------------------
(* What the step of any stage does to its number and its generations.       *)
Steps(s) ==
    /\ HasStep(s) /\ UNCHANGED <<pipe, split, setup, sched>>
    /\ done' = [done EXCEPT ![s] = @ + 1]
    /\ gen' = [gen EXCEPT ![s] = GenAfter(s)]

LEMMA StepFacts ==
    ASSUME TypeOK, SchedOK, NEW s \in Stages, Steps(s)
    PROVE  /\ PP' = PP /\ LastRank' = LastRank /\ Stages' = Stages /\ Earlier' = Earlier
           /\ MaxAge' = MaxAge /\ sched' = sched /\ split' = split
           /\ \A n : Sampled(n)' = Sampled(n)
           /\ \A r, d, n : Held(r, d, n)' <=> Held(r, d, n)
           /\ done[s] \in Nat /\ done'[s] = done[s] + 1 /\ At(s) = done[s] + 1
           /\ At(s) \in 1 .. Len(sched) /\ At(s) \in 1 .. MaxSteps /\ Now(s) = sched[At(s)]
           /\ \A t \in Stages \ {s} : done'[t] = done[t] /\ gen'[t] = gen[t]
           /\ \A r \in Slots : gen'[s][r] = IF r \in Now(s).free THEN gen[s][r] + 1 ELSE gen[s][r]
           /\ gen'[s] = GenAfter(s)
  <1>1. PP' = PP /\ LastRank' = LastRank /\ Stages' = Stages /\ Earlier' = Earlier /\ MaxAge' = MaxAge
    BY PipeStays DEF Steps
  <1>2. sched' = sched /\ split' = split
    BY DEF Steps
  <1>3. /\ \A n : Sampled(n)' = Sampled(n)
        /\ \A r, d, n : Held(r, d, n)' <=> Held(r, d, n)
    BY <1>2 DEF Sampled, Held
  <1>4. /\ done[s] \in Nat /\ At(s) = done[s] + 1 /\ At(s) \in 1 .. Len(sched)
        /\ At(s) \in 1 .. MaxSteps /\ Now(s) = sched[At(s)]
    BY StepNumber DEF Steps
  <1>5. done'[s] = done[s] + 1 /\ gen'[s] = GenAfter(s)
        /\ \A t \in Stages \ {s} : done'[t] = done[t] /\ gen'[t] = gen[t]
    BY DEF Steps, TypeOK
  <1>6. \A r \in Slots : GenAfter(s)[r] = IF r \in Now(s).free THEN gen[s][r] + 1 ELSE gen[s][r]
    BY DEF GenAfter
  <1> QED
    BY <1>1, <1>2, <1>3, <1>4, <1>5, <1>6

LEMMA StepGen ==
    ASSUME TypeOK, SchedOK, GenOK, NEW s \in Stages, Steps(s)
    PROVE  GenOK' /\ gen' \in [Stages -> [Slots -> 0 .. MaxEvents]]
           /\ done' \in [Stages -> 0 .. MaxSteps]
  <1>1. /\ Stages' = Stages /\ sched' = sched /\ done'[s] = done[s] + 1 /\ done[s] \in Nat
        /\ At(s) \in 1 .. Len(sched) /\ At(s) \in 1 .. MaxSteps /\ At(s) = done[s] + 1
        /\ \A t \in Stages \ {s} : done'[t] = done[t] /\ gen'[t] = gen[t]
        /\ \A r \in Slots : gen'[s][r] = IF r \in Now(s).free THEN gen[s][r] + 1 ELSE gen[s][r]
        /\ gen'[s] = GenAfter(s)
    BY StepFacts
  <1>2. ASSUME NEW r \in Slots
        PROVE  /\ gen'[s][r] = Cardinality(Frees(s, r)')
               /\ gen'[s][r] \in 0 .. MaxEvents
    <2>1. /\ IsFiniteSet(Frees(s, r)) /\ gen[s][r] = Cardinality(Frees(s, r)) /\ gen[s][r] \in Nat
      BY FreesFinite, NumberTypes DEF GenOK, SchedOK
    <2>2. /\ Frees(s, r)' = IF r \in Now(s).free THEN Frees(s, r) \cup {<<At(s), r, "freed">>}
                                                 ELSE Frees(s, r)
          /\ <<At(s), r, "freed">> \notin Frees(s, r)
      BY FreesStep DEF Steps
    <2>3. gen'[s][r] = Cardinality(Frees(s, r)')
      <3>1. CASE r \in Now(s).free
        <4>1. Cardinality(Frees(s, r) \cup {<<At(s), r, "freed">>}) = Cardinality(Frees(s, r)) + 1
          BY <2>1, <2>2, FS_AddElement
        <4> QED
          BY <1>1, <2>1, <2>2, <3>1, <4>1
      <3>2. CASE r \notin Now(s).free
        BY <1>1, <2>1, <2>2, <3>2
      <3> QED
        BY <3>1, <3>2
    <2>4. Frees(s, r)' \subseteq Events(sched)
      <3>1. Frees(s, r) \subseteq Events(sched)
        BY <1>1, SchedType, NumberTypes DEF Frees, Events, SchedOK
      <3>2. r \in Now(s).free => <<At(s), r, "freed">> \in Events(sched)
        BY <1>1, SchedType DEF Events, Now
      <3> QED
        BY <2>2, <3>1, <3>2
    <2>5. Cardinality(Frees(s, r)') <= Cardinality(Events(sched))
      BY <2>4, EventsFinite, FS_Subset
    <2>6. Cardinality(Events(sched)) <= MaxEvents /\ Cardinality(Events(sched)) \in Nat
      BY EventsFinite, FS_CardinalityType DEF GenOK
    <2>7. gen'[s][r] \in Nat
      BY <1>1, <2>1
    <2> QED
      BY <2>3, <2>5, <2>6, <2>7, NumberTypes
  <1>3. \A t \in Stages \ {s} : \A r \in Slots : Frees(t, r)' = Frees(t, r)
    BY FreesStep DEF Steps
  <1>4. GenOK'
    <2>1. Cardinality(Events(sched)) <= MaxEvents
      BY DEF GenOK
    <2>2. \A t \in Stages, r \in Slots : gen'[t][r] = Cardinality(Frees(t, r)')
      <3> TAKE t \in Stages, r \in Slots
      <3>1. CASE t = s
        BY <1>2, <3>1
      <3>2. CASE t # s
        <4>1. gen[t][r] = Cardinality(Frees(t, r))
          BY DEF GenOK
        <4>2. Frees(t, r)' = Frees(t, r) /\ gen'[t] = gen[t]
          BY <1>1, <1>3, <3>2
        <4> QED
          BY <4>1, <4>2
      <3> QED
        BY <3>1, <3>2
    <2> QED
      BY <1>1, <2>1, <2>2 DEF GenOK
  <1>5. gen' \in [Stages -> [Slots -> 0 .. MaxEvents]]
    <2>1. GenAfter(s) \in [Slots -> 0 .. MaxEvents]
      <3>1. \A r \in Slots : GenAfter(s)[r] \in 0 .. MaxEvents
        BY <1>1, <1>2
      <3> QED
        BY <3>1 DEF GenAfter
    <2>2. gen \in [Stages -> [Slots -> 0 .. MaxEvents]]
      BY DEF TypeOK
    <2> QED
      BY <2>1, <2>2 DEF Steps
  <1>6. done' \in [Stages -> 0 .. MaxSteps]
    BY <1>1, NumberTypes DEF TypeOK, Steps
  <1> QED
    BY <1>4, <1>5, <1>6

LEMMA StepSched ==
    ASSUME TypeOK, SchedOK, NEW s \in Stages, Steps(s), qstep' <= done'[LastRank]
    PROVE  SchedOK'
  <1>1. /\ PP' = PP /\ Stages' = Stages /\ LastRank' = LastRank
        /\ sched' = sched /\ setup' = setup
        /\ done[s] \in Nat /\ done'[s] = done[s] + 1
        /\ At(s) = done[s] + 1 /\ At(s) \in 1 .. Len(sched)
        /\ \A n : Sampled(n)' = Sampled(n)
        /\ \A r, d, n : Held(r, d, n)' <=> Held(r, d, n)
        /\ \A t \in Stages \ {s} : done'[t] = done[t]
    BY StepFacts DEF Steps
  <1>2. \A n : NewestOK(n) => NewestOK(n)'
    BY <1>1 DEF NewestOK
  <1>3. \A t \in Stages : done[t] \in Nat
    BY NumberTypes
  <1>4. Len(sched) \in Nat /\ 0 \in Stages
    BY SchedType, PipeFacts
  <1>5. \A t \in Stages : done'[t] <= Len(sched) /\ done'[t] >= done[t] /\ done'[t] \in Nat
    BY <1>1, <1>3, <1>4 DEF SchedOK
  <1> QED
    BY <1>1, <1>2, <1>3, <1>4, <1>5 DEF SchedOK

(* A snapshot keeps telling who was freed. *)
LEMMA StepSince ==
    ASSUME TypeOK, SchedOK, NEW s \in Stages, Steps(s),
           NEW t \in Stages, NEW r \in Slots, NEW d \in Nat, d <= done[t], NEW g, g[r] \in Nat,
           Since(g, t, r, d)
    PROVE  Since(g, t, r, d)'
  <1>1. /\ done[s] \in Nat /\ done'[s] = done[s] + 1 /\ At(s) = done[s] + 1
        /\ Now(s) = sched[At(s)] /\ gen[s][r] \in Nat
        /\ \A q, k, n : Held(q, k, n)' <=> Held(q, k, n)
        /\ \A u \in Stages \ {s} : done'[u] = done[u] /\ gen'[u] = gen[u]
        /\ gen'[s][r] = IF r \in Now(s).free THEN gen[s][r] + 1 ELSE gen[s][r]
    BY StepFacts, NumberTypes
  <1>2. CASE t # s
    BY <1>1, <1>2 DEF Since
  <1>3. CASE t = s
    <2>1. Held(r, d, done[s] + 1) <=> Held(r, d, done[s]) /\ r \notin Now(s).free
      BY <1>1, <1>3, HeldStep
    <2>2. g[r] <= gen[s][r] /\ (g[r] = gen[s][r] <=> Held(r, d, done[s]))
      BY <1>3 DEF Since
    <2>3. g[r] <= gen'[s][r] /\ (g[r] = gen'[s][r] <=> Held(r, d, done[s] + 1))
      BY <1>1, <2>1, <2>2
    <2> QED
      BY <1>1, <1>3, <2>3 DEF Since
  <1> QED
    BY <1>2, <1>3

(* Comparing with it finds the rows held up to the step, and a new one is of *)
(* the step.                                                                 *)
LEMMA StepHeld ==
    ASSUME TypeOK, SchedOK, NEW s \in Stages, HasStep(s),
           NEW r \in Slots, NEW d \in Nat, d <= done[s], NEW g, g[r] \in Nat,
           Since(g, s, r, d)
    PROVE  /\ GenAfter(s)[r] = g[r] <=> Held(r, d, At(s))
           /\ gen[s][r] = g[r] <=> Held(r, d, done[s])
           /\ Held(r, d, At(s)) <=> Held(r, d, done[s]) /\ r \notin Now(s).free
  <1>1. done[s] \in Nat /\ At(s) = done[s] + 1 /\ Now(s) = sched[At(s)] /\ gen[s][r] \in Nat
    BY StepNumber, NumberTypes
  <1>2. GenAfter(s)[r] = IF r \in Now(s).free THEN gen[s][r] + 1 ELSE gen[s][r]
    BY DEF GenAfter
  <1>3. Held(r, d, At(s)) <=> Held(r, d, done[s]) /\ r \notin Now(s).free
    BY <1>1, HeldStep
  <1> QED
    BY <1>1, <1>2, <1>3 DEF Since

LEMMA StepSnapshot ==
    ASSUME TypeOK, SchedOK, NEW s \in Stages, Steps(s), NEW r \in Slots,
           NEW g, g = GenAfter(s), NEW n, n = At(s)
    PROVE  Since(g, s, r, n)' /\ g[r] \in Nat
  <1>1. gen'[s] = g /\ done'[s] = n /\ n \in Nat
        /\ \A q, k, m : Held(q, k, m)' <=> Held(q, k, m)
    BY StepFacts
  <1>2. Held(r, n, n)
    BY <1>1 DEF Held
  <1>3. g[r] \in Nat
    BY NumberTypes DEF GenAfter
  <1> QED
    BY <1>1, <1>2, <1>3 DEF Since

-----------------------------------------------------------------------------
(* The results that leave an earlier stage's queue are of the step PP steps *)
(* back, if that step had any.                                              *)
LEMMA TakenFacts ==
    ASSUME TypeOK, SchedOK, QueueOK, NEW s \in Earlier, HasStep(s), NEW d, d = Taken(s).step
    PROVE  /\ d \in Nat
           /\ d # 0 => /\ d = At(s) - PP /\ d \in 1 .. Len(sched) /\ d <= done[s]
                       /\ Sampled(d) # {} /\ Sampled(d) \subseteq Slots
                       /\ \A r \in Slots : /\ Since(Taken(s).gen, s, r, d)
                                           /\ Taken(s).gen[r] \in Nat
           /\ d = 0 => \A k \in 1 .. Len(sched) : k = At(s) - PP => Sampled(k) = {}
  <1>1. PP \in Nat /\ PP >= 2 /\ s \in Stages
    BY PipeFacts
  <1>2. done[s] \in Nat /\ At(s) = done[s] + 1 /\ At(s) \in 1 .. Len(sched) /\ Len(sched) \in Nat
    BY <1>1, StepNumber, SchedType
  <1>3. 1 \in 1 .. PP /\ \A r \in Slots : Taken(s).gen[r] \in Nat
    BY <1>1, QueueType DEF Taken
  <1> DEFINE k == done[s] - PP + 1
  <1>4. IF k >= 1 /\ Sampled(k) # {}
        THEN /\ Taken(s).step = k /\ \A r \in Slots : Since(Taken(s).gen, s, r, k)
        ELSE Taken(s).step = 0
    BY <1>3 DEF QueueOK, Taken
  <1>5. k = At(s) - PP /\ k \in Int /\ k <= done[s]
    BY <1>1, <1>2
  <1> HIDE DEF k
  <1>6. CASE k >= 1 /\ Sampled(k) # {}
    <2>1. d = k /\ k \in 1 .. Len(sched)
      BY <1>1, <1>2, <1>4, <1>5, <1>6
    <2>2. Sampled(k) \subseteq Slots
      BY <2>1, SchedType
    <2> QED
      BY <1>3, <1>4, <1>5, <1>6, <2>1, <2>2
  <1>7. CASE ~(k >= 1 /\ Sampled(k) # {})
    BY <1>4, <1>5, <1>7
  <1> QED
    BY <1>6, <1>7

(* Rows that were still held after the stage's last step. *)
LateRow(s, r) == r \in pending[s].keep /\ Held(r, pending[s].step, done[s])
NewRow(s, r) ==
    /\ Taken(s).step # 0 /\ r \in Sampled(Taken(s).step) /\ Held(r, Taken(s).step, done[s])

LEMMA ComparedRows ==
    ASSUME TypeOK, SchedOK, QueueOK, PendingOK, NEW s \in Earlier, HasStep(s),
           NEW r \in Slots, NEW at \in {gen[s], GenAfter(s)}
    PROVE  /\ r \in LateRows(pending[s], at) => LateRow(s, r)
           /\ LateRow(s, r) /\ r \notin Now(s).free => r \in LateRows(pending[s], at)
           /\ r \in LateRows(pending[s], GenAfter(s)) => r \notin Now(s).free
           /\ Taken(s).step # 0 =>
                /\ r \in Kept(s, at) => NewRow(s, r)
                /\ NewRow(s, r) /\ r \notin Now(s).free => r \in Kept(s, at)
                /\ r \in Kept(s, GenAfter(s)) => r \notin Now(s).free
  <1>1. PP \in Nat /\ PP >= 2 /\ s \in Stages
    BY PipeFacts
  <1>2. done[s] \in Nat
    BY <1>1, NumberTypes
  <1>3. /\ r \in LateRows(pending[s], at) => LateRow(s, r)
        /\ LateRow(s, r) /\ r \notin Now(s).free => r \in LateRows(pending[s], at)
        /\ r \in LateRows(pending[s], GenAfter(s)) => r \notin Now(s).free
    <2>1. CASE r \notin pending[s].keep
      BY <2>1 DEF LateRows, StillHeld, LateRow
    <2>2. CASE r \in pending[s].keep
      <3> DEFINE d == pending[s].step
                 g == pending[s].gen
      <3>1. d # 0 /\ d <= done[s] - PP /\ Since(g, s, r, d)
        BY <2>2 DEF PendingOK
      <3>2. d \in Nat /\ g[r] \in Nat
        BY NumberTypes
      <3> HIDE DEF d, g
      <3>3. d <= done[s]
        BY <1>1, <1>2, <3>1, <3>2
      <3>4. /\ GenAfter(s)[r] = g[r] <=> Held(r, d, At(s))
            /\ gen[s][r] = g[r] <=> Held(r, d, done[s])
            /\ Held(r, d, At(s)) <=> Held(r, d, done[s]) /\ r \notin Now(s).free
        BY <1>1, <3>1, <3>2, <3>3, StepHeld
      <3>5. \A a : r \in LateRows(pending[s], a) <=> a[r] = g[r]
        BY <2>2 DEF LateRows, StillHeld, g
      <3>6. LateRow(s, r) <=> Held(r, d, done[s])
        BY <2>2 DEF LateRow, d
      <3> QED
        BY <3>4, <3>5, <3>6
    <2> QED
      BY <2>1, <2>2
  <1>4. ASSUME Taken(s).step # 0
        PROVE  /\ r \in Kept(s, at) => NewRow(s, r)
               /\ NewRow(s, r) /\ r \notin Now(s).free => r \in Kept(s, at)
               /\ r \in Kept(s, GenAfter(s)) => r \notin Now(s).free
    <2> DEFINE d == Taken(s).step
               g == Taken(s).gen
    <2>1. d \in Nat /\ d <= done[s] /\ Since(g, s, r, d) /\ g[r] \in Nat
      BY <1>4, TakenFacts
    <2>2. \A a : r \in Kept(s, a) <=> r \in Sampled(d) /\ a[r] = g[r]
      BY DEF Kept, StillHeld, Sampled
    <2>3. NewRow(s, r) <=> r \in Sampled(d) /\ Held(r, d, done[s])
      BY <1>4 DEF NewRow
    <2> HIDE DEF d, g
    <2>4. /\ GenAfter(s)[r] = g[r] <=> Held(r, d, At(s))
          /\ gen[s][r] = g[r] <=> Held(r, d, done[s])
          /\ Held(r, d, At(s)) <=> Held(r, d, done[s]) /\ r \notin Now(s).free
      BY <1>1, <2>1, StepHeld
    <2> QED
      BY <2>2, <2>3, <2>4
  <1> QED
    BY <1>3, <1>4

-----------------------------------------------------------------------------
(* What a step of an earlier stage leaves behind; whether the rows that are *)
(* freed are counted before or after the results are consumed makes no      *)
(* difference to the drafts.                                                *)
NewDrafts(s, r) ==
    LET x == drafts[s][r]
        d == Taken(s).step
        q == pending[s].step
    IN  IF r \in Now(s).free THEN 0
        ELSE IF Now(s).rows = {}
        THEN IF split THEN (IF d # 0 /\ LateRow(s, r) THEN q ELSE x)
                      ELSE (IF NewRow(s, r) THEN d ELSE x)
        ELSE IF NewRow(s, r) THEN d ELSE IF LateRow(s, r) THEN q ELSE x

(* What the stage has waited for. *)
Waited(s, r) ==
    /\ r \notin Now(s).free /\ LateRow(s, r) /\ (Now(s).rows # {} \/ (split /\ Taken(s).step # 0)) =>
         Landed(s, pending[s].step)
    /\ r \notin Now(s).free /\ NewRow(s, r) /\ (Now(s).rows # {} \/ ~split) =>
         Landed(s, Taken(s).step)

NewPending(s) ==
    \/ Now(s).rows # {} /\ pending'[s] = NoPending
    \/ Now(s).rows = {} /\ ~(split /\ Taken(s).step # 0) /\ pending'[s] = pending[s]
    \/ /\ Now(s).rows = {} /\ split /\ Taken(s).step # 0
       /\ \E at \in {gen[s], GenAfter(s)} :
            pending'[s] = [step |-> Taken(s).step, keep |-> Kept(s, at), gen |-> at]

LEMMA StageRows ==
    ASSUME TypeOK, SchedOK, QueueOK, PendingOK, NEW s \in Earlier, StageStep(s)
    PROVE  /\ \A r \in Slots : drafts'[s][r] = NewDrafts(s, r) /\ Waited(s, r)
           /\ NewPending(s)
           /\ drafts' = [drafts EXCEPT ![s] = drafts'[s]]
           /\ drafts'[s] = [r \in Slots |-> drafts'[s][r]]
           /\ pending' = [pending EXCEPT ![s] = pending'[s]]
  <1>1. HasStep(s) /\ s \in Stages /\ s \in Stages \ {LastRank}
    BY PipeFacts DEF StageStep
  <1> DEFINE now == GenAfter(s)
             F(to) == Fresh(s, to)
  <1>2. PICK freesFirst \in BOOLEAN :
          LET at  == IF freesFirst THEN now ELSE gen[s]
              to  == IF freesFirst THEN Consumed(s, Fresh(s, drafts[s]), at)
                                   ELSE Fresh(s, Consumed(s, drafts[s], at))
              p   == Deferred(s, at)
          IN  /\ ConsumeReady(s, at)
              /\ \/ /\ Now(s).rows = {}
                    /\ drafts' = [drafts EXCEPT ![s] = to]
                    /\ pending' = [pending EXCEPT ![s] = p]
                 \/ /\ Now(s).rows # {}
                    /\ LateLanded(s, p, now)
                    /\ drafts' = [drafts EXCEPT ![s] = WithLate(to, p, now)]
                    /\ pending' = [pending EXCEPT ![s] = NoPending]
    BY Zenon DEF StageStep
  <1> DEFINE at == IF freesFirst THEN now ELSE gen[s]
             to == IF freesFirst THEN Consumed(s, Fresh(s, drafts[s]), at)
                                 ELSE Fresh(s, Consumed(s, drafts[s], at))
             p == Deferred(s, at)
             x == drafts[s]
             d == Taken(s).step
             q == pending[s]
  <1>3. drafts \in [Stages -> [Slots -> 0 .. MaxSteps]] /\ DOMAIN pending = Stages \ {LastRank}
    BY DEF TypeOK
  <1>4. /\ ConsumeReady(s, at)
        /\ Now(s).rows = {} => drafts'[s] = to /\ pending'[s] = p
        /\ Now(s).rows # {} => /\ LateLanded(s, p, now) /\ drafts'[s] = WithLate(to, p, now)
                               /\ pending'[s] = NoPending
        /\ drafts' = [drafts EXCEPT ![s] = drafts'[s]]
        /\ pending' = [pending EXCEPT ![s] = pending'[s]]
    BY <1>1, <1>2, <1>3
  <1>5. at \in {gen[s], GenAfter(s)}
    OBVIOUS
  <1>6. x \in [Slots -> 0 .. MaxSteps]
    BY <1>1, <1>3
  <1>7. \A y, rows, step : \A r \in Slots : Scatter(y, step, rows)[r] = IF r \in rows THEN step ELSE y[r]
    BY DEF Scatter
  <1>8. q.step # 0 => split
    BY DEF PendingOK
  <1>9. \A r \in Slots : LateRow(s, r) => split
    BY <1>8 DEF LateRow, PendingOK
  <1> HIDE DEF at
  (* the rows that are not freed have one generation throughout *)
  <1>10. ASSUME NEW r \in Slots
         PROVE  /\ r \in LateRows(q, at) => LateRow(s, r)
                /\ LateRow(s, r) /\ r \notin Now(s).free => r \in LateRows(q, at)
                /\ r \in LateRows(q, now) => LateRow(s, r)
                /\ LateRow(s, r) /\ r \notin Now(s).free => r \in LateRows(q, now)
                /\ r \in LateRows(q, now) => r \notin Now(s).free
                /\ d # 0 => /\ r \in Kept(s, at) => NewRow(s, r)
                            /\ NewRow(s, r) /\ r \notin Now(s).free => r \in Kept(s, at)
                            /\ r \in Kept(s, now) => r \notin Now(s).free
                /\ NewRow(s, r) => d # 0
                /\ now[r] = at[r] <=> (r \notin Now(s).free \/ at = now)
    <2>1. now \in {gen[s], GenAfter(s)}
      OBVIOUS
    <2>2. /\ r \in LateRows(q, at) => LateRow(s, r)
          /\ LateRow(s, r) /\ r \notin Now(s).free => r \in LateRows(q, at)
          /\ r \in LateRows(q, now) => r \notin Now(s).free
          /\ d # 0 => /\ r \in Kept(s, at) => NewRow(s, r)
                      /\ NewRow(s, r) /\ r \notin Now(s).free => r \in Kept(s, at)
                      /\ r \in Kept(s, now) => r \notin Now(s).free
      BY <1>1, <1>5, ComparedRows
    <2>3. /\ r \in LateRows(q, now) => LateRow(s, r)
          /\ LateRow(s, r) /\ r \notin Now(s).free => r \in LateRows(q, now)
      BY <1>1, <2>1, ComparedRows
    <2>4. NewRow(s, r) => d # 0
      BY DEF NewRow
    <2>5. now[r] = at[r] <=> (r \notin Now(s).free \/ at = now)
      <3>1. now[r] = IF r \in Now(s).free THEN gen[s][r] + 1 ELSE gen[s][r]
        BY DEF GenAfter
      <3>2. gen[s][r] \in Nat
        BY <1>1, NumberTypes
      <3> HIDE DEF now
      <3>3. at = now \/ at = gen[s]
        BY <1>5 DEF now
      <3> QED
        BY <3>1, <3>2, <3>3
    <2> QED
      BY <2>2, <2>3, <2>4, <2>5
  (* what is consumed, before and after the rows are freed *)
  <1>11. \A y : \A r \in Slots :
            Consumed(s, y, at)[r] =
               IF d = 0 THEN y[r]
               ELSE IF split THEN (IF r \in LateRows(q, at) THEN q.step ELSE y[r])
                             ELSE (IF r \in Kept(s, at) THEN d ELSE y[r])
    BY <1>7 DEF Consumed, WithLate
  <1>12. \A y : \A r \in Slots : Fresh(s, y)[r] = IF r \in Now(s).free THEN 0 ELSE y[r]
    BY <1>7 DEF Fresh
  <1>13. ASSUME NEW r \in Slots
         PROVE  to[r] = IF r \in Now(s).free THEN 0
                        ELSE IF d = 0 THEN x[r]
                        ELSE IF split THEN (IF LateRow(s, r) THEN q.step ELSE x[r])
                                      ELSE (IF NewRow(s, r) THEN d ELSE x[r])
    <2>1. CASE freesFirst
      <3>1. at = now
        BY <2>1 DEF at
      <3>2. to[r] = Consumed(s, Fresh(s, x), at)[r]
        BY <2>1
      <3> HIDE DEF to, now, x, d, q
      <3> QED
        BY <1>10, <1>11, <1>12, <3>1, <3>2
    <2>2. CASE ~freesFirst
      <3>2. to[r] = Fresh(s, Consumed(s, x, at))[r]
        BY <2>2
      <3> HIDE DEF to, now, x, d, q
      <3> QED
        BY <1>10, <1>11, <1>12, <3>2
    <2> QED
      BY <2>1, <2>2
  <1>14. /\ split /\ d # 0 => p = [step |-> d, keep |-> Kept(s, at), gen |-> at]
         /\ ~(split /\ d # 0) => p = q
    BY DEF Deferred
  <1>15. ASSUME NEW r \in Slots
         PROVE  /\ split /\ d # 0 => (r \in LateRows(p, now) <=> NewRow(s, r) /\ r \notin Now(s).free)
                /\ ~(split /\ d # 0) => (r \in LateRows(p, now) <=> LateRow(s, r) /\ r \notin Now(s).free)
    <2>1. CASE split /\ d # 0
      <3>1. r \in LateRows(p, now) <=> r \in Kept(s, at) /\ now[r] = at[r]
        BY <1>14, <2>1 DEF LateRows, StillHeld
      <3> HIDE DEF p, now, d
      <3> QED
        BY <1>10, <2>1, <3>1
    <2>2. CASE ~(split /\ d # 0)
      BY <1>10, <1>14, <2>2
    <2> QED
      BY <2>1, <2>2
  <1>16. \A r \in Slots : WithLate(to, p, now)[r] = IF r \in LateRows(p, now) THEN p.step ELSE to[r]
    BY <1>7 DEF WithLate
  <1>17. p.step = IF split /\ d # 0 THEN d ELSE q.step
    BY <1>14
  <1>18. /\ to = [r \in Slots |-> to[r]]
         /\ WithLate(to, p, now) = [r \in Slots |-> WithLate(to, p, now)[r]]
    <2>1. x = [r \in Slots |-> x[r]]
      BY <1>6
    <2>2. \A y, step, rows : Scatter(y, step, rows) = [r \in Slots |-> Scatter(y, step, rows)[r]]
      BY DEF Scatter
    <2>3. WithLate(to, p, now) = [r \in Slots |-> WithLate(to, p, now)[r]]
      BY DEF WithLate, Scatter
    <2>4. \A y : Fresh(s, y) = [r \in Slots |-> Fresh(s, y)[r]]
      BY <2>2, Zenon DEF Fresh
    <2>5. \A y : y = [r \in Slots |-> y[r]] =>
                  Consumed(s, y, at) = [r \in Slots |-> Consumed(s, y, at)[r]]
      BY DEF Consumed, WithLate, Scatter
    <2>6. to = [r \in Slots |-> to[r]]
      <3>1. CASE freesFirst
        <4>1. to = Consumed(s, Fresh(s, x), at)
          BY <3>1
        <4> QED
          BY <2>4, <2>5, <4>1, Zenon
      <3>2. CASE ~freesFirst
        <4>1. to = Fresh(s, Consumed(s, x, at))
          BY <3>2
        <4> QED
          BY <2>4, <4>1, Zenon
      <3> QED
        BY <3>1, <3>2
    <2> QED
      BY <2>3, <2>6
  <1>19. ConsumeReady(s, at) => (d # 0 => IF split THEN LateLanded(s, q, at) ELSE Landed(s, d))
    BY DEF ConsumeReady
  <1>20. \A a, b : LateLanded(s, a, b) /\ LateRows(a, b) # {} => Landed(s, a.step)
    BY DEF LateLanded
  <1> HIDE DEF to, p, now, x, d, q
  <1>21. ASSUME NEW r \in Slots
         PROVE  drafts'[s][r] = NewDrafts(s, r)
    <2>1. NewDrafts(s, r) =
             IF r \in Now(s).free THEN 0
             ELSE IF Now(s).rows = {}
             THEN IF split THEN (IF d # 0 /\ LateRow(s, r) THEN q.step ELSE x[r])
                           ELSE (IF NewRow(s, r) THEN d ELSE x[r])
             ELSE IF NewRow(s, r) THEN d ELSE IF LateRow(s, r) THEN q.step ELSE x[r]
      BY DEF NewDrafts, x, d, q
    <2>2. CASE Now(s).rows = {}
      BY <1>4, <1>10, <1>13, <2>1, <2>2
    <2>3. CASE Now(s).rows # {}
      BY <1>4, <1>9, <1>10, <1>13, <1>15, <1>16, <1>17, <2>1, <2>3
    <2> QED
      BY <2>2, <2>3
  <1>22. ASSUME NEW r \in Slots
         PROVE  Waited(s, r)
    <2>1. ASSUME r \notin Now(s).free, LateRow(s, r), Now(s).rows # {} \/ (split /\ d # 0)
          PROVE  Landed(s, q.step)
      <3>1. CASE split /\ d # 0
        BY <1>4, <1>10, <1>19, <1>20, <2>1, <3>1
      <3>2. CASE ~(split /\ d # 0)
        BY <1>4, <1>15, <1>17, <1>20, <2>1, <3>2
      <3> QED
        BY <3>1, <3>2
    <2>2. ASSUME r \notin Now(s).free, NewRow(s, r), Now(s).rows # {} \/ ~split
          PROVE  Landed(s, d)
      <3>1. CASE split
        BY <1>4, <1>10, <1>15, <1>17, <1>20, <2>2, <3>1
      <3>2. CASE ~split
        BY <1>4, <1>10, <1>19, <2>2, <3>2
      <3> QED
        BY <3>1, <3>2
    <2> QED
      BY <2>1, <2>2 DEF Waited, d, q
  <1>23. NewPending(s)
    BY <1>4, <1>5, <1>14 DEF NewPending, d, q, p
  <1>24. drafts'[s] = [r \in Slots |-> drafts'[s][r]]
    BY <1>4, <1>18, Zenon
  <1> QED
    BY <1>4, <1>21, <1>22, <1>23, <1>24

-----------------------------------------------------------------------------
(* The rest of a step of an earlier stage: its queue moves on by one.       *)
LEMMA StageFrame ==
    ASSUME TypeOK, SchedOK, GenOK, NEW s \in Earlier, StageStep(s)
    PROVE  /\ Steps(s) /\ Issues(s)
           /\ UNCHANGED <<ok, live, read, remote, qstep>>
           /\ queue' = [queue EXCEPT ![s] = queue'[s]]
           /\ queue'[s] \in Seq(Snapshot) /\ Len(queue'[s]) = PP
           /\ \A i \in 1 .. PP - 1 : queue'[s][i] = queue[s][i + 1]
           /\ queue'[s][PP] = IF Sampled(At(s)) = {} THEN None
                              ELSE [step |-> At(s), gen |-> GenAfter(s)]
  <1>1. /\ HasStep(s) /\ s \in Stages /\ s \in Stages \ {LastRank}
        /\ PP \in Nat /\ PP >= 2 /\ s \in Earlier /\ s # LastRank
    BY PipeFacts DEF StageStep
  <1>2. /\ At(s) = done[s] + 1 /\ At(s) \in 1 .. Len(sched) /\ At(s) \in 1 .. MaxSteps
        /\ Now(s) = sched[At(s)] /\ done[s] \in Nat
    BY <1>1, StepNumber
  <1>3. Sampled(At(s)) = Now(s).sampled /\ (Now(s).rows = {} => Now(s).sampled = {})
    BY <1>2, SchedType DEF Sampled, SchedOK
  <1>4. Steps(s) /\ UNCHANGED <<ok, live, read, remote, qstep>>
    BY <1>1 DEF StageStep, Steps, setupVars
  <1>5. Issues(s)
    <2>1. \/ Now(s).rows = {} /\ stream' = stream
          \/ Now(s).sampled = {} /\ stream' = stream
          \/ /\ Now(s).sampled # {}
             /\ stream' = [stream EXCEPT ![s] = @ \o Collectives(s, At(s))]
      BY Zenon DEF StageStep
    <2> QED
      BY <1>1, <1>3, <1>4, <2>1 DEF Issues, Steps
  <1> DEFINE next == Append(Tail(queue[s]), None)
             new == [step |-> At(s), gen |-> GenAfter(s)]
  <1>6. \/ Now(s).sampled = {} /\ queue' = [queue EXCEPT ![s] = next]
        \/ Now(s).sampled # {} /\ queue' = [queue EXCEPT ![s] = [next EXCEPT ![PP] = new]]
    <2>1. \/ Now(s).rows = {} /\ queue' = [queue EXCEPT ![s] = next]
          \/ Now(s).sampled = {} /\ queue' = [queue EXCEPT ![s] = next]
          \/ Now(s).sampled # {} /\ queue' = [queue EXCEPT ![s] = [next EXCEPT ![PP] = new]]
      BY Zenon DEF StageStep
    <2> QED
      BY <1>3, <2>1
  <1>7. queue[s] \in Seq(Snapshot) /\ Len(queue[s]) = PP /\ DOMAIN queue = Stages \ {LastRank}
    BY QueueType DEF TypeOK
  <1>8. /\ Tail(queue[s]) \in Seq(Snapshot) /\ Len(Tail(queue[s])) = PP - 1
        /\ \A i \in 1 .. PP - 1 : Tail(queue[s])[i] = queue[s][i + 1]
    <2>1. queue[s] # <<>>
      BY <1>1, <1>7
    <2> QED
      BY <1>7, <2>1, HeadTailProperties
  <1>9. None \in Snapshot
    BY NumberTypes DEF None, Snapshot, Zeros
  <1>10. /\ next \in Seq(Snapshot) /\ Len(next) = PP /\ next[PP] = None
         /\ \A i \in 1 .. PP - 1 : next[i] = queue[s][i + 1]
    <2> DEFINE t == Tail(queue[s])
    <2> HIDE DEF t
    <2>1. t \in Seq(Snapshot) /\ Len(t) = PP - 1 /\ \A i \in 1 .. PP - 1 : t[i] = queue[s][i + 1]
      BY <1>8 DEF t
    <2>2. /\ Append(t, None) \in Seq(Snapshot) /\ Len(Append(t, None)) = Len(t) + 1
          /\ Append(t, None)[Len(t) + 1] = None
          /\ \A i \in 1 .. Len(t) : Append(t, None)[i] = t[i]
      BY <1>9, <2>1, AppendProperties
    <2> QED
      BY <1>1, <2>1, <2>2 DEF t
  <1> HIDE DEF next
  <1>11. CASE Now(s).sampled = {}
    BY <1>1, <1>3, <1>4, <1>5, <1>6, <1>7, <1>10, <1>11
  <1>12. CASE Now(s).sampled # {}
    <2>1. queue' = [queue EXCEPT ![s] = [next EXCEPT ![PP] = new]]
      BY <1>6, <1>12
    <2>2. queue'[s] = [next EXCEPT ![PP] = new]
      BY <1>1, <1>7, <2>1
    <2>3. GenAfter(s) \in [Slots -> 0 .. MaxEvents]
      <3>1. gen' \in [Stages -> [Slots -> 0 .. MaxEvents]] /\ gen'[s] = GenAfter(s)
        BY <1>1, <1>4, StepGen, StepFacts
      <3> QED
        BY <1>1, <3>1
    <2>4. new \in Snapshot
      BY <1>2, <2>3, NumberTypes DEF Snapshot
    <2> HIDE DEF new
    <2>5. PP \in 1 .. Len(next)
      BY <1>1, <1>10
    <2>6. /\ [next EXCEPT ![PP] = new] \in Seq(Snapshot)
          /\ Len([next EXCEPT ![PP] = new]) = Len(next)
          /\ \A i \in 1 .. Len(next) :
               [next EXCEPT ![PP] = new][i] = IF i = PP THEN new ELSE next[i]
      BY <1>10, <2>4, <2>5, ExceptSeq
    <2>7. /\ queue'[s] \in Seq(Snapshot) /\ Len(queue'[s]) = PP /\ queue'[s][PP] = new
          /\ \A i \in 1 .. PP - 1 : queue'[s][i] = queue[s][i + 1]
      BY <1>1, <1>10, <2>2, <2>5, <2>6
    <2>8. queue' = [queue EXCEPT ![s] = queue'[s]]
      BY <2>1, <2>2
    <2> QED
      BY <1>3, <1>4, <1>5, <1>12, <2>7, <2>8 DEF new
  <1> QED
    BY <1>11, <1>12

-----------------------------------------------------------------------------
(* What the stages that do not move know stays true. *)
LEMMA OtherSince ==
    ASSUME TypeOK, SchedOK, NEW s \in Stages, Steps(s), NEW t \in Stages \ {s},
           NEW g, NEW r, NEW d
    PROVE  Since(g, t, r, d)' <=> Since(g, t, r, d)
  <1>1. gen'[t] = gen[t] /\ done'[t] = done[t] /\ \A q, k, n : Held(q, k, n)' <=> Held(q, k, n)
    BY StepFacts
  <1> QED
    BY <1>1 DEF Since

LEMMA StageQueue ==
    ASSUME TypeOK, SchedOK, GenOK, QueueOK, NEW s \in Earlier, StageStep(s)
    PROVE  QueueOK'
  <1>1. /\ Steps(s) /\ s \in Stages /\ PP \in Nat /\ PP >= 2
        /\ queue' = [queue EXCEPT ![s] = queue'[s]]
        /\ \A i \in 1 .. PP - 1 : queue'[s][i] = queue[s][i + 1]
        /\ queue'[s][PP] = IF Sampled(At(s)) = {} THEN None
                           ELSE [step |-> At(s), gen |-> GenAfter(s)]
    BY StageFrame, PipeFacts
  <1>2. /\ PP' = PP /\ Earlier' = Earlier /\ \A n : Sampled(n)' = Sampled(n)
        /\ done[s] \in Nat /\ done'[s] = done[s] + 1 /\ At(s) = done[s] + 1
        /\ \A t \in Stages \ {s} : done'[t] = done[t]
    BY <1>1, StepFacts
  <1> SUFFICES ASSUME NEW t \in Earlier, NEW i \in 1 .. PP, NEW k, k = done'[t] - PP + i,
                      NEW e, e = queue'[t][i]
               PROVE  IF k >= 1 /\ Sampled(k) # {}
                      THEN /\ e.step = k
                           /\ \A r \in Slots : Since(e.gen, t, r, k)'
                      ELSE e.step = 0
    BY <1>2 DEF QueueOK
  <1>3. CASE t # s
    <2>1. t \in Stages \ {s}
      BY <1>3, PipeFacts
    <2>2. e = queue[t][i] /\ k = done[t] - PP + i
      BY <1>1, <1>2, <1>3, <2>1 DEF TypeOK, Earlier
    <2>3. IF k >= 1 /\ Sampled(k) # {}
          THEN /\ e.step = k
               /\ \A r \in Slots : Since(e.gen, t, r, k)
          ELSE e.step = 0
      BY <2>2 DEF QueueOK
    <2> DEFINE g == e.gen
    <2>4. \A r \in Slots : Since(g, t, r, k) => Since(g, t, r, k)'
      BY <1>1, <2>1, OtherSince
    <2> QED
      BY <2>3, <2>4
  <1>4. CASE t = s /\ i # PP
    <2>1. i \in 1 .. PP - 1 /\ i + 1 \in 1 .. PP /\ k = done[s] - PP + (i + 1) /\ k \in Int
          /\ k <= done[s]
      BY <1>1, <1>2, <1>4
    <2>2. e = queue[s][i + 1]
      BY <1>1, <1>4, <2>1
    <2>3. IF k >= 1 /\ Sampled(k) # {}
          THEN /\ e.step = k
               /\ \A r \in Slots : Since(e.gen, s, r, k)
          ELSE e.step = 0
      BY <2>1, <2>2 DEF QueueOK
    <2>4. \A r \in Slots : e.gen[r] \in Nat
      BY <2>1, <2>2, QueueType
    <2>5. ASSUME k >= 1, NEW g, g = e.gen, NEW r \in Slots, Since(g, s, r, k)
          PROVE  Since(g, s, r, k)'
      <3>1. k \in Nat /\ g[r] \in Nat
        BY <2>1, <2>4, <2>5
      <3> QED
        BY <1>1, <2>1, <2>5, <3>1, StepSince
    <2> QED
      BY <1>4, <2>3, <2>5
  <1>5. CASE t = s /\ i = PP
    <2>1. k = At(s) /\ k >= 1
      BY <1>1, <1>2, <1>5
    <2>2. CASE Sampled(k) = {}
      BY <1>1, <1>5, <2>1, <2>2 DEF None
    <2>3. CASE Sampled(k) # {}
      <3>1. e = [step |-> k, gen |-> GenAfter(s)]
        BY <1>1, <1>5, <2>1, <2>3
      <3>2. e.step = k /\ e.gen = GenAfter(s)
        BY <3>1
      <3>3. ASSUME NEW g, g = e.gen, NEW r \in Slots
            PROVE  Since(g, s, r, k)'
        BY <1>1, <2>1, <3>2, <3>3, StepSnapshot
      <3> QED
        BY <1>5, <2>1, <2>3, <3>2, <3>3
    <2> QED
      BY <2>2, <2>3
  <1> QED
    BY <1>3, <1>4, <1>5

(* What stays pending was consumed from a step that is still the newest.    *)
LEMMA StagePending ==
    ASSUME TypeOK, SchedOK, GenOK, QueueOK, PendingOK, StoredOK, NEW s \in Earlier, StageStep(s)
    PROVE  PendingOK'
  <1>1. /\ Steps(s) /\ HasStep(s) /\ s \in Stages /\ PP \in Nat /\ PP >= 2
    BY StageFrame, PipeFacts DEF StageStep
  <1>2. /\ PP' = PP /\ Earlier' = Earlier /\ split' = split /\ sched' = sched
        /\ \A n : Sampled(n)' = Sampled(n)
        /\ \A r, d, n : Held(r, d, n)' <=> Held(r, d, n)
        /\ done[s] \in Nat /\ done'[s] = done[s] + 1 /\ At(s) = done[s] + 1 /\ Now(s) = sched[At(s)]
        /\ \A t \in Stages \ {s} : done'[t] = done[t]
    BY <1>1, StepFacts
  <1>3. /\ \A r \in Slots : drafts'[s][r] = NewDrafts(s, r) /\ Waited(s, r)
        /\ NewPending(s)
        /\ drafts' = [drafts EXCEPT ![s] = drafts'[s]]
        /\ pending' = [pending EXCEPT ![s] = pending'[s]]
    BY StageRows
  <1> SUFFICES ASSUME NEW t \in Earlier, NEW p, p = pending'[t]
               PROVE  IF p.step = 0 THEN p.keep = {}
                      ELSE /\ split
                           /\ p.step <= done'[t] - PP /\ sched[done'[t]].rows = {}
                           /\ p.keep \subseteq Sampled(p.step)
                           /\ \A r \in Sampled(p.step) : Held(r, p.step, done'[t]) => r \in p.keep
                           /\ \A r \in p.keep : Since(p.gen, t, r, p.step)'
                           /\ \A r \in Slots : drafts'[t][r] <= p.step
    BY <1>2 DEF PendingOK
  <1>4. CASE t # s
    <2>1. t \in Stages \ {s}
      BY <1>4, PipeFacts
    <2>2. p = pending[t] /\ drafts'[t] = drafts[t] /\ done'[t] = done[t]
      BY <1>2, <1>3, <1>4, <2>1 DEF TypeOK, Earlier
    <2>3. IF p.step = 0 THEN p.keep = {}
          ELSE /\ split
               /\ p.step <= done[t] - PP /\ sched[done[t]].rows = {}
               /\ p.keep \subseteq Sampled(p.step)
               /\ \A r \in Sampled(p.step) : Held(r, p.step, done[t]) => r \in p.keep
               /\ \A r \in p.keep : Since(p.gen, t, r, p.step)
               /\ \A r \in Slots : drafts[t][r] <= p.step
      BY <2>2 DEF PendingOK
    <2>4. ASSUME NEW g, NEW n, NEW r, Since(g, t, r, n)
          PROVE  Since(g, t, r, n)'
      BY <1>1, <2>1, <2>4, OtherSince
    <2> QED
      BY <2>2, <2>3, <2>4
  <1>5. CASE t = s
    <2> DEFINE d == Taken(s).step
               q == pending[s]
    <2>1. /\ d \in Nat
          /\ d # 0 => /\ d = At(s) - PP /\ d <= done[s] /\ d \in 1 .. Len(sched)
                      /\ Sampled(d) \subseteq Slots
                      /\ \A r \in Slots : Since(Taken(s).gen, s, r, d) /\ Taken(s).gen[r] \in Nat
      BY <1>1, TakenFacts
    <2>2. q.step \in Nat /\ (\A r \in Slots : q.gen[r] \in Nat) /\ q.keep \subseteq Slots
      BY NumberTypes DEF PendingEntry
    <2>3. IF q.step = 0 THEN q.keep = {}
          ELSE /\ split
               /\ q.step <= done[s] - PP
               /\ q.keep \subseteq Sampled(q.step)
               /\ \A r \in Sampled(q.step) : Held(r, q.step, done[s]) => r \in q.keep
               /\ \A r \in q.keep : Since(q.gen, s, r, q.step)
               /\ \A r \in Slots : drafts[s][r] <= q.step
      BY DEF PendingOK
    <2>4. \A r \in Slots : drafts[s][r] \in Nat /\ (drafts[s][r] # 0 => drafts[s][r] <= done[s] - PP)
      BY <1>1, NumberTypes DEF StoredOK
    <2>5. CASE Now(s).rows # {}
      <3>1. p = NoPending
        BY <1>3, <1>5, <2>5 DEF NewPending
      <3> QED
        BY <3>1 DEF NoPending
    <2>6. CASE Now(s).rows = {} /\ ~(split /\ d # 0)
      <3>1. p = q
        BY <1>3, <1>5, <2>6 DEF NewPending
      <3>2. CASE q.step = 0
        BY <2>3, <3>1, <3>2
      <3>3. CASE q.step # 0
        <4>1. p.step <= done'[s] - PP /\ sched[done'[s]].rows = {} /\ p.step \in Nat /\ p.step <= done[s]
          BY <1>1, <1>2, <2>2, <2>3, <2>6, <3>1, <3>3
        <4>2. ASSUME NEW r \in Sampled(p.step), Held(r, p.step, done'[s])
              PROVE  r \in p.keep
          <5>1. Held(r, p.step, done[s])
            BY <1>2, <4>1, <4>2, HeldPart
          <5> QED
            BY <2>3, <3>1, <3>3, <5>1
        <4>3. ASSUME NEW g, g = p.gen, NEW n, n = p.step, NEW r \in p.keep
              PROVE  Since(g, s, r, n)'
          <5>1. Since(g, s, r, n) /\ r \in Slots /\ g[r] \in Nat /\ n \in Nat /\ n <= done[s]
            BY <2>2, <2>3, <3>1, <3>3, <4>1, <4>3
          <5> QED
            BY <1>1, <5>1, StepSince
        <4>4. ASSUME NEW r \in Slots
              PROVE  drafts'[s][r] <= p.step
          <5>1. drafts'[s][r] \in {0, drafts[s][r]}
            BY <1>3, <2>3, <2>6, <3>3 DEF NewDrafts
          <5> QED
            BY <2>2, <2>3, <3>1, <3>3, <5>1
        <4> QED
          BY <1>5, <2>3, <3>1, <3>3, <4>1, <4>2, <4>3, <4>4
      <3> QED
        BY <3>2, <3>3
    <2>7. CASE Now(s).rows = {} /\ split /\ d # 0
      <3>1. PICK at \in {gen[s], GenAfter(s)} :
               p = [step |-> d, keep |-> Kept(s, at), gen |-> at]
        BY <1>3, <1>5, <2>7 DEF NewPending
      <3>2. p.step = d /\ p.keep = Kept(s, at) /\ p.gen = at
        BY <3>1
      <3>3. ASSUME NEW r \in Slots
            PROVE  /\ r \in Kept(s, at) => NewRow(s, r)
                   /\ NewRow(s, r) /\ r \notin Now(s).free => r \in Kept(s, at)
                   /\ r \in Kept(s, GenAfter(s)) => r \notin Now(s).free
        BY <1>1, <2>7, ComparedRows
      <3>4. Kept(s, at) \subseteq Sampled(d)
        BY DEF Kept, StillHeld, Sampled
      <3>5. ASSUME NEW r \in Sampled(d)
            PROVE  Held(r, d, done'[s]) <=> Held(r, d, done[s]) /\ r \notin Now(s).free
        BY <1>2, <2>1, <2>7, HeldStep
      <3>6. ASSUME NEW r \in Sampled(d), Held(r, d, done'[s])
            PROVE  r \in p.keep
        <4>1. NewRow(s, r) /\ r \notin Now(s).free
          BY <2>7, <3>5, <3>6 DEF NewRow
        <4> QED
          BY <2>1, <2>7, <3>2, <3>3, <4>1
      <3>7. ASSUME NEW g, g = p.gen, NEW n, n = p.step, NEW r \in p.keep
            PROVE  Since(g, s, r, n)'
        <4>1. r \in Slots /\ r \in Sampled(n) /\ r \in Kept(s, at) /\ n = d
          BY <2>1, <2>7, <3>2, <3>4, <3>7
        <4>2. Held(r, n, done[s]) /\ n \in Nat
          BY <2>1, <3>3, <4>1 DEF NewRow
        <4>3. gen[s][r] \in Nat
          BY <1>1, <4>1, NumberTypes
        <4>4. gen'[s][r] = IF r \in Now(s).free THEN gen[s][r] + 1 ELSE gen[s][r]
          BY <1>1, <4>1, StepFacts
        <4>5. gen'[s] = GenAfter(s)
          BY <1>1, StepFacts
        <4>6. g[r] <= gen'[s][r] /\ (g[r] = gen'[s][r] <=> Held(r, n, done'[s]))
          <5>1. CASE at = GenAfter(s)
            <6>1. g[r] = gen'[s][r] /\ r \notin Now(s).free
              BY <3>2, <3>3, <3>7, <4>1, <4>5, <5>1
            <6> QED
              BY <3>5, <4>1, <4>2, <4>3, <4>4, <6>1
          <5>2. CASE at = gen[s]
            <6>1. g[r] = gen[s][r]
              BY <3>2, <3>7, <5>2
            <6> QED
              BY <3>5, <4>1, <4>2, <4>3, <4>4, <6>1
          <5> QED
            BY <3>1, <5>1, <5>2
        <4> QED
          BY <1>2, <4>6 DEF Since
      <3>8. ASSUME NEW r \in Slots
            PROVE  drafts'[s][r] <= d
        <4>1. \/ drafts'[s][r] \in {0, drafts[s][r]}
              \/ drafts'[s][r] = q.step /\ r \in q.keep
          BY <1>3, <2>7 DEF NewDrafts, LateRow
        <4> QED
          BY <1>1, <1>2, <2>1, <2>2, <2>3, <2>4, <2>7, <4>1
      <3>9. d <= done'[s] - PP /\ sched[done'[s]].rows = {}
        BY <1>1, <1>2, <2>1, <2>7
      <3> QED
        BY <1>5, <2>7, <3>2, <3>4, <3>6, <3>7, <3>8, <3>9
    <2> QED
      BY <2>5, <2>6, <2>7
  <1> QED
    BY <1>4, <1>5

-----------------------------------------------------------------------------
(* The drafts a row is left with: none if it was freed, else the newest of  *)
(* what it held, what was pending and what was consumed.                    *)
LEMMA StageRow ==
    ASSUME TypeOK, SchedOK, GenOK, QueueOK, PendingOK, StoredOK,
           NEW s \in Earlier, StageStep(s), NEW r \in Slots,
           NEW y, y = drafts'[s][r], NEW x, x = drafts[s][r],
           NEW d, d = Taken(s).step, NEW q, q = pending[s].step
    PROVE  /\ y \in Nat /\ x \in Nat /\ d \in Nat /\ q \in Nat
           /\ y \in {0, x, d, q}
           /\ y # 0 => /\ r \notin Now(s).free
                       /\ y = x \/ (y = d /\ NewRow(s, r)) \/ (y = q /\ LateRow(s, r))
           /\ r \notin Now(s).free =>
                /\ y = x \/ (y = d /\ NewRow(s, r)) \/ (y = q /\ LateRow(s, r))
                /\ y >= x
                /\ LateRow(s, r) => y >= q \/ (pending'[s] = pending[s])
                /\ NewRow(s, r) => \/ y = d
                                   \/ pending'[s].step = d /\ r \in pending'[s].keep
  <1>1. HasStep(s) /\ s \in Stages /\ Earlier \subseteq Stages /\ PP \in Nat /\ PP >= 2
    BY PipeFacts DEF StageStep
  <1>2. At(s) = done[s] + 1 /\ done[s] \in Nat
    BY <1>1, StepNumber
  <1>3. x \in Nat /\ q \in Nat
    BY <1>1, NumberTypes
  <1>4. d \in Nat /\ (d # 0 => d = At(s) - PP)
    BY <1>1, TakenFacts
  <1>5. y = NewDrafts(s, r) /\ NewPending(s)
    BY StageRows
  <1>6. LateRow(s, r) => q # 0 /\ split /\ x <= q /\ q <= done[s] - PP
    BY DEF PendingOK, LateRow
  <1>7. x # 0 => x <= done[s] - PP
    BY <1>1 DEF StoredOK
  <1>8. NewRow(s, r) => d # 0
    BY DEF NewRow
  <1>9. y = IF r \in Now(s).free THEN 0
            ELSE IF Now(s).rows = {}
            THEN IF split THEN (IF d # 0 /\ LateRow(s, r) THEN q ELSE x)
                          ELSE (IF NewRow(s, r) THEN d ELSE x)
            ELSE IF NewRow(s, r) THEN d ELSE IF LateRow(s, r) THEN q ELSE x
    BY <1>5 DEF NewDrafts
  <1>10. NewRow(s, r) => x < d /\ (LateRow(s, r) => q < d)
    BY <1>1, <1>2, <1>3, <1>4, <1>6, <1>7, <1>8
  <1>11. r \notin Now(s).free =>
           /\ y = x \/ (y = d /\ NewRow(s, r)) \/ (y = q /\ LateRow(s, r))
           /\ y >= x
    BY <1>3, <1>4, <1>6, <1>9, <1>10
  <1>12. ASSUME r \notin Now(s).free, LateRow(s, r)
         PROVE  y >= q \/ pending'[s] = pending[s]
    BY <1>3, <1>4, <1>5, <1>6, <1>9, <1>10, <1>12 DEF NewPending
  <1>13. ASSUME r \notin Now(s).free, NewRow(s, r)
         PROVE  y = d \/ (pending'[s].step = d /\ r \in pending'[s].keep)
    <2>1. CASE Now(s).rows # {} \/ ~split
      BY <1>9, <1>13, <2>1
    <2>2. CASE Now(s).rows = {} /\ split
      <3>1. PICK at \in {gen[s], GenAfter(s)} :
               pending'[s] = [step |-> Taken(s).step, keep |-> Kept(s, at), gen |-> at]
        BY <1>5, <1>8, <1>13, <2>2 DEF NewPending
      <3>2. r \in Kept(s, at)
        BY <1>1, <1>8, <1>13, ComparedRows
      <3> QED
        BY <3>1, <3>2
    <2> QED
      BY <2>1, <2>2
  <1>14. r \in Now(s).free => y = 0
    BY <1>9
  <1> QED
    BY <1>3, <1>4, <1>11, <1>12, <1>13, <1>14

LEMMA StageStored ==
    ASSUME TypeOK, SchedOK, GenOK, QueueOK, PendingOK, StoredOK, NEW s \in Earlier, StageStep(s)
    PROVE  StoredOK'
  <1>1. Steps(s) /\ HasStep(s) /\ s \in Stages /\ Earlier \subseteq Stages /\ PP \in Nat /\ PP >= 2
    BY StageFrame, PipeFacts DEF StageStep
  <1>2. /\ PP' = PP /\ Earlier' = Earlier /\ \A n : Sampled(n)' = Sampled(n)
        /\ \A r, d, n : Held(r, d, n)' <=> Held(r, d, n)
        /\ done[s] \in Nat /\ done'[s] = done[s] + 1 /\ At(s) = done[s] + 1 /\ Now(s) = sched[At(s)]
        /\ \A t \in Stages \ {s} : done'[t] = done[t]
        /\ At(s) \in 1 .. Len(sched) /\ Len(sched) \in Nat
    BY <1>1, StepFacts, SchedType
  <1>3. /\ drafts' = [drafts EXCEPT ![s] = drafts'[s]]
        /\ pending' = [pending EXCEPT ![s] = pending'[s]]
    BY StageRows
  <1> SUFFICES ASSUME NEW t \in Earlier, NEW r \in Slots, NEW y, y = drafts'[t][r],
                      NEW p, p = pending'[t]
               PROVE  /\ y # 0 => y <= done'[t] - PP /\ r \in Sampled(y) /\ Held(r, y, done'[t])
                      /\ \A k \in 1 .. done'[t] - PP :
                           r \in Sampled(k) /\ Held(r, k, done'[t]) =>
                              k <= y \/ (k <= p.step /\ r \in p.keep)
    BY <1>2 DEF StoredOK
  <1>4. CASE t # s
    <2>1. done'[t] = done[t] /\ y = drafts[t][r] /\ p = pending[t]
      BY <1>1, <1>2, <1>3, <1>4 DEF TypeOK, Earlier
    <2> QED
      BY <2>1 DEF StoredOK
  <1>5. CASE t = s
    <2> DEFINE x == drafts[s][r]
               d == Taken(s).step
               q == pending[s].step
    <2>1. /\ y \in Nat /\ x \in Nat /\ d \in Nat /\ q \in Nat
          /\ y # 0 => /\ r \notin Now(s).free
                      /\ y = x \/ (y = d /\ NewRow(s, r)) \/ (y = q /\ LateRow(s, r))
          /\ r \notin Now(s).free =>
               /\ y >= x
               /\ LateRow(s, r) => y >= q \/ (pending'[s] = pending[s])
               /\ NewRow(s, r) => \/ y = d
                                  \/ pending'[s].step = d /\ r \in pending'[s].keep
      BY <1>5, StageRow
    <2>2. /\ d # 0 => d = At(s) - PP /\ d <= done[s] /\ Sampled(d) # {}
          /\ d = 0 => \A k \in 1 .. Len(sched) : k = At(s) - PP => Sampled(k) = {}
      BY <1>1, TakenFacts
    <2>3. /\ x # 0 => x <= done[s] - PP /\ r \in Sampled(x) /\ Held(r, x, done[s])
          /\ \A k \in 1 .. done[s] - PP :
               r \in Sampled(k) /\ Held(r, k, done[s]) =>
                  k <= x \/ (k <= q /\ r \in pending[s].keep)
      BY <1>1 DEF StoredOK
    <2>4. r \in pending[s].keep => q # 0 /\ q <= done[s] - PP /\ r \in Sampled(q)
      BY DEF PendingOK
    <2>5. NewRow(s, r) <=> d # 0 /\ r \in Sampled(d) /\ Held(r, d, done[s])
      BY DEF NewRow
    <2>6. LateRow(s, r) <=> r \in pending[s].keep /\ Held(r, q, done[s])
      BY DEF LateRow
    <2>7. \A k \in Nat : k <= done[s] =>
             (Held(r, k, done[s] + 1) <=> Held(r, k, done[s]) /\ r \notin Now(s).free)
      BY <1>2, HeldStep
    <2> HIDE DEF x, d, q
    <2>8. ASSUME y # 0
          PROVE  y <= done'[t] - PP /\ r \in Sampled(y) /\ Held(r, y, done'[t])
      <3>1. y <= done'[s] - PP /\ r \in Sampled(y) /\ Held(r, y, done[s])
        <4>1. CASE y = x
          BY <1>1, <1>2, <2>1, <2>3, <2>8, <4>1
        <4>2. CASE y = d /\ NewRow(s, r)
          BY <1>1, <1>2, <2>1, <2>2, <2>5, <4>2
        <4>3. CASE y = q /\ LateRow(s, r)
          BY <1>1, <1>2, <2>1, <2>4, <2>6, <4>3
        <4> QED
          BY <2>1, <2>8, <4>1, <4>2, <4>3
      <3>2. y <= done[s]
        BY <1>1, <1>2, <2>1, <3>1
      <3> QED
        BY <1>2, <1>5, <2>1, <2>7, <2>8, <3>1, <3>2
    <2>9. ASSUME NEW k \in 1 .. done'[t] - PP, r \in Sampled(k), Held(r, k, done'[t])
          PROVE  k <= y \/ (k <= p.step /\ r \in p.keep)
      <3>1. k \in Nat /\ k <= done[s] /\ k >= 1 /\ k <= At(s) - PP /\ k \in 1 .. Len(sched)
        BY <1>1, <1>2, <1>5, <2>9
      <3>2. Held(r, k, done[s]) /\ r \notin Now(s).free
        BY <1>2, <1>5, <2>7, <2>9, <3>1
      <3>3. CASE k = At(s) - PP
        <4>1. d = k /\ NewRow(s, r)
          BY <2>1, <2>2, <2>5, <2>9, <3>1, <3>2, <3>3
        <4> QED
          BY <1>5, <2>1, <3>1, <3>2, <4>1
      <3>4. CASE k # At(s) - PP
        <4>1. k \in 1 .. done[s] - PP
          <5>1. /\ At(s) = done[s] + 1 /\ done[s] \in Nat /\ PP \in Nat
                /\ k \in Nat /\ k >= 1 /\ k <= At(s) - PP
            BY <1>1, <1>2, <3>1
          <5> QED
            BY <3>4, <5>1
        <4>2. k <= x \/ (k <= q /\ r \in pending[s].keep)
          BY <2>3, <2>9, <3>2, <4>1
        <4>3. CASE k <= x
          BY <2>1, <3>1, <3>2, <4>3
        <4>4. CASE k <= q /\ r \in pending[s].keep
          <5>1. Held(r, q, done[s])
            BY <1>2, <2>1, <3>1, <3>2, <4>4, HeldPart
          <5>2. LateRow(s, r)
            BY <2>6, <4>4, <5>1
          <5>3. y >= q \/ p = pending[s]
            BY <1>5, <2>1, <3>2, <5>2
          <5>4. pending[s].step = q
            BY DEF q
          <5> QED
            BY <2>1, <3>1, <4>4, <5>3, <5>4
        <4> QED
          BY <4>2, <4>3, <4>4
      <3> QED
        BY <3>3, <3>4
    <2> QED
      BY <2>8, <2>9
  <1> QED
    BY <1>4, <1>5

LEMMA StageLanded ==
    ASSUME TypeOK, SchedOK, GenOK, QueueOK, PendingOK, LandedOK, NEW s \in Earlier, StageStep(s)
    PROVE  LandedOK'
  <1>1. /\ Steps(s) /\ Issues(s) /\ HasStep(s) /\ s \in Stages /\ Earlier \subseteq Stages
        /\ PP \in Nat /\ PP >= 2
    BY StageFrame, PipeFacts DEF StageStep
  <1>2. /\ PP' = PP /\ Earlier' = Earlier /\ sched' = sched /\ \A n : Sampled(n)' = Sampled(n)
        /\ \A r, d, n : Held(r, d, n)' <=> Held(r, d, n)
        /\ done[s] \in Nat /\ done'[s] = done[s] + 1 /\ At(s) = done[s] + 1 /\ Now(s) = sched[At(s)]
        /\ \A t \in Stages \ {s} : done'[t] = done[t]
        /\ At(s) \in 1 .. Len(sched) /\ Len(sched) \in Nat
    BY <1>1, StepFacts, SchedType
  <1>3. /\ pending' = [pending EXCEPT ![s] = pending'[s]] /\ NewPending(s)
        /\ \A r \in Slots : Waited(s, r)
    BY StageRows
  <1> SUFFICES ASSUME NEW t \in Earlier, NEW d \in 1 .. done'[t] - PP, NEW r \in Sampled(d),
                      NEW k, k \in d + PP .. done'[t],
                      \/ Held(r, d, done'[t]) /\ pending'[t].step # d
                      \/ sched[k].rows # {} /\ Held(r, d, k)
               PROVE  Landed(t, d)'
    <2>1. \A t \in Earlier : done'[t] \in Int
      BY <1>1, <1>2, NumberTypes
    <2>2. \A t \in Earlier : \A d \in 1 .. done'[t] - PP : done'[t] \in d + PP .. done'[t]
      BY <1>1, <2>1
    <2> QED
      BY <1>2, <2>2 DEF LandedOK
  <1>4. CASE t # s
    <2>1. done'[t] = done[t] /\ pending'[t] = pending[t] /\ done[t] \in Nat
      BY <1>1, <1>2, <1>3, <1>4, NumberTypes DEF TypeOK, Earlier
    <2>2. d \in 1 .. done[t] - PP /\ d \in 1 .. done[t]
      BY <1>1, <2>1
    <2>3. /\ Held(r, d, done[t]) => Landed(t, d) \/ pending[t].step = d
          /\ \A j \in d + PP .. done[t] : sched[j].rows # {} /\ Held(r, d, j) => Landed(t, d)
      BY <2>2 DEF LandedOK
    <2>4. Landed(t, d)
      BY <2>1, <2>3
    <2> QED
      BY <1>1, <2>2, <2>4, IssueLanded
  <1>5. CASE t = s
    <2>1. d \in 1 .. done[s] /\ d <= At(s) - PP /\ d \in Nat /\ d \in 1 .. Len(sched) /\ d # 0
      BY <1>1, <1>2, <1>5
    <2> SUFFICES Landed(s, d)
      BY <1>1, <1>5, <2>1, IssueLanded
    <2>2. r \in Slots
      BY <2>1, SchedType
    <2>3. /\ Taken(s).step # 0 => Taken(s).step = At(s) - PP
          /\ Taken(s).step = 0 => \A j \in 1 .. Len(sched) : j = At(s) - PP => Sampled(j) = {}
      BY <1>1, TakenFacts
    <2>4. CASE k <= done[s] /\ sched[k].rows # {} /\ Held(r, d, k)
      <3>1. d \in 1 .. done[s] - PP /\ k \in d + PP .. done[s]
        BY <1>1, <1>2, <1>5, <2>1, <2>4
      <3> QED
        BY <2>4, <3>1 DEF LandedOK
    <2>5. CASE ~(k <= done[s] /\ sched[k].rows # {} /\ Held(r, d, k))
      <3>1. /\ Held(r, d, At(s))
            /\ pending'[s].step # d \/ Now(s).rows # {}
        <4>1. k \in Int /\ (~(k <= done[s]) => k = At(s))
          BY <1>1, <1>2, <1>5
        <4> QED
          BY <1>2, <1>5, <2>5, <4>1
      <3>2. Held(r, d, done[s]) /\ r \notin Now(s).free
        BY <1>2, <2>1, <3>1, HeldStep
      <3>3. Waited(s, r)
        BY <1>3, <2>2
      <3>4. CASE d = At(s) - PP
        <4>1. Taken(s).step = d
          BY <2>1, <2>3, <3>4
        <4>2. NewRow(s, r)
          BY <2>1, <3>2, <4>1 DEF NewRow
        <4>3. Now(s).rows # {} \/ ~split
          <5> SUFFICES ASSUME Now(s).rows = {}, split PROVE pending'[s].step = d
            BY <3>1
          <5> QED
            BY <1>3, <2>1, <4>1 DEF NewPending
        <4> QED
          BY <3>2, <3>3, <4>1, <4>2, <4>3 DEF Waited
      <3>5. CASE d # At(s) - PP
        <4>1. d \in 1 .. done[s] - PP
          BY <1>1, <1>2, <2>1, <3>5
        <4>2. Landed(s, d) \/ pending[s].step = d
          BY <3>2, <4>1 DEF LandedOK
        <4>3. ASSUME pending[s].step = d
              PROVE  Landed(s, d)
          <5>1. r \in pending[s].keep
            BY <2>1, <3>2, <4>3 DEF PendingOK
          <5>2. LateRow(s, r)
            BY <3>2, <4>3, <5>1 DEF LateRow
          <5>3. Now(s).rows # {} \/ (split /\ Taken(s).step # 0)
            <6> SUFFICES ASSUME Now(s).rows = {}, ~(split /\ Taken(s).step # 0)
                         PROVE  pending'[s].step = d
              BY <3>1
            <6> QED
              BY <1>3, <4>3 DEF NewPending
          <5> QED
            BY <3>2, <3>3, <4>3, <5>2, <5>3 DEF Waited
        <4> QED
          BY <4>2, <4>3
      <3> QED
        BY <3>4, <3>5
    <2> QED
      BY <2>4, <2>5
  <1> QED
    BY <1>4, <1>5

-----------------------------------------------------------------------------
(* A step of an earlier stage leaves what the last stage holds alone. *)
LEMMA StageLast ==
    ASSUME TypeOK, SchedOK, GenOK, QueueOK, PendingOK, RemoteOK, LastOK, ReadOK,
           NEW s \in Earlier, StageStep(s)
    PROVE  RemoteOK' /\ LastOK' /\ ReadOK'
  <1>1. /\ Steps(s) /\ s \in Stages /\ LastRank \in Stages \ {s}
        /\ remote' = remote /\ qstep' = qstep /\ read' = read
    BY StageFrame, PipeFacts
  <1>2. /\ PP' = PP /\ LastRank' = LastRank /\ MaxAge' = MaxAge /\ sched' = sched
        /\ \A n : Sampled(n)' = Sampled(n)
        /\ \A r, d, n : Held(r, d, n)' <=> Held(r, d, n)
        /\ done'[LastRank] = done[LastRank]
    BY <1>1, StepFacts
  <1>3. drafts'[LastRank] = drafts[LastRank]
    <2>1. drafts' = [drafts EXCEPT ![s] = drafts'[s]]
      BY StageRows
    <2> QED
      BY <1>1, <2>1 DEF TypeOK
  <1>5. PICK L : L = LastRank /\ L \in Stages \ {s}
    BY <1>1
  <1>4. \A g, r, d : Since(g, L, r, d)' <=> Since(g, L, r, d)
    BY <1>1, <1>5, OtherSince
  <1>6. RemoteOK'
    <2> SUFFICES ASSUME NEW i \in DOMAIN remote, NEW e, e = remote[i]
                 PROVE  /\ e.of <= done[LastRank] /\ e.keep = Sampled(e.of) /\ e.keep # {}
                        /\ \A r \in Slots : Since(e.gen, L, r, e.of)'
                        /\ \A j \in DOMAIN remote : i < j => e.of < remote[j].of
                        /\ qstep - MaxAge < e.step /\ e.step <= qstep - (Len(remote) - i)
                        /\ qstep - e.step <= done[LastRank] - e.of
                        /\ \/ qstep - e.step < PP
                           \/ \E k \in e.of + PP .. done[LastRank] : sched[k].rows # {}
      BY <1>1, <1>2, <1>5 DEF RemoteOK
    <2> DEFINE g == e.gen
               n == e.of
    <2>1. \A r \in Slots : Since(g, L, r, n)
      BY <1>5 DEF RemoteOK
    <2>2. \A r \in Slots : Since(g, L, r, n)'
      BY <1>4, <2>1
    <2> QED
      BY <2>2 DEF RemoteOK
  <1>7. LastOK'
    BY <1>1, <1>2, <1>3 DEF LastOK
  <1>8. ReadOK'
    BY <1>1, <1>2 DEF ReadOK
  <1> QED
    BY <1>6, <1>7, <1>8

LEMMA StageInv ==
    ASSUME DraftInv, NEW s \in Earlier, StageStep(s)
    PROVE  DraftInv'
  <1> /\ TypeOK /\ SchedOK /\ GenOK /\ QueueOK /\ PendingOK /\ StoredOK
      /\ RemoteOK /\ LastOK /\ ReadOK /\ StreamOK /\ LandedOK
    BY DEF DraftInv
  <1>1. /\ Steps(s) /\ Issues(s) /\ HasStep(s) /\ s \in Stages /\ s # LastRank
        /\ LastRank \in Stages \ {s} /\ PP \in Nat /\ PP >= 2
        /\ UNCHANGED <<ok, live, read, remote, qstep>>
        /\ queue' = [queue EXCEPT ![s] = queue'[s]]
        /\ queue'[s] \in Seq(Snapshot) /\ Len(queue'[s]) = PP
    BY StageFrame, PipeFacts DEF StageStep
  <1>2. /\ PP' = PP /\ Stages' = Stages /\ LastRank' = LastRank /\ MaxAge' = MaxAge
        /\ sched' = sched /\ done'[LastRank] = done[LastRank]
        /\ UNCHANGED <<pipe, split, setup>>
    BY <1>1, StepFacts DEF Steps
  <1>3. GenOK' /\ gen' \in [Stages -> [Slots -> 0 .. MaxEvents]] /\ done' \in [Stages -> 0 .. MaxSteps]
    BY <1>1, StepGen
  <1>4. SchedOK'
    <2>1. qstep' <= done'[LastRank]
      BY <1>1, <1>2 DEF SchedOK
    <2> QED
      BY <1>1, <2>1, StepSched
  <1>5. stream' \in [Stages -> Seq(Op)]
    BY <1>1, IssueFacts
  <1>6. drafts' \in [Stages -> [Slots -> 0 .. MaxSteps]]
    <2>1. drafts' = [drafts EXCEPT ![s] = drafts'[s]] 
          /\ drafts'[s] = [r \in Slots |-> drafts'[s][r]]
      BY StageRows
    <2>2. ASSUME NEW r \in Slots
          PROVE  drafts'[s][r] \in 0 .. MaxSteps
      <3> DEFINE y == drafts'[s][r]
                 x == drafts[s][r]
                 d == Taken(s).step
                 q == pending[s].step
      <3>1. y \in {0, x, d, q}
        BY StageRow
      <3>2. x \in 0 .. MaxSteps
        BY <1>1 DEF TypeOK
      <3>3. q \in 0 .. MaxSteps
        BY NumberTypes DEF PendingEntry
      <3>4. d \in 0 .. MaxSteps
        <4>1. 1 \in 1 .. PP
          BY <1>1
        <4> QED
          BY <4>1, QueueType DEF Taken, Snapshot
      <3> QED
        BY <3>1, <3>2, <3>3, <3>4, NumberTypes
    <2>3. drafts \in [Stages -> [Slots -> 0 .. MaxSteps]]
      BY DEF TypeOK
    <2>4. drafts'[s] \in [Slots -> 0 .. MaxSteps]
      BY <2>1, <2>2
    <2> QED
      BY <2>1, <2>3, <2>4
  <1>7. pending' \in [Stages \ {LastRank} -> PendingEntry]
    <2>1. pending \in [Stages \ {LastRank} -> PendingEntry] /\ s \in Stages \ {LastRank}
      BY <1>1 DEF TypeOK, PendingEntry
    <2>2. pending' = [pending EXCEPT ![s] = pending'[s]] /\ NewPending(s)
      BY StageRows
    <2>3. pending'[s] \in PendingEntry
      <3>1. NoPending \in PendingEntry
        BY NumberTypes DEF NoPending, PendingEntry, Zeros
      <3>2. ASSUME NEW at \in {gen[s], GenAfter(s)}, Taken(s).step # 0
            PROVE  [step |-> Taken(s).step, keep |-> Kept(s, at), gen |-> at] \in PendingEntry
        <4>1. 1 \in 1 .. PP
          BY <1>1
        <4>2. Taken(s).step \in 0 .. MaxSteps
          BY <4>1, QueueType DEF Taken, Snapshot
        <4>3. Sampled(Taken(s).step) \subseteq Slots
          BY <1>1, <3>2, TakenFacts
        <4>4. Kept(s, at) \subseteq Slots
          BY <4>3 DEF Kept, StillHeld, Sampled
        <4>5. at \in [Slots -> 0 .. MaxEvents]
          <5>1. gen[s] \in [Slots -> 0 .. MaxEvents]
            BY <1>1 DEF TypeOK
          <5>2. gen'[s] = GenAfter(s) /\ gen'[s] \in [Slots -> 0 .. MaxEvents]
            BY <1>1, <1>3, StepFacts
          <5> QED
            BY <5>1, <5>2
        <4> QED
          BY <4>2, <4>4, <4>5 DEF PendingEntry
      <3>3. pending[s] \in PendingEntry
        BY <2>1
      <3> QED
        BY <2>2, <3>1, <3>2, <3>3 DEF NewPending
    <2> QED
      BY <2>1, <2>2, <2>3
  <1>8. /\ queue' \in [Stages \ {LastRank} -> Seq(Snapshot)]
        /\ \A t \in DOMAIN queue' : Len(queue'[t]) = PP
    <2>1. queue \in [Stages \ {LastRank} -> Seq(Snapshot)] /\ \A t \in DOMAIN queue : Len(queue[t]) = PP
      BY DEF TypeOK, Snapshot
    <2> QED
      BY <1>1, <2>1
  <1>9. TypeOK'
    BY <1>1, <1>2, <1>3, <1>5, <1>6, <1>7, <1>8 DEF TypeOK, Snapshot, PendingEntry, Op
  <1>10. QueueOK' /\ PendingOK' /\ StoredOK' /\ LandedOK'
    BY StageQueue, StagePending, StageStored, StageLanded
  <1>11. StreamOK'
    BY <1>1, IssueStreams
  <1>12. RemoteOK' /\ LastOK' /\ ReadOK'
    BY StageLast
  <1> QED
    BY <1>3, <1>4, <1>9, <1>10, <1>11, <1>12 DEF DraftInv

-----------------------------------------------------------------------------
(* The initial state and a step that is added. *)
LEMMA InitInv ==
    ASSUME Init
    PROVE  DraftInv
  <1>1. /\ pipe \in [stages : Nat \ {0, 1}, tail : Nat] /\ pipe.tail <= pipe.stages - 2
        /\ MaxSteps \in Nat /\ MaxEvents \in Nat /\ pipe \in Pipelines
    BY DraftTailAssumption DEF Init
  <1>2. /\ PP \in Nat /\ PP >= 2 /\ LastRank = PP - 1 /\ Stages = 0 .. LastRank
        /\ LastRank \in Stages /\ Earlier \subseteq Stages
    BY <1>1 DEF PP, LastRank, Stages, Earlier
  <1>3. Zeros \in [Slots -> 0 .. MaxSteps] /\ Zeros \in [Slots -> 0 .. MaxEvents]
        /\ \A r \in Slots : Zeros[r] = 0
    BY <1>1 DEF Zeros
  <1>4. /\ sched = <<>> /\ remote = <<>> /\ qstep = 0 /\ read = Zeros /\ setup = "agree"
        /\ split \in BOOLEAN
        /\ ok = [s \in Stages |-> FALSE] /\ live = [s \in Stages |-> FALSE]
        /\ done = [s \in Stages |-> 0] /\ gen = [s \in Stages |-> Zeros]
        /\ drafts = [s \in Stages |-> Zeros] /\ stream = [s \in Stages |-> <<>>]
        /\ queue = [s \in Stages \ {LastRank} |-> [i \in 1 .. PP |-> None]]
        /\ pending = [s \in Stages \ {LastRank} |-> NoPending]
    BY DEF Init
  <1>5. [i \in 1 .. PP |-> None] \in Seq(Snapshot) /\ Len([i \in 1 .. PP |-> None]) = PP
    <2>1. None \in Snapshot
      BY <1>1, <1>3 DEF None, Snapshot
    <2>2. [i \in 1 .. PP |-> None] \in [1 .. PP -> Snapshot]
      BY <2>1
    <2> QED
      BY <1>2, <2>1
  <1>6. NoPending \in PendingEntry
    BY <1>1, <1>3 DEF NoPending, PendingEntry
  <1>7. TypeOK
    <2>1. {ok, live} \subseteq [Stages -> BOOLEAN]
      BY <1>4
    <2>2. done \in [Stages -> 0 .. MaxSteps] /\ gen \in [Stages -> [Slots -> 0 .. MaxEvents]]
          /\ drafts \in [Stages -> [Slots -> 0 .. MaxSteps]] /\ read \in [Slots -> 0 .. MaxSteps]
      BY <1>1, <1>3, <1>4
    <2>3. /\ queue \in [Stages \ {LastRank} -> Seq(Snapshot)]
          /\ \A s \in DOMAIN queue : Len(queue[s]) = PP
          /\ pending \in [Stages \ {LastRank} -> PendingEntry]
      BY <1>4, <1>5, <1>6
    <2>4. MaxAge >= 0
      <3> DEFINE M == CHOOSE x \in {2, PP + 1} : \A y \in {2, PP + 1} : x >= y
      <3>1. \E x \in {2, PP + 1} : \A y \in {2, PP + 1} : x >= y
        BY <1>2
      <3>2. M \in {2, PP + 1}
        BY <3>1
      <3> HIDE DEF M
      <3>3. M >= 0
        BY <1>2, <3>2
      <3> QED
        BY <3>3 DEF M, MaxAge, Max
    <2>5. remote \in Seq(Entry) /\ Len(remote) <= MaxAge
      BY <1>2, <1>4, <2>4
    <2>6. sched \in Seq(StepRecord) /\ stream \in [Stages -> Seq(Op)] /\ qstep \in 0 .. MaxSteps
      BY <1>1, <1>4
    <2> QED
      BY <1>1, <1>4, <2>1, <2>2, <2>3, <2>5, <2>6 DEF TypeOK, Snapshot, PendingEntry, StepRecord, Op
  <1>8. SchedOK
    BY SchedInit
  <1>9. GenOK
    <2>1. Events(sched) = {}
      BY <1>4 DEF Events
    <2>2. Cardinality({}) = 0
      BY FS_EmptySet
    <2>3. \A s \in Stages, r \in Slots : Frees(s, r) = {}
      BY <1>4 DEF Frees
    <2>4. \A s \in Stages, r \in Slots : gen[s][r] = 0
      BY <1>3, <1>4
    <2>5. \A s \in Stages, r \in Slots : Cardinality(Frees(s, r)) = 0
      BY <2>2, <2>3
    <2>6. Cardinality(Events(sched)) <= MaxEvents
      BY <1>1, <2>1, <2>2
    <2> QED
      BY <2>4, <2>5, <2>6 DEF GenOK
  <1>10. QueueOK
    <2> SUFFICES ASSUME NEW s \in Earlier, NEW i \in 1 .. PP, done[s] - PP + i >= 1 PROVE FALSE
      BY <1>4 DEF QueueOK, None, Earlier
    <2>1. done[s] = 0
      BY <1>2, <1>4
    <2> QED
      BY <1>2, <2>1
  <1>11. PendingOK
    BY <1>4 DEF PendingOK, NoPending, Earlier
  <1>12. \A s \in Earlier : 1 .. done[s] - PP = {}
    BY <1>2, <1>4
  <1>13. StoredOK /\ LandedOK
    <2>1. \A s \in Earlier, r \in Slots : drafts[s][r] = 0
      BY <1>2, <1>3, <1>4
    <2> QED
      BY <1>12, <2>1 DEF StoredOK, LandedOK
  <1>14. RemoteOK /\ ReadOK /\ LastOK
    <2>1. done[LastRank] = 0 /\ DOMAIN remote = {} /\ \A r \in Slots : drafts[LastRank][r] = 0
      BY <1>2, <1>3, <1>4
    <2> QED
      BY <2>1 DEF RemoteOK, ReadOK, LastOK
  <1>15. StreamOK
    BY <1>4 DEF StreamOK
  <1> QED
    BY <1>7, <1>8, <1>9, <1>10, <1>11, <1>13, <1>14, <1>15 DEF DraftInv

LEMMA ScheduleStep ==
    ASSUME DraftInv, Schedule
    PROVE  DraftInv'
  <1> TypeOK /\ SchedOK
    BY DEF DraftInv
  <1>1. UNCHANGED <<setupVars, done, hostVars, stream>> /\ sched' \in Seq(StepRecord)
    BY ScheduleFacts
  <1>2. PP' = PP /\ LastRank' = LastRank /\ Stages' = Stages /\ MaxAge' = MaxAge
    BY <1>1, PipeStays DEF setupVars
  <1>3. TypeOK'
    BY <1>1, <1>2 DEF TypeOK, setupVars, hostVars, StepRecord, Op
  <1> QED
    BY <1>3, SchedScheduled, OthersScheduled DEF DraftInv

-----------------------------------------------------------------------------
(* A bounded set of numbers that is not empty has a greatest one.           *)
Less == OpToRel(<, Nat)

LEMMA LessWF == IsWellFoundedOn(Less, Nat)
  BY NatLessThanWellFounded, Zenon DEF Less

LEMMA LessIs ==
    ASSUME NEW x \in Nat, NEW y \in Nat, <<x, y>> \notin Less
    PROVE  ~(x < y)
  BY Zenon DEF Less, OpToRel

LEMMA MaxFacts ==
    ASSUME NEW n \in Nat, NEW S, S \subseteq 0 .. n, S # {}
    PROVE  Max(S) \in S /\ \A y \in S : y <= Max(S)
  <1> DEFINE T == {n - y : y \in S}
  <1>1. T \subseteq Nat /\ T # {}
    <2>1. \A y \in S : n - y \in Nat
      OBVIOUS
    <2> QED
      BY <2>1
  <1>2. PICK t \in T : \A u \in T : <<u, t>> \notin Less
    BY <1>1, LessWF, WFMin
  <1>3. \A u \in T : ~(u < t)
    BY <1>1, <1>2, LessIs
  <1>4. PICK x \in S : t = n - x
    BY <1>2
  <1>5. \A y \in S : x >= y
    <2> SUFFICES ASSUME NEW y \in S PROVE x >= y
      OBVIOUS
    <2>1. n - y \in T
      OBVIOUS
    <2>2. ~(n - y < n - x)
      BY <1>3, <1>4, <2>1
    <2>3. x \in 0 .. n /\ y \in 0 .. n
      OBVIOUS
    <2> QED
      BY <2>2, <2>3
  <1> DEFINE m == CHOOSE z \in S : \A y \in S : z >= y
  <1>6. m \in S /\ \A y \in S : m >= y
    BY <1>5
  <1>7. Max(S) = m
    BY DEF Max
  <1> HIDE DEF m
  <1>8. \A y \in S : y <= m
    BY <1>6
  <1> QED
    BY <1>6, <1>7, <1>8

(* A step of the last stage leaves what the earlier ones hold alone. *)
LEMMA LastEarlier ==
    ASSUME TypeOK, SchedOK, GenOK, QueueOK, PendingOK, StoredOK, LandedOK,
           Steps(LastRank), Issues(LastRank), UNCHANGED <<queue, pending>>,
           \A s \in Earlier : drafts'[s] = drafts[s]
    PROVE  QueueOK' /\ PendingOK' /\ StoredOK' /\ LandedOK'
  <1>1. LastRank \in Stages /\ Earlier \subseteq Stages \ {LastRank} /\ PP \in Nat /\ PP >= 2
    BY PipeFacts
  <1>2. /\ PP' = PP /\ Earlier' = Earlier /\ sched' = sched /\ split' = split
        /\ \A n : Sampled(n)' = Sampled(n)
        /\ \A r, d, n : Held(r, d, n)' <=> Held(r, d, n)
        /\ \A t \in Stages \ {LastRank} : done'[t] = done[t]
    BY <1>1, StepFacts
  <1>3. \A s \in Earlier : done'[s] = done[s] /\ done[s] \in Nat
    BY <1>1, <1>2, NumberTypes
  <1>4. \A g, t, r, d : t \in Earlier => (Since(g, t, r, d)' <=> Since(g, t, r, d))
    BY <1>1, OtherSince
  <1>5. QueueOK'
    <2> SUFFICES ASSUME NEW s \in Earlier, NEW i \in 1 .. PP, NEW k, k = done[s] - PP + i,
                        NEW g, g = queue[s][i].gen
                 PROVE  IF k >= 1 /\ Sampled(k) # {}
                        THEN /\ queue[s][i].step = k
                             /\ \A r \in Slots : Since(g, s, r, k)'
                        ELSE queue[s][i].step = 0
      BY <1>2, <1>3 DEF QueueOK
    <2>1. IF k >= 1 /\ Sampled(k) # {}
          THEN /\ queue[s][i].step = k
               /\ \A r \in Slots : Since(g, s, r, k)
          ELSE queue[s][i].step = 0
      BY DEF QueueOK
    <2> QED
      BY <1>4, <2>1
  <1>6. PendingOK'
    <2> SUFFICES ASSUME NEW s \in Earlier, NEW p, p = pending[s]
                 PROVE  IF p.step = 0 THEN p.keep = {}
                        ELSE /\ split
                             /\ p.step <= done[s] - PP /\ sched[done[s]].rows = {}
                             /\ p.keep \subseteq Sampled(p.step)
                             /\ \A r \in Sampled(p.step) : Held(r, p.step, done[s]) => r \in p.keep
                             /\ \A r \in p.keep : Since(p.gen, s, r, p.step)'
                             /\ \A r \in Slots : drafts[s][r] <= p.step
      BY <1>2, <1>3 DEF PendingOK
    <2>1. IF p.step = 0 THEN p.keep = {}
          ELSE /\ split
               /\ p.step <= done[s] - PP /\ sched[done[s]].rows = {}
               /\ p.keep \subseteq Sampled(p.step)
               /\ \A r \in Sampled(p.step) : Held(r, p.step, done[s]) => r \in p.keep
               /\ \A r \in p.keep : Since(p.gen, s, r, p.step)
               /\ \A r \in Slots : drafts[s][r] <= p.step
      BY DEF PendingOK
    <2> QED
      BY <1>4, <2>1
  <1>7. StoredOK'
    <2> SUFFICES ASSUME NEW s \in Earlier, NEW r \in Slots, NEW x, x = drafts[s][r]
                 PROVE  /\ x # 0 => x <= done[s] - PP /\ r \in Sampled(x) /\ Held(r, x, done[s])
                        /\ \A d \in 1 .. done[s] - PP :
                             r \in Sampled(d) /\ Held(r, d, done[s]) =>
                                d <= x \/ (d <= pending[s].step /\ r \in pending[s].keep)
      BY <1>2, <1>3 DEF StoredOK
    <2> QED
      BY DEF StoredOK
  <1>8. LandedOK'
    <2> SUFFICES ASSUME NEW s \in Earlier, NEW d \in 1 .. done[s] - PP, NEW r \in Sampled(d)
                 PROVE  /\ Held(r, d, done[s]) => Landed(s, d)' \/ pending[s].step = d
                        /\ \A k \in d + PP .. done[s] :
                             sched[k].rows # {} /\ Held(r, d, k) => Landed(s, d)'
      BY <1>2, <1>3 DEF LandedOK
    <2>1. d \in 1 .. done[s]
      BY <1>1, <1>3
    <2>2. Landed(s, d) <=> Landed(s, d)'
      BY <1>1, <2>1, IssueLanded
    <2> QED
      BY <2>2 DEF LandedOK
  <1> QED
    BY <1>5, <1>6, <1>7, <1>8

-----------------------------------------------------------------------------
(* An entry of the last stage's queue gives its drafts to the rows that are *)
(* still held at the step.                                                  *)
LEMMA RemoteEntry ==
    ASSUME TypeOK, RemoteOK, NEW i \in 1 .. Len(remote)
    PROVE  /\ remote[i].of \in Nat /\ remote[i].of >= 1 /\ remote[i].of <= done[LastRank]
           /\ remote[i].of \in 1 .. MaxSteps
           /\ remote[i].keep = Sampled(remote[i].of) /\ remote[i].keep \subseteq Slots
           /\ \A j \in 1 .. Len(remote) : i < j => remote[i].of < remote[j].of
           /\ \A r \in Slots : /\ remote[i].gen[r] \in Nat
                               /\ Since(remote[i].gen, LastRank, r, remote[i].of)
  <1>1. DOMAIN remote = 1 .. Len(remote) /\ remote[i].of \in 1 .. MaxSteps
        /\ remote[i].keep \subseteq Slots /\ \A r \in Slots : remote[i].gen[r] \in Nat
    BY RemoteType
  <1>2. MaxSteps \in Nat
    BY NumberTypes
  <1> QED
    BY <1>1, <1>2 DEF RemoteOK

LEMMA LiveFacts ==
    ASSUME TypeOK, SchedOK, RemoteOK, HasStep(LastRank), NEW i \in 1 .. Len(remote)
    PROVE  /\ LiveRows(remote[i], GenAfter(LastRank)) \subseteq Slots
           /\ \A r \in Slots : r \in LiveRows(remote[i], GenAfter(LastRank)) <=>
                r \in remote[i].keep /\ Held(r, remote[i].of, At(LastRank))
  <1> DEFINE g == remote[i].gen
             d == remote[i].of
  <1>1. d \in Nat /\ d <= done[LastRank] /\ LastRank \in Stages
        /\ remote[i].keep \subseteq Slots /\ \A r \in Slots : g[r] \in Nat /\ Since(g, LastRank, r, d)
    BY RemoteEntry, PipeFacts
  <1>2. \A r : r \in LiveRows(remote[i], GenAfter(LastRank)) <=>
                 r \in remote[i].keep /\ GenAfter(LastRank)[r] = g[r]
    BY DEF LiveRows, StillHeld
  <1> HIDE DEF g, d
  <1>3. \A r \in Slots : GenAfter(LastRank)[r] = g[r] <=> Held(r, d, At(LastRank))
    BY <1>1, StepHeld
  <1> QED
    BY <1>1, <1>2, <1>3 DEF d

(* Everything that is too old or has a row of the batch is due. *)
LEMMA DueFacts ==
    ASSUME TypeOK, NEW now, NEW q, NEW batch, NEW due, due = Due(now, q, batch)
    PROVE  /\ due \in 0 .. Len(remote)
           /\ \A i \in 1 .. Len(remote) :
                TooOld(remote[i], q) \/ LiveRows(remote[i], now) \cap batch # {} => i <= due
  <1> DEFINE H == {i \in DOMAIN remote :
                     TooOld(remote[i], q) \/ LiveRows(remote[i], now) \cap batch # {}}
  <1>1. Len(remote) \in Nat /\ DOMAIN remote = 1 .. Len(remote)
    BY RemoteType
  <1>2. {0} \cup H \subseteq 0 .. Len(remote) /\ {0} \cup H # {}
    BY <1>1
  <1>3. due = Max({0} \cup H)
    BY DEF Due
  <1>4. \A i \in 1 .. Len(remote) :
           TooOld(remote[i], q) \/ LiveRows(remote[i], now) \cap batch # {} => i \in {0} \cup H
    BY <1>1
  <1> HIDE DEF H
  <1>5. Max({0} \cup H) \in {0} \cup H /\ \A y \in {0} \cup H : y <= Max({0} \cup H)
    BY <1>1, <1>2, MaxFacts
  <1> QED
    BY <1>2, <1>3, <1>4, <1>5

(* A row ends with the newest drafts that are due for it. *)
LEMMA AppliedFacts ==
    ASSUME TypeOK, SchedOK, RemoteOK, LastOK, HasStep(LastRank),
           NEW due \in 0 .. Len(remote), NEW r \in Slots,
           NEW y, y = Applied(Fresh(LastRank, drafts[LastRank]), due, GenAfter(LastRank))[r],
           NEW x, x = drafts[LastRank][r]
    PROVE  /\ y \in 0 .. MaxSteps /\ y \in Nat /\ x \in Nat
           /\ r \in Now(LastRank).free => y = 0
           /\ r \notin Now(LastRank).free =>
                /\ x <= y
                /\ \/ y = x
                   \/ \E m \in 1 .. due : /\ y = remote[m].of /\ r \in remote[m].keep
                                          /\ Held(r, remote[m].of, At(LastRank))
           /\ \A i \in 1 .. due :
                r \in remote[i].keep /\ Held(r, remote[i].of, At(LastRank)) => remote[i].of <= y
  <1> DEFINE n == At(LastRank)
             hits == {i \in 1 .. due : r \in LiveRows(remote[i], GenAfter(LastRank))}
  <1>1. /\ LastRank \in Stages /\ done[LastRank] \in Nat /\ n = done[LastRank] + 1 /\ n \in Nat
        /\ Now(LastRank) = sched[n]
        /\ Len(remote) \in Nat /\ x \in 0 .. MaxSteps /\ MaxSteps \in Nat
    <2>1. LastRank \in Stages
      BY PipeFacts
    <2>2. x \in 0 .. MaxSteps
      BY <2>1 DEF TypeOK
    <2> QED
      BY <2>1, <2>2, StepNumber, RemoteType, NumberTypes
  <1>2. due \in Nat /\ \A i \in 1 .. due : i \in 1 .. Len(remote)
    BY <1>1
  <1>3. y = IF hits = {} THEN Fresh(LastRank, drafts[LastRank])[r] ELSE remote[Max(hits)].of
    BY DEF Applied
  <1>4. Fresh(LastRank, drafts[LastRank])[r] = IF r \in Now(LastRank).free THEN 0 ELSE x
    BY DEF Fresh, Scatter
  <1>5. \A i \in 1 .. due : i \in hits <=> r \in remote[i].keep /\ Held(r, remote[i].of, n)
    BY <1>2, LiveFacts
  <1>6. hits \subseteq 0 .. due /\ hits \subseteq 1 .. due
    BY <1>2
  <1> HIDE DEF hits
  <1>7. \A d \in Nat : d <= done[LastRank] =>
           (Held(r, d, n) <=> Held(r, d, done[LastRank]) /\ r \notin Now(LastRank).free)
    <2> HIDE DEF n
    <2>1. \A d \in Nat : d <= done[LastRank] =>
             (Held(r, d, done[LastRank] + 1) <=>
                Held(r, d, done[LastRank]) /\ r \notin sched[done[LastRank] + 1].free)
      BY <1>1, HeldStep
    <2> QED
      BY <1>1, <2>1
  <1>8. CASE hits = {}
    BY <1>1, <1>3, <1>4, <1>5, <1>8
  <1>9. CASE hits # {}
    <2> DEFINE m == Max(hits)
    <2>1. m \in hits /\ \A i \in hits : i <= m
      BY <1>2, <1>6, <1>9, MaxFacts
    <2> HIDE DEF m
    <2>2. m \in 1 .. due /\ m \in 1 .. Len(remote) /\ r \in remote[m].keep
          /\ Held(r, remote[m].of, n) /\ y = remote[m].of
      BY <1>2, <1>3, <1>5, <1>6, <1>9, <2>1 DEF m
    <2>3. remote[m].of \in Nat /\ remote[m].of <= done[LastRank] /\ remote[m].of \in 1 .. MaxSteps
          /\ remote[m].of >= 1
      BY <2>2, RemoteEntry
    <2>4. Held(r, remote[m].of, done[LastRank]) /\ r \notin Now(LastRank).free
      BY <1>7, <2>2, <2>3
    <2>5. x < remote[m].of
      BY <2>2, <2>4, RemoteType DEF LastOK
    <2>6. ASSUME NEW i \in 1 .. due, r \in remote[i].keep, Held(r, remote[i].of, n)
          PROVE  remote[i].of <= y
      <3>1. i \in hits /\ i <= m /\ i \in 1 .. Len(remote)
        BY <1>2, <1>5, <2>1, <2>6
      <3>2. CASE i = m
        BY <2>2, <2>3, <3>2
      <3>3. CASE i # m
        <4>1. i < m
          BY <2>2, <3>1, <3>3
        <4>2. remote[i].of < remote[m].of /\ remote[i].of \in Nat
          BY <2>2, <3>1, <4>1, RemoteEntry
        <4> QED
          BY <2>2, <2>3, <4>2
      <3> QED
        BY <3>2, <3>3
    <2>7. y \in 0 .. MaxSteps /\ y \in Nat /\ x \in Nat /\ x <= y
      BY <1>1, <2>2, <2>3, <2>5
    <2> QED
      BY <2>2, <2>4, <2>6, <2>7
  <1> QED
    BY <1>8, <1>9

-----------------------------------------------------------------------------
(* The last stage's step without rows. *)
LEMMA SkipInv ==
    ASSUME DraftInv, SkipLast
    PROVE  DraftInv'
  <1> /\ TypeOK /\ SchedOK /\ GenOK /\ QueueOK /\ PendingOK /\ StoredOK
      /\ RemoteOK /\ LastOK /\ ReadOK /\ StreamOK /\ LandedOK
    BY DEF DraftInv
  <1>1. /\ HasStep(LastRank) /\ LastRank \in Stages /\ Now(LastRank).rows = {}
        /\ PP \in Nat /\ PP >= 2 /\ Earlier \subseteq Stages \ {LastRank}
        /\ UNCHANGED <<pipe, split, setup, ok, live, sched, read, queue, pending, remote, qstep, stream>>
        /\ drafts' = [drafts EXCEPT ![LastRank] = Fresh(LastRank, @)]
    BY PipeFacts DEF SkipLast, setupVars
  <1>2. Steps(LastRank)
    BY DEF SkipLast, Steps, setupVars
  <1> DEFINE n == At(LastRank)
  <1>3. /\ PP' = PP /\ LastRank' = LastRank /\ Stages' = Stages /\ MaxAge' = MaxAge
        /\ sched' = sched /\ \A k : Sampled(k)' = Sampled(k)
        /\ \A r, d, k : Held(r, d, k)' <=> Held(r, d, k)
        /\ done[LastRank] \in Nat /\ n = done[LastRank] + 1 /\ done'[LastRank] = n
        /\ Now(LastRank) = sched[n] /\ n \in 1 .. Len(sched)
    BY <1>1, <1>2, StepFacts
  <1>4. Sampled(n) = {} /\ Sampled(n) \subseteq sched[n].rows
    BY <1>1, <1>3, SchedType DEF SchedOK
  <1>5. Issues(LastRank)
    BY <1>1, <1>2, <1>4 DEF Issues, Steps
  <1>6. GenOK' /\ gen' \in [Stages -> [Slots -> 0 .. MaxEvents]] /\ done' \in [Stages -> 0 .. MaxSteps]
    BY <1>1, <1>2, StepGen
  <1>7. qstep \in Nat /\ qstep <= done[LastRank]
    BY NumberTypes DEF SchedOK
  <1>8. SchedOK'
    BY <1>1, <1>2, <1>3, <1>7, StepSched
  <1>9. drafts \in [Stages -> [Slots -> 0 .. MaxSteps]] /\ MaxSteps \in Nat
    BY NumberTypes DEF TypeOK
  <1>10. \A r \in Slots : drafts'[LastRank][r] =
            IF r \in Now(LastRank).free THEN 0 ELSE drafts[LastRank][r]
    BY <1>1, <1>9 DEF Fresh, Scatter
  <1>11. drafts' \in [Stages -> [Slots -> 0 .. MaxSteps]]
         /\ \A s \in Earlier : drafts'[s] = drafts[s]
    <2>1. Fresh(LastRank, drafts[LastRank]) \in [Slots -> 0 .. MaxSteps]
      BY <1>1, <1>9 DEF Fresh, Scatter
    <2> QED
      BY <1>1, <1>9, <2>1
  <1>12. TypeOK'
    BY <1>1, <1>3, <1>6, <1>11 DEF TypeOK, Op
  <1>13. QueueOK' /\ PendingOK' /\ StoredOK' /\ LandedOK'
    BY <1>1, <1>2, <1>5, <1>11, LastEarlier
  <1>14. StreamOK'
    BY <1>1, <1>5, IssueStreams
  <1>15. \A r \in Slots, d \in Nat : d <= done[LastRank] =>
            (Held(r, d, n) <=> Held(r, d, done[LastRank]) /\ r \notin Now(LastRank).free)
    <2> HIDE DEF n
    <2>1. \A r \in Slots, d \in Nat : d <= done[LastRank] =>
             (Held(r, d, done[LastRank] + 1) <=>
                Held(r, d, done[LastRank]) /\ r \notin sched[done[LastRank] + 1].free)
      BY <1>3, HeldStep
    <2> QED
      BY <1>3, <2>1
  <1> HIDE DEF n
  <1>16. RemoteOK'
    <2> SUFFICES ASSUME NEW i \in DOMAIN remote, NEW e, e = remote[i]
                 PROVE  /\ e.of <= n /\ e.keep = Sampled(e.of) /\ e.keep # {}
                        /\ \A r \in Slots : Since(e.gen, LastRank, r, e.of)'
                        /\ \A j \in DOMAIN remote : i < j => e.of < remote[j].of
                        /\ qstep - MaxAge < e.step /\ e.step <= qstep - (Len(remote) - i)
                        /\ qstep - e.step <= n - e.of
                        /\ \/ qstep - e.step < PP
                           \/ \E k \in e.of + PP .. n : sched[k].rows # {}
      BY <1>1, <1>3 DEF RemoteOK
    <2>0. PICK L, g, of : L = LastRank /\ g = e.gen /\ of = e.of
      OBVIOUS
    <2>9. i \in 1 .. Len(remote)
      BY RemoteType
    <2>1. /\ of \in Nat /\ of <= done[LastRank]
          /\ \A r \in Slots : g[r] \in Nat /\ Since(g, L, r, of)
      BY <2>0, <2>9, RemoteEntry
    <2>2. /\ e.keep = Sampled(of) /\ e.keep # {}
          /\ \A j \in DOMAIN remote : i < j => of < remote[j].of
          /\ qstep - MaxAge < e.step /\ e.step <= qstep - (Len(remote) - i)
          /\ qstep - e.step <= done[LastRank] - of
          /\ \/ qstep - e.step < PP
             \/ \E k \in of + PP .. done[LastRank] : sched[k].rows # {}
          /\ e.step \in Nat
      BY <2>0, <2>9, RemoteType DEF RemoteOK
    <2>3. \A r \in Slots : Since(g, L, r, of)'
      BY <1>1, <1>2, <2>0, <2>1, StepSince
    <2>4. of <= n /\ qstep - e.step <= n - of
      <3>1. n = done[LastRank] + 1 /\ done[LastRank] \in Nat
        BY <1>3
      <3>2. /\ qstep \in Nat /\ e.step \in Nat /\ of \in Nat /\ of <= done[LastRank]
            /\ qstep - e.step <= done[LastRank] - of
        BY <1>7, <2>1, <2>2
      <3> QED
        BY <3>1, <3>2
    <2>5. \/ qstep - e.step < PP
          \/ \E k \in of + PP .. n : sched[k].rows # {}
      <3>1. of + PP .. done[LastRank] \subseteq of + PP .. n
        BY <1>1, <1>3, <2>1
      <3> QED
        BY <2>2, <3>1
    <2>6. \A r \in Slots : Since(e.gen, LastRank, r, e.of)'
      BY <1>3, <2>0, <2>3
    <2> QED
      BY <2>0, <2>2, <2>4, <2>5, <2>6
  <1>17. LastOK'
    <2> SUFFICES ASSUME NEW r \in Slots, NEW y, y = drafts'[LastRank][r]
                 PROVE  /\ y # 0 => y <= n /\ r \in sched[y].rows /\ Held(r, y, n)
                        /\ \A i \in DOMAIN remote :
                             r \in remote[i].keep /\ Held(r, remote[i].of, n) => y < remote[i].of
                        /\ \A d \in 1 .. n : r \in Sampled(d) /\ Held(r, d, n) =>
                             d <= y \/ \E i \in DOMAIN remote : d <= remote[i].of /\ r \in remote[i].keep
      BY <1>1, <1>3 DEF LastOK
    <2> DEFINE x == drafts[LastRank][r]
    <2>1. /\ x # 0 => x <= done[LastRank] /\ r \in sched[x].rows /\ Held(r, x, done[LastRank])
          /\ \A i \in DOMAIN remote :
               r \in remote[i].keep /\ Held(r, remote[i].of, done[LastRank]) => x < remote[i].of
          /\ \A d \in 1 .. done[LastRank] : r \in Sampled(d) /\ Held(r, d, done[LastRank]) =>
               d <= x \/ \E i \in DOMAIN remote : d <= remote[i].of /\ r \in remote[i].keep
      BY DEF LastOK
    <2>2. x \in Nat /\ (y = IF r \in Now(LastRank).free THEN 0 ELSE x)
      BY <1>1, <1>10, NumberTypes
    <2>3. \A i \in DOMAIN remote : remote[i].of \in Nat /\ remote[i].of <= done[LastRank]
      BY RemoteEntry, RemoteType
    <2> HIDE DEF x
    <2>4. y # 0 => y <= n /\ r \in sched[y].rows /\ Held(r, y, n)
      BY <1>3, <1>15, <2>1, <2>2
    <2>5. \A i \in DOMAIN remote :
             r \in remote[i].keep /\ Held(r, remote[i].of, n) => y < remote[i].of
      BY <1>15, <2>1, <2>2, <2>3
    <2>6. ASSUME NEW d \in 1 .. n, r \in Sampled(d), Held(r, d, n)
          PROVE  d <= y \/ \E i \in DOMAIN remote : d <= remote[i].of /\ r \in remote[i].keep
      <3>1. d # n
        BY <1>4, <2>6
      <3>2. d \in 1 .. done[LastRank] /\ d \in Nat /\ d <= done[LastRank]
        BY <1>3, <3>1
      <3>3. Held(r, d, done[LastRank]) /\ r \notin Now(LastRank).free
        BY <1>15, <2>6, <3>2
      <3> QED
        BY <2>1, <2>2, <2>6, <3>2, <3>3
    <2> QED
      BY <2>4, <2>5, <2>6
  <1>18. ReadOK'
    BY <1>1, <1>3 DEF ReadOK
  <1> QED
    BY <1>6, <1>8, <1>12, <1>13, <1>14, <1>16, <1>17, <1>18 DEF DraftInv

-----------------------------------------------------------------------------
(* The last stage's step with rows: n is the step, due how many entries it  *)
(* applies, new the entry it may add and y what its rows hold then.         *)
Forward(n, due, new, y) ==
    /\ n = At(LastRank) /\ due = Due(GenAfter(LastRank), qstep + 1, Now(LastRank).rows)
    /\ new = [step |-> qstep + 1, of |-> n, gen |-> GenAfter(LastRank),
              keep |-> Now(LastRank).sampled]
    /\ y = Applied(Fresh(LastRank, drafts[LastRank]), due, GenAfter(LastRank))

LEMMA ForwardFrame ==
    ASSUME TypeOK, SchedOK, RemoteOK, ForwardLast, NEW n, NEW due, NEW new, NEW y,
           Forward(n, due, new, y)
    PROVE  /\ Steps(LastRank) /\ Issues(LastRank) /\ HasStep(LastRank) /\ LastRank \in Stages
           /\ Now(LastRank).rows # {} /\ due \in 0 .. Len(remote)
           /\ UNCHANGED <<ok, live, queue, pending>> /\ qstep' = qstep + 1 /\ read' = y
           /\ \/ /\ Sampled(n) # {}
                 /\ remote' = Append(SubSeq(remote, due + 1, Len(remote)), new)
                 /\ drafts' = [drafts EXCEPT ![LastRank] = y]
              \/ /\ remote' = SubSeq(remote, due + 1, Len(remote))
                 /\ drafts' = [drafts EXCEPT ![LastRank] =
                                  Scatter(y, n, Now(LastRank).rows)]
  <1>1. /\ HasStep(LastRank) /\ LastRank \in Stages /\ Now(LastRank).rows # {}
        /\ UNCHANGED <<setupVars, sched, queue, pending>> /\ qstep' = qstep + 1
        /\ done' = [done EXCEPT ![LastRank] = n] /\ read' = y
        /\ gen' = [gen EXCEPT ![LastRank] = GenAfter(LastRank)]
        /\ stream' = IF Now(LastRank).sampled = {} THEN stream
                     ELSE [stream EXCEPT ![LastRank] = @ \o Collectives(LastRank, n)]
    BY PipeFacts, Zenon DEF ForwardLast, Forward
  <1>2. n = done[LastRank] + 1 /\ Now(LastRank) = sched[n] /\ n = At(LastRank)
    BY <1>1, StepNumber DEF Forward
  <1>3. Steps(LastRank)
    BY <1>1, <1>2 DEF Steps, setupVars
  <1>4. Issues(LastRank)
    BY <1>1, <1>2, <1>3 DEF Issues, Steps, Sampled
  <1>5. due \in 0 .. Len(remote)
    BY DueFacts DEF Forward
  <1>6. \/ /\ RemoteStep(LastRank, n)
           /\ remote' = Append(SubSeq(remote, due + 1, Len(remote)), new)
           /\ drafts' = [drafts EXCEPT ![LastRank] = y]
        \/ /\ remote' = SubSeq(remote, due + 1, Len(remote))
           /\ drafts' = [drafts EXCEPT ![LastRank] = Scatter(y, n, Now(LastRank).rows)]
    BY Zenon DEF ForwardLast, Forward
  <1>7. RemoteStep(LastRank, n) => Sampled(n) # {}
    BY DEF RemoteStep, Sampled
  <1> QED
    BY <1>1, <1>3, <1>4, <1>5, <1>6, <1>7 DEF setupVars

(* What is left in the queue, and the new entry behind it. *)
LEMMA ForwardQueue ==
    ASSUME TypeOK, SchedOK, GenOK, RemoteOK, ForwardLast, NEW n, NEW due, NEW new, NEW y,
           Forward(n, due, new, y)
    PROVE  LET left == Len(remote) - due
           IN  /\ left \in Nat /\ due \in 0 .. Len(remote) /\ Len(remote) \in Nat
               /\ remote' \in Seq(Entry) /\ DOMAIN remote' = 1 .. Len(remote')
               /\ \A i \in 1 .. left : remote'[i] = remote[due + i] /\ due + i \in 1 .. Len(remote)
               /\ \/ /\ Len(remote') = left + 1 /\ remote'[left + 1] = new /\ Sampled(n) # {}
                     /\ drafts' = [drafts EXCEPT ![LastRank] = y]
                  \/ /\ Len(remote') = left
                     /\ drafts' = [drafts EXCEPT ![LastRank] =
                                      Scatter(y, n, Now(LastRank).rows)]
  <1> DEFINE left == Len(remote) - due
             rest == SubSeq(remote, due + 1, Len(remote))
  <1>1. /\ remote \in Seq(Entry) /\ Len(remote) \in Nat /\ due \in 0 .. Len(remote) /\ left \in Nat
    BY ForwardFrame, RemoteType
  <1>2. \A i \in 1 .. left : due + i \in 1 .. Len(remote)
    BY <1>1
  <1>3. /\ rest \in Seq(Entry) /\ Len(rest) = left
        /\ \A i \in 1 .. left : rest[i] = remote[due + i]
    <2>1. due + 1 \in 1 .. Len(remote) + 1 /\ Len(remote) \in 0 .. Len(remote)
      BY <1>1
    <2>2. \A i \in due + 1 .. Len(remote) : remote[i] \in Entry
      BY <1>1, RemoteType
    <2>3. Len(rest) = IF due + 1 <= Len(remote) THEN Len(remote) - (due + 1) + 1 ELSE 0
      BY <1>1, SubSeqProperties
    <2>4. rest \in Seq(Entry) /\ \A i \in 1 .. Len(remote) - (due + 1) + 1 :
              rest[i] = remote[due + 1 + i - 1]
      BY <1>1, SubSeqProperties
    <2>5. Len(rest) = left
      BY <1>1, <2>3
    <2>6. Len(remote) - (due + 1) + 1 = left /\ \A i \in 1 .. left : due + 1 + i - 1 = due + i
      BY <1>1
    <2> HIDE DEF rest, left
    <2> QED
      BY <2>4, <2>5, <2>6
  <1>4. new \in Entry
    <2>1. /\ Steps(LastRank) /\ LastRank \in Stages /\ HasStep(LastRank)
      BY ForwardFrame
    <2>2. GenAfter(LastRank) \in [Slots -> 0 .. MaxEvents]
      <3>1. gen'[LastRank] = GenAfter(LastRank) /\ gen' \in [Stages -> [Slots -> 0 .. MaxEvents]]
        BY <2>1, StepGen, StepFacts
      <3> QED
        BY <2>1, <3>1
    <2>3. n \in 1 .. MaxSteps /\ n = done[LastRank] + 1 /\ n \in 1 .. Len(sched) /\ Now(LastRank) = sched[n]
      BY <2>1, StepNumber DEF Forward
    <2>4. qstep + 1 \in 1 .. MaxSteps
      <3>1. qstep \in Nat /\ qstep <= done[LastRank] /\ done[LastRank] \in Nat /\ MaxSteps \in Nat
        BY <2>1, NumberTypes DEF SchedOK
      <3> QED
        BY <2>3, <3>1
    <2>5. Now(LastRank).sampled \subseteq Slots
      BY <2>3, SchedType DEF Sampled
    <2> QED
      BY <2>2, <2>3, <2>4, <2>5 DEF Forward, Entry
  <1> HIDE DEF rest, left
  <1>5. /\ Append(rest, new) \in Seq(Entry) /\ Len(Append(rest, new)) = left + 1
        /\ Append(rest, new)[left + 1] = new
        /\ \A i \in 1 .. left : Append(rest, new)[i] = remote[due + i]
    BY <1>3, <1>4, AppendProperties
  <1>6. \/ /\ Sampled(n) # {} /\ remote' = Append(rest, new)
           /\ drafts' = [drafts EXCEPT ![LastRank] = y]
        \/ /\ remote' = rest
           /\ drafts' = [drafts EXCEPT ![LastRank] = Scatter(y, n, Now(LastRank).rows)]
    BY ForwardFrame DEF rest
  <1>7. remote' \in Seq(Entry)
    BY <1>3, <1>5, <1>6
  <1>8. DOMAIN remote' = 1 .. Len(remote')
    BY <1>7, LenProperties
  <1>9. \A i \in 1 .. left : remote'[i] = remote[due + i]
    BY <1>3, <1>5, <1>6
  <1>10. \/ /\ Len(remote') = left + 1 /\ remote'[left + 1] = new /\ Sampled(n) # {}
            /\ drafts' = [drafts EXCEPT ![LastRank] = y]
         \/ /\ Len(remote') = left
            /\ drafts' = [drafts EXCEPT ![LastRank] = Scatter(y, n, Now(LastRank).rows)]
    BY <1>3, <1>5, <1>6
  <1> QED
    BY <1>1, <1>2, <1>7, <1>8, <1>9, <1>10 DEF left

LEMMA ForwardNumbers ==
    ASSUME TypeOK, SchedOK, RemoteOK, ForwardLast, NEW n, NEW due, NEW new, NEW y,
           Forward(n, due, new, y)
    PROVE  /\ n \in Nat /\ n = done[LastRank] + 1 /\ done[LastRank] \in Nat
           /\ n \in 1 .. Len(sched) /\ n \in 1 .. MaxSteps /\ Now(LastRank) = sched[n]
           /\ done'[LastRank] = n /\ Sampled(n) \subseteq sched[n].rows
           /\ sched[n].rows \subseteq Slots
           /\ qstep \in Nat /\ qstep + 1 <= n /\ PP \in Nat /\ PP >= 2 /\ MaxAge = PP + 1
           /\ new.step = qstep + 1 /\ new.of = n /\ new.gen = GenAfter(LastRank)
           /\ new.keep = Sampled(n)
           /\ PP' = PP /\ LastRank' = LastRank /\ Stages' = Stages /\ MaxAge' = MaxAge
           /\ sched' = sched /\ \A k : Sampled(k)' = Sampled(k)
           /\ \A r, d, k : Held(r, d, k)' <=> Held(r, d, k)
           /\ \A r \in Slots, d \in Nat : d <= done[LastRank] =>
                (Held(r, d, n) <=> Held(r, d, done[LastRank]) /\ r \notin Now(LastRank).free)
           /\ \A r : Held(r, n, n)
  <1>1. /\ Steps(LastRank) /\ HasStep(LastRank) /\ LastRank \in Stages
    BY ForwardFrame
  <1>2. n = At(LastRank)
    BY DEF Forward
  <1>3. /\ n \in Nat /\ n = done[LastRank] + 1 /\ done[LastRank] \in Nat
        /\ n \in 1 .. Len(sched) /\ n \in 1 .. MaxSteps /\ Now(LastRank) = sched[n]
        /\ done'[LastRank] = n
        /\ PP' = PP /\ LastRank' = LastRank /\ Stages' = Stages /\ MaxAge' = MaxAge
        /\ sched' = sched /\ \A k : Sampled(k)' = Sampled(k)
        /\ \A r, d, k : Held(r, d, k)' <=> Held(r, d, k)
    BY <1>1, <1>2, StepFacts, StepNumber
  <1>4. Sampled(n) \subseteq sched[n].rows /\ sched[n].rows \subseteq Slots
    BY <1>3, SchedType DEF SchedOK
  <1>5. qstep \in Nat /\ qstep + 1 <= n
    <2>1. qstep \in Nat /\ qstep <= done[LastRank]
      BY NumberTypes DEF SchedOK
    <2> QED
      BY <1>3, <2>1
  <1>6. /\ new.step = qstep + 1 /\ new.of = n /\ new.gen = GenAfter(LastRank) /\ new.keep = Sampled(n)
    BY <1>3 DEF Forward, Sampled
  <1>7. \A r \in Slots, d \in Nat : d <= done[LastRank] =>
           (Held(r, d, n) <=> Held(r, d, done[LastRank]) /\ r \notin Now(LastRank).free)
    BY <1>3, HeldStep
  <1>8. \A r : Held(r, n, n)
    BY <1>3 DEF Held
  <1> QED
    BY <1>3, <1>4, <1>5, <1>6, <1>7, <1>8, PipeFacts, MaxAgeIs

(* The queue stays in order, and an entry that is left is young.            *)
LEMMA ForwardRemote ==
    ASSUME TypeOK, SchedOK, GenOK, RemoteOK, ForwardLast, NEW n, NEW due, NEW new, NEW y,
           Forward(n, due, new, y)
    PROVE  RemoteOK'
  <1> DEFINE left == Len(remote) - due
  <1>1. /\ left \in Nat /\ due \in 0 .. Len(remote) /\ Len(remote) \in Nat
        /\ DOMAIN remote' = 1 .. Len(remote')
        /\ \A i \in 1 .. left : remote'[i] = remote[due + i] /\ due + i \in 1 .. Len(remote)
        /\ \/ Len(remote') = left + 1 /\ remote'[left + 1] = new /\ Sampled(n) # {}
           \/ Len(remote') = left
    BY ForwardQueue
  <1>2. /\ n \in Nat /\ n = done[LastRank] + 1 /\ done[LastRank] \in Nat /\ done'[LastRank] = n
        /\ qstep \in Nat /\ PP \in Nat /\ PP >= 2 /\ MaxAge = PP + 1
        /\ new.step = qstep + 1 /\ new.of = n /\ new.gen = GenAfter(LastRank)
        /\ new.keep = Sampled(n) /\ Now(LastRank) = sched[n]
        /\ PP' = PP /\ LastRank' = LastRank /\ MaxAge' = MaxAge
        /\ sched' = sched /\ \A k : Sampled(k)' = Sampled(k)
    BY ForwardNumbers
  <1>3. /\ Steps(LastRank) /\ LastRank \in Stages /\ Now(LastRank).rows # {}
        /\ qstep' = qstep + 1
    BY ForwardFrame
  <1>4. left = Len(remote) - due
    OBVIOUS
  <1>9. Len(remote') \in Nat /\ left \in Nat /\ \A j \in 1 .. left : j \in Nat
    <2> HIDE DEF left
    <2>1. left \in Nat
      BY <1>1
    <2>2. Len(remote') = left + 1 \/ Len(remote') = left
      BY <1>1
    <2> QED
      BY <2>1, <2>2
  <1> HIDE DEF left
  <1>8. PICK q : q = qstep + 1 /\ q = qstep'
    BY <1>3
  <1> SUFFICES ASSUME NEW i \in 1 .. Len(remote'), NEW e, e = remote'[i]
               PROVE  /\ e.of <= n /\ e.keep = Sampled(e.of) /\ e.keep # {}
                      /\ \A r \in Slots : Since(e.gen, LastRank, r, e.of)'
                      /\ \A j \in 1 .. Len(remote') : i < j => e.of < remote'[j].of
                      /\ q - MaxAge < e.step /\ e.step <= q - (Len(remote') - i)
                      /\ q - e.step <= n - e.of
                      /\ \/ q - e.step < PP
                         \/ \E k \in e.of + PP .. n : sched[k].rows # {}
    BY <1>1, <1>2, <1>8 DEF RemoteOK
  <1>5. PICK L, g, of : L = LastRank /\ g = e.gen /\ of = e.of
    OBVIOUS
  <1>6. CASE i \in 1 .. left
    <2> DEFINE o == due + i
    <2>1. o \in 1 .. Len(remote) /\ e = remote[o] /\ ~(o <= due)
      BY <1>1, <1>6
    <2> HIDE DEF o
    <2>2. /\ of \in Nat /\ of <= done[LastRank]
          /\ \A r \in Slots : g[r] \in Nat /\ Since(g, L, r, of)
          /\ \A j \in 1 .. Len(remote) : o < j => of < remote[j].of
      BY <1>5, <2>1, RemoteEntry
    <2>3. /\ e.keep = Sampled(of) /\ e.keep # {}
          /\ e.step <= qstep - (Len(remote) - o)
          /\ qstep - e.step <= done[LastRank] - of
          /\ \/ qstep - e.step < PP
             \/ \E k \in of + PP .. done[LastRank] : sched[k].rows # {}
          /\ e.step \in Nat
      BY <1>5, <2>1, RemoteType DEF RemoteOK
    <2>4. \A r \in Slots : Since(g, L, r, of)'
      BY <1>3, <1>5, <2>2, StepSince
    <2>5. \A r \in Slots : Since(e.gen, LastRank, r, e.of)'
      BY <1>2, <1>5, <2>4
    <2>6. qstep + 1 - MaxAge < e.step
      <3>1. ~TooOld(remote[o], qstep + 1)
        BY <2>1, DueFacts DEF Forward
      <3>2. MaxAge \in Int
        BY <1>2
      <3>3. ~(e.step <= qstep + 1 - MaxAge)
        BY <1>2, <2>1, <2>3, <3>1, <3>2 DEF TooOld
      <3> QED
        BY <1>2, <2>3, <3>2, <3>3
    <2>7. e.step <= qstep + 1 - (Len(remote') - i)
      <3>1. Len(remote) - o = left - i /\ (Len(remote') = left + 1 \/ Len(remote') = left)
            /\ i \in Nat
        BY <1>1, <1>4, <1>6 DEF o
      <3>2. /\ e.step \in Nat /\ qstep \in Nat /\ left \in Nat
            /\ e.step <= qstep - (left - i)
        BY <1>1, <1>2, <2>3, <3>1
      <3> QED
        BY <3>1, <3>2
    <2>8. ASSUME NEW j \in 1 .. Len(remote'), i < j
          PROVE  of < remote'[j].of
      <3>1. CASE j \in 1 .. left
        <4>1. remote'[j] = remote[due + j] /\ due + j \in 1 .. Len(remote)
          BY <1>1, <3>1
        <4>2. o < due + j
          <5>1. i \in Nat /\ j \in Nat /\ due \in Nat
            <6>1. i \in Nat /\ j \in Nat
              BY <1>6, <1>9, <3>1
            <6>2. due \in 0 .. Len(remote) /\ Len(remote) \in Nat
              BY <1>1
            <6> QED
              BY <6>1, <6>2
          <5>2. i < j
            BY <2>8
          <5> QED
            BY <5>1, <5>2 DEF o
        <4> QED
          BY <2>2, <4>1, <4>2
      <3>2. CASE j \notin 1 .. left
        <4>1. j = left + 1 /\ remote'[j] = new
          <5>1. left \in Nat
            BY <1>9
          <5>2. \/ Len(remote') = left + 1 /\ remote'[left + 1] = new
                \/ Len(remote') = left
            BY <1>1
          <5> QED
            BY <3>2, <5>1, <5>2
        <4> QED
          BY <1>2, <2>2, <4>1
      <3> QED
        BY <3>1, <3>2
    <2>9. of <= n /\ qstep + 1 - e.step <= n - of
      <3>1. n = done[LastRank] + 1 /\ done[LastRank] \in Nat /\ qstep \in Nat
        BY <1>2
      <3>2. /\ e.step \in Nat /\ of \in Nat /\ of <= done[LastRank]
            /\ qstep - e.step <= done[LastRank] - of
        BY <2>2, <2>3
      <3> QED
        BY <3>1, <3>2
    <2>10. \/ qstep + 1 - e.step < PP
           \/ \E k \in of + PP .. n : sched[k].rows # {}
      <3>1. CASE \E k \in of + PP .. done[LastRank] : sched[k].rows # {}
        <4>1. of + PP .. done[LastRank] \subseteq of + PP .. n
          BY <1>2, <2>2
        <4> QED
          BY <3>1, <4>1
      <3>2. CASE qstep - e.step < PP
        <4>1. CASE qstep + 1 - e.step < PP
          BY <4>1
        <4>2. CASE ~(qstep + 1 - e.step < PP)
          <5>1. PP <= n - of
            <6>1. qstep \in Nat /\ e.step \in Nat /\ n \in Nat /\ of \in Nat /\ PP \in Nat
              BY <1>2, <2>2, <2>3
            <6> QED
              BY <2>9, <4>2, <6>1
          <5>2. n \in of + PP .. n
            BY <1>2, <2>2, <5>1
          <5> QED
            BY <1>2, <1>3, <5>2
        <4> QED
          BY <4>1, <4>2
      <3> QED
        BY <2>3, <3>1, <3>2
    <2>11. q - MaxAge < e.step /\ e.step <= q - (Len(remote') - i)
      <3>1. qstep \in Nat /\ e.step \in Nat /\ MaxAge \in Nat
        BY <1>2, <2>3
      <3>2. Len(remote') \in Nat
        BY <1>9
      <3>3. i \in Nat
        BY <1>6, <1>9
      <3> QED
        BY <1>8, <2>6, <2>7, <3>1, <3>2, <3>3
    <2>12. q - e.step <= n - of /\ (q - e.step < PP \/ \E k \in of + PP .. n : sched[k].rows # {})
      <3>1. qstep \in Nat /\ e.step \in Nat /\ of \in Nat /\ n \in Nat /\ PP \in Nat
        BY <1>2, <2>2, <2>3
      <3>2. q - e.step <= n - of
        BY <1>8, <2>9, <3>1
      <3>3. qstep + 1 - e.step < PP => q - e.step < PP
        BY <1>8, <3>1
      <3> QED
        BY <2>10, <3>2, <3>3
    <2> QED
      BY <1>5, <2>3, <2>5, <2>8, <2>9, <2>11, <2>12
  <1>7. CASE i \notin 1 .. left
    <2>1. i = left + 1 /\ Len(remote') = left + 1 /\ e = new /\ Sampled(n) # {}
      BY <1>1, <1>7
    <2>2. of = n /\ g = GenAfter(LastRank) /\ e.step = qstep + 1 /\ e.keep = Sampled(n)
      BY <1>2, <1>5, <2>1
    <2>3. \A r \in Slots : Since(g, L, r, of)'
      <3>1. of = At(L) /\ g = GenAfter(L) /\ L \in Stages /\ Steps(L)
        BY <1>3, <1>5, <2>2 DEF Forward
      <3> QED
        BY <3>1, StepSnapshot
    <2>4. \A r \in Slots : Since(e.gen, LastRank, r, e.of)'
      BY <1>2, <1>5, <2>3
    <2>5. \A j \in 1 .. Len(remote') : ~(i < j)
      BY <1>1, <2>1
    <2>6. /\ q - MaxAge < e.step /\ e.step <= q - (Len(remote') - i)
          /\ q - e.step <= n - of /\ of <= n /\ q - e.step < PP
      <3>1. /\ q \in Nat /\ e.step = q /\ of = n /\ n \in Nat /\ PP \in Nat /\ PP >= 2
            /\ MaxAge = PP + 1
        BY <1>2, <1>8, <2>2
      <3>2. Len(remote') - i = 0
        BY <1>9, <2>1
      <3> QED
        BY <3>1, <3>2
    <2> QED
      BY <1>5, <2>1, <2>2, <2>4, <2>5, <2>6
  <1> QED
    BY <1>6, <1>7

(* What the forward reads is the newest that was made for its rows: an      *)
(* entry for a row of the batch is due, and nothing newer was sampled.      *)
LEMMA ForwardRead ==
    ASSUME TypeOK, SchedOK, RemoteOK, LastOK, ForwardLast, NEW n, NEW due, NEW new, NEW y,
           Forward(n, due, new, y), NEW r \in Now(LastRank).rows,
           NEW v, v = sched[n].newest[r], v # 0
    PROVE  y[r] = v
  <1>1. /\ n \in Nat /\ n = done[LastRank] + 1 /\ done[LastRank] \in Nat /\ n \in 1 .. Len(sched)
        /\ Now(LastRank) = sched[n] /\ sched[n].rows \subseteq Slots
        /\ \A r_1 \in Slots, d \in Nat : d <= done[LastRank] =>
             (Held(r_1, d, n) <=> Held(r_1, d, done[LastRank]) /\ r_1 \notin Now(LastRank).free)
    BY ForwardNumbers
  <1>2. r \in Slots /\ HasStep(LastRank) /\ due \in 0 .. Len(remote) /\ n = At(LastRank)
    BY <1>1, ForwardFrame DEF Forward
  <1>3. /\ NewestOK(n) /\ v \in Nat
        /\ \A k \in 1 .. Len(sched) : NewestOK(k) /\ sched[k].newest[r] \in Nat
    BY <1>1, <1>2, SchedType, NumberTypes DEF SchedOK
  <1>4. /\ v < n /\ r \in Sampled(v) /\ Held(r, v, n)
        /\ \A d \in 1 .. n - 1 : r \in Sampled(d) /\ Held(r, d, n) => d <= v
    BY <1>2, <1>3 DEF NewestOK
  <1>5. v \in 1 .. done[LastRank] /\ v \in 1 .. n - 1 /\ Held(r, v, done[LastRank])
        /\ r \notin Now(LastRank).free
    BY <1>1, <1>2, <1>3, <1>4
  <1> DEFINE x == drafts[LastRank][r]
             z == y[r]
  <1>6. /\ z \in Nat /\ x \in Nat /\ x <= z
        /\ \/ z = x
           \/ \E m \in 1 .. due : /\ z = remote[m].of /\ r \in remote[m].keep
                                  /\ Held(r, remote[m].of, n)
        /\ \A i \in 1 .. due :
             r \in remote[i].keep /\ Held(r, remote[i].of, n) => remote[i].of <= z
    BY <1>2, <1>5, AppliedFacts DEF Forward
  <1>7. /\ x # 0 => /\ x <= done[LastRank] /\ r \in sched[x].rows
                    /\ Held(r, x, done[LastRank])
        /\ v <= x \/ \E i \in DOMAIN remote : v <= remote[i].of /\ r \in remote[i].keep
    BY <1>2, <1>4, <1>5 DEF LastOK
  <1> HIDE DEF x, z
  (* an entry is not newer than the newest *)
  <1>8. ASSUME NEW i \in 1 .. Len(remote), r \in remote[i].keep, Held(r, remote[i].of, n)
        PROVE  remote[i].of <= v
    <2>1. remote[i].of \in 1 .. n - 1 /\ r \in Sampled(remote[i].of)
      BY <1>1, <1>8, RemoteEntry
    <2> QED
      BY <1>4, <1>8, <2>1
  (* nor are the stored drafts *)
  <1>9. x <= v
    <2> SUFFICES ASSUME ~(x <= v) PROVE FALSE
      OBVIOUS
    <2>1. x # 0 /\ x \in 1 .. n - 1 /\ x \in 1 .. Len(sched) /\ v < x
      BY <1>1, <1>3, <1>6, <1>7
    <2>2. r \in sched[x].rows /\ Held(r, x, done[LastRank])
      BY <1>7, <2>1
    <2>3. Held(r, x, n)
      BY <1>1, <1>2, <1>5, <1>6, <1>7, <2>1, <2>2
    <2>4. Held(r, v, x)
      BY <1>1, <1>3, <1>4, <1>6, <2>1, HeldPart
    <2>5. v \in 1 .. x - 1
      BY <1>3, <1>5, <1>6, <2>1
    <2>6. v <= sched[x].newest[r]
      BY <1>2, <1>3, <1>4, <2>1, <2>4, <2>5 DEF NewestOK
    <2>7. sched[x].newest[r] # 0
      <3>1. sched[x].newest[r] \in Nat
        BY <1>3, <2>1
      <3> QED
        BY <1>5, <2>6, <3>1
    <2>8. r \in Sampled(x)
      BY <1>2, <1>3, <2>1, <2>2, <2>7 DEF NewestOK
    <2> QED
      BY <1>4, <2>1, <2>3, <2>8
  <1>10. z <= v
    <2>1. CASE z = x
      BY <1>9, <2>1
    <2>2. CASE \E m \in 1 .. due : /\ z = remote[m].of /\ r \in remote[m].keep
                                   /\ Held(r, remote[m].of, n)
      <3>1. \A m \in 1 .. due : m \in 1 .. Len(remote)
        BY <1>2, RemoteType
      <3> QED
        BY <1>8, <2>2, <3>1
    <2> QED
      BY <1>6, <2>1, <2>2
  <1>11. v <= z
    <2>1. CASE v <= x
      BY <1>3, <1>6, <2>1
    <2>2. CASE \E i \in DOMAIN remote : v <= remote[i].of /\ r \in remote[i].keep
      <3>1. PICK i \in 1 .. Len(remote) : v <= remote[i].of /\ r \in remote[i].keep
        BY <2>2, RemoteType
      <3>2. remote[i].of \in Nat /\ remote[i].of <= done[LastRank]
        BY RemoteEntry
      <3>3. Held(r, remote[i].of, n)
        BY <1>1, <1>3, <1>4, <3>1, <3>2, HeldPart
      <3>4. r \in LiveRows(remote[i], GenAfter(LastRank))
        BY <1>2, <3>1, <3>3, LiveFacts
      <3>5. i <= due
        BY <3>4, DueFacts DEF Forward
      <3>6. i \in 1 .. due
        BY <1>2, <3>5, RemoteType
      <3>7. remote[i].of <= z
        BY <1>6, <3>1, <3>3, <3>6
      <3> QED
        BY <1>3, <1>6, <3>1, <3>2, <3>7
    <2> QED
      BY <1>7, <2>1, <2>2
  <1>12. z = v
    BY <1>3, <1>6, <1>10, <1>11
  <1> QED
    BY <1>12 DEF z

(* What the rows hold then, and what is still queued for them. *)
LEMMA ForwardLastOK ==
    ASSUME TypeOK, SchedOK, GenOK, RemoteOK, LastOK, ForwardLast,
           NEW n, NEW due, NEW new, NEW y, Forward(n, due, new, y)
    PROVE  LastOK' /\ drafts'[LastRank] \in [Slots -> 0 .. MaxSteps]
           /\ drafts' = [drafts EXCEPT ![LastRank] = drafts'[LastRank]]
           /\ y \in [Slots -> 0 .. MaxSteps]
  <1> DEFINE left == Len(remote) - due
             batch == Now(LastRank).rows
  <1>1. /\ left \in Nat /\ due \in 0 .. Len(remote) /\ Len(remote) \in Nat
        /\ DOMAIN remote' = 1 .. Len(remote')
        /\ \A i \in 1 .. left : remote'[i] = remote[due + i] /\ due + i \in 1 .. Len(remote)
        /\ \/ /\ Len(remote') = left + 1 /\ remote'[left + 1] = new /\ Sampled(n) # {}
              /\ drafts' = [drafts EXCEPT ![LastRank] = y]
           \/ /\ Len(remote') = left
              /\ drafts' = [drafts EXCEPT ![LastRank] = Scatter(y, n, batch)]
    BY ForwardQueue
  <1>2. /\ n \in Nat /\ n = done[LastRank] + 1 /\ done[LastRank] \in Nat /\ n \in 1 .. Len(sched)
        /\ n \in 1 .. MaxSteps
        /\ Now(LastRank) = sched[n] /\ Sampled(n) \subseteq batch /\ done'[LastRank] = n
        /\ new.of = n /\ new.keep = Sampled(n)
        /\ LastRank' = LastRank /\ sched' = sched
        /\ \A k : Sampled(k)' = Sampled(k)
        /\ \A r, d, k : Held(r, d, k)' <=> Held(r, d, k)
        /\ \A r \in Slots, d \in Nat : d <= done[LastRank] =>
             (Held(r, d, n) <=> Held(r, d, done[LastRank]) /\ r \notin Now(LastRank).free)
        /\ \A r : Held(r, n, n)
    BY ForwardNumbers
  <1>3. HasStep(LastRank) /\ LastRank \in Stages /\ n = At(LastRank)
    BY ForwardFrame DEF Forward
  <1>4. drafts \in [Stages -> [Slots -> 0 .. MaxSteps]] /\ MaxSteps \in Nat
    BY NumberTypes DEF TypeOK
  <1>5. y = [r \in Slots |-> y[r]]
    BY DEF Forward, Applied
  <1>6. ASSUME NEW r \in Slots
        PROVE  /\ y[r] \in 0 .. MaxSteps /\ y[r] \in Nat /\ drafts[LastRank][r] \in Nat
               /\ r \in Now(LastRank).free => y[r] = 0
               /\ r \notin Now(LastRank).free =>
                    /\ drafts[LastRank][r] <= y[r]
                    /\ \/ y[r] = drafts[LastRank][r]
                       \/ \E m \in 1 .. due : /\ y[r] = remote[m].of /\ r \in remote[m].keep
                                              /\ Held(r, remote[m].of, n)
               /\ \A i \in 1 .. due :
                    r \in remote[i].keep /\ Held(r, remote[i].of, n) => remote[i].of <= y[r]
    <2>1. PICK z, x : z = y[r] /\ x = drafts[LastRank][r]
      OBVIOUS
    <2>2. z = Applied(Fresh(LastRank, drafts[LastRank]), due, GenAfter(LastRank))[r]
      BY <2>1 DEF Forward
    <2>3. due \in 0 .. Len(remote)
      BY <1>1
    <2>4. /\ z \in 0 .. MaxSteps /\ z \in Nat /\ x \in Nat
          /\ r \in Now(LastRank).free => z = 0
          /\ r \notin Now(LastRank).free =>
               /\ x <= z
               /\ \/ z = x
                  \/ \E m \in 1 .. due : /\ z = remote[m].of /\ r \in remote[m].keep
                                         /\ Held(r, remote[m].of, At(LastRank))
          /\ \A i \in 1 .. due :
               r \in remote[i].keep /\ Held(r, remote[i].of, At(LastRank)) => remote[i].of <= z
      BY <1>3, <2>1, <2>2, <2>3, AppliedFacts
    <2> HIDE DEF left, batch
    <2> QED
      BY <1>3, <2>1, <2>4
  <1>7. y \in [Slots -> 0 .. MaxSteps]
    BY <1>5, <1>6
  <1>8. Scatter(y, n, batch) \in [Slots -> 0 .. MaxSteps]
        /\ \A r \in Slots : Scatter(y, n, batch)[r] = IF r \in batch THEN n ELSE y[r]
    BY <1>2, <1>4, <1>6 DEF Scatter
  <1>9. /\ drafts'[LastRank] \in [Slots -> 0 .. MaxSteps]
        /\ drafts' = [drafts EXCEPT ![LastRank] = drafts'[LastRank]]
    <2>1. \A f : drafts' = [drafts EXCEPT ![LastRank] = f] =>
             drafts'[LastRank] = f /\ drafts' = [drafts EXCEPT ![LastRank] = drafts'[LastRank]]
      BY <1>3, <1>4
    <2> QED
      BY <1>1, <1>7, <1>8, <2>1
  <1>10. \/ /\ Len(remote') = left + 1 /\ remote'[left + 1] = new
            /\ drafts'[LastRank] = y
         \/ /\ Len(remote') = left
            /\ drafts'[LastRank] = Scatter(y, n, batch)
    BY <1>1, <1>3, <1>4
  <1>11. Len(remote') \in Nat
    <2> HIDE DEF left
    <2>1. left \in Nat /\ (Len(remote') = left + 1 \/ Len(remote') = left)
      BY <1>1
    <2> QED
      BY <2>1
  <1>12. ASSUME NEW r \in Slots, NEW w, w = drafts'[LastRank][r]
         PROVE  /\ w # 0 => w <= n /\ r \in sched[w].rows /\ Held(r, w, n)
                /\ \A i \in DOMAIN remote' :
                     r \in remote'[i].keep /\ Held(r, remote'[i].of, n) => w < remote'[i].of
                /\ \A d \in 1 .. n : r \in Sampled(d) /\ Held(r, d, n) =>
                     d <= w \/ \E i \in DOMAIN remote' : d <= remote'[i].of /\ r \in remote'[i].keep
    <2> DEFINE x == drafts[LastRank][r]
               z == y[r]
    <2>1. /\ x # 0 => x <= done[LastRank] /\ r \in sched[x].rows /\ Held(r, x, done[LastRank])
          /\ \A i \in 1 .. Len(remote) :
               r \in remote[i].keep /\ Held(r, remote[i].of, done[LastRank]) => x < remote[i].of
          /\ \A d \in 1 .. done[LastRank] : r \in Sampled(d) /\ Held(r, d, done[LastRank]) =>
               d <= x \/ \E i \in 1 .. Len(remote) : d <= remote[i].of /\ r \in remote[i].keep
      BY RemoteType DEF LastOK
    <2>2. /\ z \in Nat /\ x \in Nat
          /\ r \in Now(LastRank).free => z = 0
          /\ r \notin Now(LastRank).free =>
               /\ x <= z
               /\ \/ z = x
                  \/ \E m \in 1 .. due : /\ z = remote[m].of /\ r \in remote[m].keep
                                         /\ Held(r, remote[m].of, n)
          /\ \A i \in 1 .. due :
               r \in remote[i].keep /\ Held(r, remote[i].of, n) => remote[i].of <= z
      BY <1>6
    <2>3. \/ Len(remote') = left + 1 /\ remote'[left + 1] = new /\ w = z
          \/ Len(remote') = left /\ w = IF r \in batch THEN n ELSE z
      BY <1>8, <1>10, <1>12
    <2>4. \A i \in 1 .. Len(remote) :
             /\ remote[i].of \in Nat /\ remote[i].of >= 1 /\ remote[i].of <= done[LastRank]
             /\ remote[i].keep = Sampled(remote[i].of)
             /\ \A j \in 1 .. Len(remote) : i < j => remote[i].of < remote[j].of
             /\ r \in remote[i].keep /\ Held(r, remote[i].of, n) /\ r \in batch => i <= due
      <3> TAKE i \in 1 .. Len(remote)
      <3>1. /\ remote[i].of \in Nat /\ remote[i].of >= 1 /\ remote[i].of <= done[LastRank]
            /\ remote[i].keep = Sampled(remote[i].of)
            /\ \A j \in 1 .. Len(remote) : i < j => remote[i].of < remote[j].of
        BY RemoteEntry
      <3>2. ASSUME r \in remote[i].keep, Held(r, remote[i].of, n), r \in batch
            PROVE  i <= due
        <4>1. r \in LiveRows(remote[i], GenAfter(LastRank))
          BY <1>3, <3>2, LiveFacts
        <4> QED
          BY <3>2, <4>1, DueFacts DEF Forward
      <3> QED
        BY <3>1, <3>2
    <2>5. \A m \in 1 .. due : m \in 1 .. Len(remote)
      BY <1>1
    <2> HIDE DEF x, z
    <2>6. z # 0 => z <= done[LastRank] /\ r \in sched[z].rows /\ Held(r, z, n)
      <3> SUFFICES ASSUME z # 0 PROVE z <= done[LastRank] /\ r \in sched[z].rows /\ Held(r, z, n)
        OBVIOUS
      <3>1. r \notin Now(LastRank).free
        BY <2>2
      <3>2. CASE z = x
        BY <1>2, <2>1, <2>2, <3>1, <3>2
      <3>3. CASE \E m \in 1 .. due : /\ z = remote[m].of /\ r \in remote[m].keep
                                     /\ Held(r, remote[m].of, n)
        <4>1. PICK m \in 1 .. due : /\ z = remote[m].of /\ r \in remote[m].keep
                                    /\ Held(r, remote[m].of, n)
          BY <3>3
        <4>2. z <= done[LastRank] /\ z >= 1 /\ r \in Sampled(z)
          BY <2>4, <2>5, <4>1
        <4>3. Sampled(z) \subseteq sched[z].rows
          <5>1. z \in 1 .. Len(sched)
            BY <1>2, <2>2, <4>2
          <5> QED
            BY <5>1, SchedType DEF SchedOK
        <4> QED
          BY <4>1, <4>2, <4>3
      <3> QED
        BY <2>2, <3>1, <3>2, <3>3
    <2>7. w # 0 => w <= n /\ r \in sched[w].rows /\ Held(r, w, n)
      <3>1. CASE w = z
        BY <1>2, <2>2, <2>6, <3>1
      <3>2. CASE w = n /\ r \in batch
        BY <1>2, <3>2
      <3> QED
        BY <2>3, <3>1, <3>2
    <2>8. ASSUME NEW i \in 1 .. Len(remote'), r \in remote'[i].keep, Held(r, remote'[i].of, n)
          PROVE  w < remote'[i].of
      <3>1. CASE i \in 1 .. left
        <4> DEFINE j == due + i
        <4>1. j \in 1 .. Len(remote) /\ remote'[i] = remote[j] /\ ~(j <= due)
          BY <1>1, <3>1
        <4> HIDE DEF j
        <4>2. r \notin batch
          BY <2>4, <2>8, <4>1
        <4>3. w = z
          BY <2>3, <4>2
        <4>4. /\ remote[j].of \in Nat /\ remote[j].of <= done[LastRank]
              /\ Held(r, remote[j].of, done[LastRank]) /\ r \notin Now(LastRank).free
          BY <1>2, <2>4, <2>8, <4>1
        <4>5. CASE z = x
          BY <2>1, <2>8, <4>1, <4>3, <4>4, <4>5
        <4>6. CASE \E m \in 1 .. due : z = remote[m].of
          <5>1. PICK m \in 1 .. due : z = remote[m].of
            BY <4>6
          <5>2. m \in 1 .. Len(remote) /\ m < j
            <6>1. m \in Nat /\ m <= due /\ due \in Nat /\ j \in Nat
              BY <1>1, <4>1
            <6> QED
              BY <2>5, <4>1, <6>1
          <5> QED
            BY <2>4, <4>1, <4>3, <5>1, <5>2
        <4> QED
          BY <2>2, <4>4, <4>5, <4>6
      <3>2. CASE i \notin 1 .. left
        <4>1. Len(remote') = left + 1 /\ i = left + 1 /\ w = z /\ remote'[i] = new
          <5> HIDE DEF left
          <5>1. left \in Nat /\ i \in 1 .. Len(remote')
            BY <1>1
          <5> QED
            BY <2>3, <3>2, <5>1
        <4>2. remote'[i].of = n
          BY <1>2, <4>1
        <4> QED
          BY <1>2, <2>2, <2>6, <4>1, <4>2
      <3> QED
        BY <3>1, <3>2
    <2>9. ASSUME NEW d \in 1 .. n, r \in Sampled(d), Held(r, d, n)
          PROVE  d <= w \/ \E i \in 1 .. Len(remote') : d <= remote'[i].of /\ r \in remote'[i].keep
      <3>1. CASE d = n
        <4>1. CASE Len(remote') = left + 1 /\ remote'[left + 1] = new
          <5>1. left + 1 \in 1 .. Len(remote')
            BY <1>1, <4>1
          <5>2. d <= remote'[left + 1].of /\ r \in remote'[left + 1].keep
            BY <1>2, <2>9, <3>1, <4>1
          <5> QED
            BY <5>1, <5>2
        <4>2. CASE w = IF r \in batch THEN n ELSE z
          <5>1. r \in batch
            BY <1>2, <2>9, <3>1
          <5> QED
            BY <1>2, <3>1, <4>2, <5>1
        <4> QED
          BY <2>3, <4>1, <4>2
      <3>2. CASE d # n
        <4>1. d \in 1 .. done[LastRank] /\ d \in Nat /\ d <= done[LastRank]
          BY <1>2, <3>2
        <4>2. Held(r, d, done[LastRank]) /\ r \notin Now(LastRank).free
          BY <1>2, <2>9, <4>1
        <4>3. z <= w
          BY <1>2, <2>2, <2>3, <2>6
        <4>4. d <= x \/ \E i \in 1 .. Len(remote) : d <= remote[i].of /\ r \in remote[i].keep
          BY <2>1, <2>9, <4>1, <4>2
        <4>5. w \in Nat
          BY <1>2, <2>2, <2>3
        <4>6. CASE d <= x
          BY <2>2, <4>1, <4>2, <4>3, <4>5, <4>6
        <4>7. CASE \E i \in 1 .. Len(remote) : d <= remote[i].of /\ r \in remote[i].keep
          <5>1. PICK i \in 1 .. Len(remote) : d <= remote[i].of /\ r \in remote[i].keep
            BY <4>7
          <5>2. remote[i].of \in Nat /\ remote[i].of <= done[LastRank]
            BY <2>4
          <5>3. CASE i <= due
            <6>1. Held(r, remote[i].of, n)
              BY <1>2, <2>9, <4>1, <5>1, <5>2, HeldPart
            <6>2. i \in 1 .. due
              BY <1>1, <5>3
            <6>3. remote[i].of <= z
              BY <2>2, <5>1, <6>1, <6>2
            <6> QED
              BY <2>2, <4>1, <4>3, <4>5, <5>1, <5>2, <6>3
          <5>4. CASE ~(i <= due)
            <6>1. i - due \in 1 .. left /\ due + (i - due) = i
              BY <1>1, <5>4
            <6>2. remote'[i - due] = remote[i]
              BY <1>1, <6>1
            <6>3. i - due \in 1 .. Len(remote')
              BY <1>1, <6>1
            <6> QED
              BY <5>1, <6>2, <6>3
          <5> QED
            BY <5>3, <5>4
        <4> QED
          BY <4>4, <4>6, <4>7
      <3> QED
        BY <3>1, <3>2
    <2> QED
      BY <1>1, <2>7, <2>8, <2>9
  <1>13. LastOK'
    BY <1>2, <1>12 DEF LastOK
  <1> QED
    BY <1>7, <1>9, <1>13


(* The last stage's step with rows keeps the invariant. *)
LEMMA ForwardInv ==
    ASSUME DraftInv, ForwardLast
    PROVE  DraftInv'
  <1> /\ TypeOK /\ SchedOK /\ GenOK /\ QueueOK /\ PendingOK /\ StoredOK
      /\ RemoteOK /\ LastOK /\ ReadOK /\ StreamOK /\ LandedOK
    BY DEF DraftInv
  <1>1. PICK n, due, new, y : Forward(n, due, new, y)
    BY DEF Forward
  <1>2. /\ Steps(LastRank) /\ Issues(LastRank) /\ LastRank \in Stages
        /\ UNCHANGED <<ok, live, queue, pending>> /\ qstep' = qstep + 1 /\ read' = y
        /\ UNCHANGED <<pipe, split, setup, sched>>
    BY <1>1, ForwardFrame DEF Steps
  <1>3. /\ n \in Nat /\ n = done[LastRank] + 1 /\ n \in 1 .. MaxSteps /\ done'[LastRank] = n
        /\ qstep \in Nat /\ qstep + 1 <= n /\ PP \in Nat /\ PP >= 2 /\ MaxAge = PP + 1
        /\ PP' = PP /\ LastRank' = LastRank /\ Stages' = Stages /\ MaxAge' = MaxAge
    BY <1>1, ForwardNumbers
  <1>4. GenOK' /\ gen' \in [Stages -> [Slots -> 0 .. MaxEvents]] /\ done' \in [Stages -> 0 .. MaxSteps]
    BY <1>2, StepGen
  <1>5. qstep' <= done'[LastRank] /\ qstep' \in 0 .. MaxSteps
    BY <1>2, <1>3, NumberTypes
  <1>6. SchedOK'
    BY <1>2, <1>5, StepSched
  <1>7. RemoteOK'
    BY <1>1, ForwardRemote
  <1>8. LastOK' /\ drafts'[LastRank] \in [Slots -> 0 .. MaxSteps]
        /\ drafts' = [drafts EXCEPT ![LastRank] = drafts'[LastRank]]
        /\ y \in [Slots -> 0 .. MaxSteps]
    BY <1>1, ForwardLastOK
  <1>9. stream' \in [Stages -> Seq(Op)]
    BY <1>2, IssueFacts
  <1>10. drafts' \in [Stages -> [Slots -> 0 .. MaxSteps]]
         /\ \A s \in Earlier : drafts'[s] = drafts[s]
    <2>1. drafts \in [Stages -> [Slots -> 0 .. MaxSteps]]
      BY DEF TypeOK
    <2>2. \A f \in [Slots -> 0 .. MaxSteps] : drafts' = [drafts EXCEPT ![LastRank] = f] =>
             /\ drafts' \in [Stages -> [Slots -> 0 .. MaxSteps]]
             /\ \A s \in Earlier : drafts'[s] = drafts[s]
      BY <1>2, <2>1 DEF Earlier
    <2> QED
      BY <1>8, <2>2
  <1>11. remote' \in Seq(Entry) /\ Len(remote') <= MaxAge
    <2>1. /\ remote' \in Seq(Entry) /\ DOMAIN remote' = 1 .. Len(remote')
      BY <1>1, ForwardQueue
    <2>2. Len(remote') \in Nat
      BY <2>1, LenProperties
    <2>3. CASE Len(remote') = 0
      BY <1>3, <2>1, <2>3
    <2>4. CASE Len(remote') # 0
      <3>1. 1 \in DOMAIN remote'
        BY <2>1, <2>2, <2>4
      <3>2. PICK e, q, l : e = remote'[1] /\ q = qstep' /\ l = Len(remote')
        OBVIOUS
      <3>3. q - MaxAge < e.step /\ e.step <= q - (l - 1)
        BY <1>3, <1>7, <3>1, <3>2 DEF RemoteOK
      <3>4. e.step \in Nat
        <4>1. e \in Entry
          BY <2>1, <2>2, <2>4, <3>2, ElementOfSeq
        <4> QED
          BY <4>1, NumberTypes DEF Entry
      <3>5. l <= MaxAge
        <4>1. q \in Nat /\ l \in Nat /\ MaxAge \in Nat
          BY <1>2, <1>3, <2>2, <3>2
        <4> QED
          BY <3>3, <3>4, <4>1
      <3> QED
        BY <2>1, <3>2, <3>5
    <2> QED
      BY <2>3, <2>4
  <1>12. TypeOK'
    BY <1>2, <1>3, <1>4, <1>5, <1>8, <1>9, <1>10, <1>11 DEF TypeOK, Op, Entry
  <1>13. QueueOK' /\ PendingOK' /\ StoredOK' /\ LandedOK'
    BY <1>2, <1>10, LastEarlier
  <1>14. StreamOK'
    BY <1>2, IssueStreams
  <1>15. ReadOK'
    <2>1. \A r \in sched[n].rows : sched[n].newest[r] # 0 => y[r] = sched[n].newest[r]
      <3> SUFFICES ASSUME NEW r \in sched[n].rows, NEW v, v = sched[n].newest[r], v # 0
                   PROVE  y[r] = v
        OBVIOUS
      <3>1. r \in Now(LastRank).rows
        BY <1>1, ForwardNumbers
      <3> QED
        BY <1>1, <3>1, ForwardRead
    <2> QED
      BY <1>2, <1>3, <2>1 DEF ReadOK
  <1> QED
    BY <1>4, <1>6, <1>7, <1>8, <1>12, <1>13, <1>14, <1>15 DEF DraftInv


-----------------------------------------------------------------------------
(* Every step of the system keeps the invariant. *)
LEMMA NextInv ==
    ASSUME DraftInv, [Next]_vars
    PROVE  DraftInv'
  <1>1. CASE Finalize
    BY <1>1, FinalizeStep
  <1>2. CASE Schedule
    BY <1>2, ScheduleStep
  <1>3. CASE LastStep
    BY <1>3, SkipInv, ForwardInv DEF LastStep
  <1>4. CASE Broadcast \/ SendPayload
    BY <1>4, CompleteStep
  <1>5. CASE \E s \in AnyStage : StageStep(s)
    <2>1. PICK s \in AnyStage : StageStep(s)
      BY <1>5
    <2>2. s \in Nat
      BY DraftTailAssumption DEF AnyStage
    <2>3. s \in Earlier
      <3>1. s < LastRank
        BY <2>1, Zenon DEF StageStep
      <3> QED
        BY <2>2, <3>1, PipeFacts DEF DraftInv
    <2> QED
      BY <2>1, <2>3, StageInv
  <1>6. CASE UNCHANGED vars
    <2>1. UNCHANGED <<setupVars, sched, done, hostVars, stream>>
      BY <1>6 DEF vars
    <2>2. /\ UNCHANGED <<pipe, split, setup, ok, live, sched, done, stream, qstep>>
          /\ UNCHANGED hostVars
      BY <2>1 DEF setupVars, hostVars
    <2>3. Stages' = Stages /\ Earlier' = Earlier /\ PP' = PP /\ LastRank' = LastRank /\ MaxAge' = MaxAge
      BY <2>2, PipeStays
    <2>4. TypeOK'
      BY <2>2, <2>3 DEF DraftInv, TypeOK, hostVars, Op
    <2>5. SchedOK'
      BY <2>2, SchedKeeps DEF DraftInv
    <2>6. (GenOK /\ QueueOK /\ PendingOK /\ StoredOK /\ RemoteOK /\ LastOK /\ ReadOK)'
      BY <2>2, HostsKeep DEF DraftInv
    <2>7. StreamOK'
      BY <2>2, <2>3 DEF DraftInv, StreamOK, NoDrafts, Sampled
    <2>8. LandedOK'
      BY <2>2, <2>3 DEF DraftInv, LandedOK, Landed, Held, Sampled, hostVars
    <2> QED
      BY <2>4, <2>5, <2>6, <2>7, <2>8 DEF DraftInv
  <1> QED
    BY <1>1, <1>2, <1>3, <1>4, <1>5, <1>6 DEF Next

(* In every reachable state a generation tells whether its row was freed    *)
(* since, the queues of every stage name the steps whose drafts they hold,  *)
(* and the stages' collectives complete together and in order.              *)
THEOREM InvariantHolds == Spec => []DraftInv
  <1>1. Init => DraftInv
    BY InitInv
  <1>2. DraftInv /\ [Next]_vars => DraftInv'
    BY NextInv
  <1> QED
    BY <1>1, <1>2, PTL DEF Spec

(* Every variable keeps its type: at most MaxAge steps' drafts wait on the  *)
(* last stage and an earlier stage has one slot for every step in flight.   *)
THEOREM TypeCorrect == Spec => []TypeOK
  <1>1. DraftInv => TypeOK
    BY DEF DraftInv
  <1> QED
    BY <1>1, InvariantHolds, PTL

(* The newest drafts made for the request are what a stage reads. *)
LEMMA InvNewest ==
    ASSUME DraftInv
    PROVE  DraftsAreNewest
  <1> /\ TypeOK /\ SchedOK /\ PendingOK /\ StoredOK /\ ReadOK
    BY DEF DraftInv
  <1> SUFFICES ASSUME NEW s \in Stages, done[s] > 0, NEW r \in sched[done[s]].rows,
                      NEW v, v = sched[done[s]].newest[r], v # 0
               PROVE  Read(s)[r] = v
    BY DEF DraftsAreNewest
  <1>1. CASE s = LastRank
    BY <1>1 DEF ReadOK, Read
  <1>2. CASE s # LastRank
    <2> DEFINE n == done[s]
               x == drafts[s][r]
    <2>1. s \in Earlier /\ Read(s)[r] = x /\ PP \in Nat /\ PP >= 2
      BY <1>2, PipeFacts DEF Earlier, Read
    <2>2. n \in Nat /\ n \in 1 .. Len(sched) /\ MaxSteps \in Nat
      BY NumberTypes, SchedType DEF SchedOK
    <2>3. r \in Slots /\ NewestOK(n) /\ v \in Nat
      <3>1. sched[n].rows \subseteq Slots /\ sched[n].newest \in [Slots -> 0 .. MaxSteps]
        BY <2>2, SchedType
      <3>2. NewestOK(n)
        BY <2>2, SchedType DEF SchedOK
      <3>3. r \in Slots
        BY <3>1
      <3> QED
        BY <2>2, <3>1, <3>2, <3>3
    <2>4. x \in Nat
      BY <2>3, NumberTypes
    <2>5. /\ v < n /\ r \in Sampled(v) /\ Held(r, v, n) /\ v + PP <= n
          /\ \A d \in 1 .. n - 1 : r \in Sampled(d) /\ Held(r, d, n) => d <= v
      BY <2>3 DEF NewestOK
    <2>6. ~(v <= pending[s].step /\ r \in pending[s].keep)
      <3>1. CASE pending[s].step = 0
        BY <2>1, <3>1 DEF PendingOK
      <3>2. CASE pending[s].step # 0
        BY <2>1, <3>2 DEF PendingOK
      <3> QED
        BY <3>1, <3>2
    <2>7. /\ x # 0 => x <= n - PP /\ r \in Sampled(x) /\ Held(r, x, n)
          /\ \A d \in 1 .. n - PP : r \in Sampled(d) /\ Held(r, d, n) =>
               d <= x \/ (d <= pending[s].step /\ r \in pending[s].keep)
      BY <2>1, <2>3 DEF StoredOK
    <2> HIDE DEF n, x
    <2>8. v \in 1 .. n - PP
      BY <2>1, <2>2, <2>3, <2>5
    <2>9. v <= x
      BY <2>5, <2>6, <2>7, <2>8
    <2>10. x \in 1 .. n - 1
      BY <2>1, <2>2, <2>4, <2>7, <2>8, <2>9
    <2>11. x <= v
      BY <2>5, <2>7, <2>10
    <2> QED
      BY <2>1, <2>3, <2>4, <2>9, <2>11
  <1> QED
    BY <1>1, <1>2

(* The draft tail's late scatter and the late scatter of a split event      *)
(* change when drafts are stored, never which a stage reads.                *)
THEOREM NewestDraftsAreRead == Spec => []DraftsAreNewest
  BY InvariantHolds, InvNewest, PTL

(* Rows freed before their drafts land stay as their new request wrote them. *)
LEMMA InvStray ==
    ASSUME DraftInv
    PROVE  NoStrayDrafts
  <1> /\ TypeOK /\ SchedOK /\ StoredOK /\ LastOK
    BY DEF DraftInv
  <1> SUFFICES ASSUME NEW s \in Stages, NEW r \in Slots, NEW x, x = drafts[s][r], x # 0
               PROVE  r \in sched[x].rows /\ Held(r, x, done[s])
    BY DEF NoStrayDrafts, Held
  <1>1. CASE s = LastRank
    BY <1>1 DEF LastOK
  <1>2. CASE s # LastRank
    <2>1. s \in Earlier /\ PP \in Nat /\ done[s] \in Nat /\ x \in Nat
      BY <1>2, PipeFacts, NumberTypes DEF Earlier
    <2>2. x <= done[s] - PP /\ r \in Sampled(x) /\ Held(r, x, done[s])
      BY <2>1 DEF StoredOK
    <2>3. done[s] <= Len(sched) /\ Len(sched) \in Nat
      BY SchedType DEF SchedOK
    <2>4. x \in 1 .. Len(sched)
      BY <2>1, <2>2, <2>3
    <2>5. Sampled(x) \subseteq sched[x].rows
      BY <2>4, SchedType DEF SchedOK
    <2> QED
      BY <2>2, <2>5
  <1> QED
    BY <1>1, <1>2

(* No row ever holds drafts made for a request that has left it. *)
THEOREM NoDraftStrays == Spec => []NoStrayDrafts
  BY InvariantHolds, InvStray, PTL


(* An entry too old to keep was made PP or more forwards ago: stage 0 has    *)
(* since waited for its drafts, and they landed everywhere at once.         *)
LEMMA InvAged ==
    ASSUME DraftInv
    PROVE  AgedHaveLanded
  <1> /\ TypeOK /\ SchedOK /\ RemoteOK /\ StreamOK /\ LandedOK
    BY DEF DraftInv
  <1> SUFFICES ASSUME HasStep(LastRank), NEW e \in ToSet(remote), NEW m, m = At(LastRank),
                      TooOld(e, qstep + 1), LiveRows(e, GenAfter(LastRank)) # {},
                      NEW d, d = e.of
               PROVE  Landed(LastRank, d)
    BY DEF AgedHaveLanded
  <1>1. /\ LastRank \in Stages /\ 0 \in Earlier /\ 0 \in Stages /\ PP \in Nat /\ PP >= 2
        /\ MaxAge = PP + 1
    BY PipeFacts, MaxAgeIs
  <1>2. /\ done[LastRank] \in Nat /\ done[0] \in Nat /\ m = done[LastRank] + 1 /\ qstep \in Nat
        /\ m \in 1 .. Len(sched) /\ Len(sched) \in Nat /\ Len(sched) <= done[0] + 1
    BY <1>1, StepNumber, NumberTypes, SchedType DEF SchedOK
  <1>3. PICK i \in 1 .. Len(remote) : e = remote[i]
    BY RemoteType DEF ToSet
  <1>4. /\ d \in Nat /\ d >= 1 /\ d <= done[LastRank] /\ e.keep = Sampled(d) /\ e.step \in Nat
        /\ e.keep \subseteq Slots
    BY <1>3, RemoteEntry, RemoteType
  (* a row of the entry is still held *)
  <1>5. PICK r \in Sampled(d) : Held(r, d, m)
    <2>1. PICK r \in Slots : r \in LiveRows(remote[i], GenAfter(LastRank))
      BY <1>3, LiveFacts
    <2> QED
      BY <1>3, <1>4, <2>1, LiveFacts
  (* a step that computes has consumed it *)
  <1>6. PICK k \in d + PP .. done[LastRank] : sched[k].rows # {}
    <2>1. e.step <= qstep + 1 - MaxAge
      BY <1>1, <1>2, <1>4 DEF TooOld
    <2>2. ~(qstep - e.step < PP)
      BY <1>1, <1>2, <1>4, <2>1
    <2> QED
      BY <1>3, <2>2, RemoteType DEF RemoteOK
  <1>7. done[LastRank] <= done[0] /\ k \in Nat /\ d + PP <= k /\ k <= done[LastRank]
    BY <1>1, <1>2, <1>4, <1>6
  <1>8. Held(r, d, k)
    BY <1>2, <1>4, <1>5, <1>7, HeldPart
  <1>9. d \in 1 .. done[0] - PP /\ k \in d + PP .. done[0] /\ d \in 1 .. done[0]
        /\ d \in 1 .. done[LastRank]
    BY <1>1, <1>2, <1>4, <1>7
  <1>10. Landed(0, d)
    BY <1>1, <1>5, <1>6, <1>8, <1>9 DEF LandedOK
  <1>11. NoDrafts(0, d)
    BY <1>10 DEF Landed, NoDrafts
  <1>12. NoDrafts(LastRank, d)
    BY <1>1, <1>5, <1>9, <1>11 DEF StreamOK
  <1> QED
    BY <1>1, <1>12 DEF StreamOK, Landed

(* An entry that is applied for its age alone has landed on every stage:    *)
(* the age limit makes no step wait.                                        *)
THEOREM AgedEntriesHaveLanded == Spec => []AgedHaveLanded
  BY InvariantHolds, InvAged, PTL
=============================================================================
