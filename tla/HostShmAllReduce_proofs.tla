----------------------- MODULE HostShmAllReduce_proofs -----------------------
(***************************************************************************)
(* What holds of the host-staged all-reduce for any number of ranks, any   *)
(* mixture of kernels, any number of calls and any timeouts: types         *)
(* (TypeCorrect), right sums and bounded skew as long as the generation    *)
(* counter does not wrap (WrongSumsAreReported, SkewBounded), and under    *)
(* the same condition that it implements AllReduce                         *)
(* (HostShmImplementsAllReduce).  The argument is in HostShmInvariant:     *)
(* flags say who has arrived where (SyncStep), therefore what is read      *)
(* between two barriers is of the current call (SourceFresh, GatherFresh,  *)
(* DataStep).                                                              *)
(***************************************************************************)
EXTENDS HostShmInvariant, TLAPS

(* A generation fits its width and a parity is a bit (gen, gen & 1).        *)
LEMMA GenBelow ==
    ASSUME NEW k \in Nat
    PROVE  Gen(k) \in 0 .. GenMod - 1 /\ Parity(k) \in 0 .. 1
BY HostShmAssumption DEF Gen, Parity

(* Without a wrap the generation of a call is the number of the call.       *)
LEMMA GenIsCall ==
    ASSUME NoWrap, NEW k \in 0 .. MaxCalls
    PROVE  Gen(k) = k
BY HostShmAssumption DEF Gen, NoWrap

(* Without a wrap consecutive calls use different parities.                 *)
LEMMA ParityFlips ==
    ASSUME NoWrap, NEW k \in 0 .. MaxCalls, k + 1 \in 0 .. MaxCalls
    PROVE  Parity(k + 1) # Parity(k)
<1>1. Gen(k) = k /\ Gen(k + 1) = k + 1
  BY GenIsCall, HostShmAssumption
<1> QED
  BY <1>1 DEF Parity

(* The call a running kernel serves is one of the bounded run.              *)
LEMMA CurCall ==
    ASSUME TypeOK, CountsOK, NEW r \in Rank, pc[r] # "idle"
    PROVE  /\ Cur(r) \in 1 .. MaxCalls
           /\ Cur(r) = done[r] + 1
           /\ Parity(Cur(r)) \in 0 .. 1
           /\ Gen(Cur(r)) \in 0 .. GenMod - 1
<1>1. Cur(r) \in 1 .. MaxCalls /\ Cur(r) = done[r] + 1
  BY HostShmAssumption DEF TypeOK, CountsOK, Cur
<1> QED
  BY <1>1, GenBelow, HostShmAssumption

(***************************************************************************)
(* Type correctness, with the two conjuncts it needs to be inductive.      *)
(***************************************************************************)
(* The initial state is well typed.                                         *)
LEMMA TypeInit == Init => TInv
BY HostShmAssumption DEF Init, TInv, TypeOK, CountsOK, PhaseOK, NoSum, Phases, Call

(* Every launch and every kernel step keeps the types.                      *)
LEMMA TypeStep == TInv /\ [Next]_vars => TInv'
<1> SUFFICES ASSUME TypeOK, CountsOK, PhaseOK, [Next]_vars PROVE TInv'
  BY DEF TInv
<1> USE HostShmAssumption
<1>1. ASSUME NEW r \in Rank, Launch(r) PROVE TInv'
  <2>1. TypeOK'
    BY <1>1 DEF Launch, gpuVars, TypeOK, Phases, CountsOK
  <2>2. CountsOK'
    BY <1>1 DEF Launch, gpuVars, TypeOK, Phases, CountsOK
  <2>3. PhaseOK'
    BY <1>1 DEF Launch, gpuVars, TypeOK, Phases, PhaseOK, Algo, Cur, Published, Reduced
  <2> QED
    BY <2>1, <2>2, <2>3 DEF TInv
<1>2. ASSUME NEW r \in Rank, Start(r) PROVE TInv'
  <2>1. TypeOK'
    BY <1>2 DEF Start, hostVars, Published, NoSum, Algo, Cur, TypeOK, Phases, CountsOK
  <2>2. CountsOK'
    BY <1>2 DEF Start, hostVars, TypeOK, Phases, CountsOK
  <2>3. PhaseOK'
    BY <1>2 DEF Start, hostVars, TypeOK, Phases, PhaseOK, Algo, Cur, Published, Reduced
  <2> QED
    BY <2>1, <2>2, <2>3 DEF TInv
<1>3. ASSUME NEW r \in Rank, NEW w \in Rank, PublishWord(r, w) PROVE TInv'
  <2>1. TypeOK'
    <3>1. pc[r] # "idle"
      BY <1>3 DEF PublishWord
    <3>2. /\ Cur(r) \in 0 .. MaxCalls /\ Parity(Cur(r)) \in 0 .. 1
          /\ Gen(Cur(r)) \in 0 .. GenMod - 1 /\ done[r] + 1 \in 0 .. MaxCalls
      BY <3>1, CurCall
    <3>3. scatter' \in [0..1 -> [Rank -> [Rank -> 0 .. MaxCalls]]]
      <4>1. scatter \in [0..1 -> [Rank -> [Rank -> 0 .. MaxCalls]]]
        BY DEF TypeOK
      <4>2. scatter' \in {scatter, [scatter EXCEPT ![Parity(Cur(r))][r][w] = Cur(r)]}
        BY <1>3 DEF PublishWord
      <4> QED
        BY <3>2, <4>1, <4>2
    <3>4. dmaSlot' \in [Rank -> [Rank -> 0 .. MaxCalls]]
      <4>1. dmaSlot \in [Rank -> [Rank -> 0 .. MaxCalls]]
        BY DEF TypeOK
      <4>2. dmaSlot' \in {dmaSlot, [dmaSlot EXCEPT ![r][w] = Cur(r)]}
        BY <1>3 DEF PublishWord
      <4> QED
        BY <3>2, <4>1, <4>2
    <3> QED
      BY <1>3, <3>1, <3>2, <3>3, <3>4 DEF PublishWord, hostVars, TypeOK, Phases
  <2>2. CountsOK'
    BY <1>3 DEF PublishWord, hostVars, TypeOK, Phases, CountsOK
  <2>3. PhaseOK'
    BY <1>3 DEF PublishWord, hostVars, TypeOK, Phases, PhaseOK, Algo, Cur, Published, Reduced
  <2> QED
    BY <2>1, <2>2, <2>3 DEF TInv
<1>4. ASSUME NEW r \in Rank, Release0(r) PROVE TInv'
  <2>1. TypeOK'
    <3>1. pc[r] # "idle"
      BY <1>4 DEF Release0
    <3>2. /\ Cur(r) \in 0 .. MaxCalls /\ Parity(Cur(r)) \in 0 .. 1
          /\ Gen(Cur(r)) \in 0 .. GenMod - 1 /\ done[r] + 1 \in 0 .. MaxCalls
      BY <3>1, CurCall
    <3>3. flag' \in [0..1 -> [0..1 -> [Rank -> 0 .. GenMod - 1]]]
      <4>1. flag \in [0..1 -> [0..1 -> [Rank -> 0 .. GenMod - 1]]]
        BY DEF TypeOK
      <4>2. flag' = [flag EXCEPT ![0][Parity(Cur(r))][r] = Gen(Cur(r))]
        BY <1>4 DEF Release0, Release
      <4> QED
        BY <3>2, <4>1, <4>2
    <3> QED
      BY <1>4, <3>1, <3>2, <3>3 DEF Release0, Release, hostVars, TypeOK, Phases
  <2>2. CountsOK'
    BY <1>4 DEF Release0, Release, hostVars, TypeOK, Phases, CountsOK
  <2>3. PhaseOK'
    BY <1>4 DEF Release0, Release, hostVars, TypeOK, Phases, PhaseOK, Algo, Cur, Published, Reduced
  <2> QED
    BY <2>1, <2>2, <2>3 DEF TInv
<1>5. ASSUME NEW r \in Rank, Release1(r) PROVE TInv'
  <2>1. TypeOK'
    <3>1. pc[r] # "idle"
      BY <1>5 DEF Release1
    <3>2. /\ Cur(r) \in 0 .. MaxCalls /\ Parity(Cur(r)) \in 0 .. 1
          /\ Gen(Cur(r)) \in 0 .. GenMod - 1 /\ done[r] + 1 \in 0 .. MaxCalls
      BY <3>1, CurCall
    <3>3. flag' \in [0..1 -> [0..1 -> [Rank -> 0 .. GenMod - 1]]]
      <4>1. flag \in [0..1 -> [0..1 -> [Rank -> 0 .. GenMod - 1]]]
        BY DEF TypeOK
      <4>2. flag' = [flag EXCEPT ![1][Parity(Cur(r))][r] = Gen(Cur(r))]
        BY <1>5 DEF Release1, Release
      <4> QED
        BY <3>2, <4>1, <4>2
    <3> QED
      BY <1>5, <3>1, <3>2, <3>3 DEF Release1, Release, hostVars, TypeOK, Phases
  <2>2. CountsOK'
    BY <1>5 DEF Release1, Release, hostVars, TypeOK, Phases, CountsOK
  <2>3. PhaseOK'
    BY <1>5 DEF Release1, Release, hostVars, TypeOK, Phases, PhaseOK, Algo, Cur, Published, Reduced
  <2> QED
    BY <2>1, <2>2, <2>3 DEF TInv
<1>6. ASSUME NEW r \in Rank, NEW q \in Rank, SeeFlag(r, q) PROVE TInv'
  <2>1. TypeOK'
    BY <1>6 DEF SeeFlag, hostVars, TypeOK, Phases, CountsOK
  <2>2. CountsOK'
    BY <1>6 DEF SeeFlag, hostVars, TypeOK, Phases, CountsOK
  <2>3. PhaseOK'
    BY <1>6 DEF SeeFlag, hostVars, TypeOK, Phases, PhaseOK, Algo, Cur, Published, Reduced
  <2> QED
    BY <2>1, <2>2, <2>3 DEF TInv
<1>7. ASSUME NEW r \in Rank, TimeOut(r) PROVE TInv'
  <2>1. TypeOK'
    <3>1. pc[r] # "idle"
      BY <1>7 DEF TimeOut
    <3>2. /\ Cur(r) \in 0 .. MaxCalls /\ Parity(Cur(r)) \in 0 .. 1
          /\ Gen(Cur(r)) \in 0 .. GenMod - 1 /\ done[r] + 1 \in 0 .. MaxCalls
      BY <3>1, CurCall
    <3> QED
      BY <1>7, <3>1, <3>2 DEF TimeOut, hostVars, TypeOK, Phases
  <2>2. CountsOK'
    BY <1>7 DEF TimeOut, hostVars, TypeOK, Phases, CountsOK
  <2>3. PhaseOK'
    BY <1>7 DEF TimeOut, hostVars, TypeOK, Phases, PhaseOK, Algo, Cur, Published, Reduced
  <2> QED
    BY <2>1, <2>2, <2>3 DEF TInv
<1>8. ASSUME NEW r \in Rank, Pass(r) PROVE TInv'
  <2>1. TypeOK'
    BY <1>8 DEF Pass, hostVars, Reduced, TypeOK, Phases, CountsOK
  <2>2. CountsOK'
    BY <1>8 DEF Pass, hostVars, TypeOK, Phases, CountsOK
  <2>3. PhaseOK'
    BY <1>8 DEF Pass, hostVars, TypeOK, Phases, PhaseOK, Algo, Cur, Published, Reduced
  <2> QED
    BY <2>1, <2>2, <2>3 DEF TInv
<1>9. ASSUME NEW r \in Rank, NEW w \in Rank, ReduceWord(r, w) PROVE TInv'
  <2>1. TypeOK'
    <3>1. pc[r] # "idle"
      BY <1>9 DEF ReduceWord
    <3>2. /\ Cur(r) \in 0 .. MaxCalls /\ Parity(Cur(r)) \in 0 .. 1
          /\ Gen(Cur(r)) \in 0 .. GenMod - 1 /\ done[r] + 1 \in 0 .. MaxCalls
      BY <3>1, CurCall
    <3>2a. Sum(r, w) \in [Rank -> 0 .. MaxCalls]
      <4>1. ASSUME NEW q \in Rank PROVE Source(r, q, w) \in 0 .. MaxCalls
        <5>1. dmaSlot[q][w] \in 0 .. MaxCalls
          BY DEF TypeOK
        <5>2. scatter[Parity(Cur(r))][q][w] \in 0 .. MaxCalls
          <6>1. scatter \in [0..1 -> [Rank -> [Rank -> 0 .. MaxCalls]]]
            BY DEF TypeOK
          <6>2. scatter[Parity(Cur(r))] \in [Rank -> [Rank -> 0 .. MaxCalls]]
            BY <3>2, <6>1
          <6>3. scatter[Parity(Cur(r))][q] \in [Rank -> 0 .. MaxCalls]
            BY <6>2
          <6> QED
            BY <6>3
        <5> QED
          BY <3>2, <5>1, <5>2 DEF Source
      <4> QED
        BY <4>1 DEF Sum
    <3>3. out' \in [Rank -> [Rank -> [Rank -> 0 .. MaxCalls]]]
      BY <1>9, <3>2, <3>2a DEF ReduceWord, TypeOK
    <3>4. gather' \in [0..1 -> [Rank -> [Rank -> 0 .. MaxCalls]]]
      BY <1>9, <3>2, <3>2a DEF ReduceWord, TypeOK
    <3> QED
      BY <1>9, <3>1, <3>2, <3>3, <3>4 DEF ReduceWord, hostVars, TypeOK, Phases
  <2>2. CountsOK'
    BY <1>9 DEF ReduceWord, hostVars, TypeOK, Phases, CountsOK
  <2>3. PhaseOK'
    BY <1>9 DEF ReduceWord, hostVars, TypeOK, Phases, PhaseOK, Algo, Cur, Published, Reduced
  <2> QED
    BY <2>1, <2>2, <2>3 DEF TInv
<1>10. ASSUME NEW r \in Rank, NEW w \in Rank, GatherWord(r, w) PROVE TInv'
  <2>1. TypeOK'
    <3>1. pc[r] # "idle"
      BY <1>10 DEF GatherWord
    <3>2. /\ Cur(r) \in 0 .. MaxCalls /\ Parity(Cur(r)) \in 0 .. 1
          /\ Gen(Cur(r)) \in 0 .. GenMod - 1 /\ done[r] + 1 \in 0 .. MaxCalls
      BY <3>1, CurCall
    <3>3. out' \in [Rank -> [Rank -> [Rank -> 0 .. MaxCalls]]]
      <4>1. out \in [Rank -> [Rank -> [Rank -> 0 .. MaxCalls]]] /\ gather \in [0..1 -> [Rank -> [Rank -> 0 .. MaxCalls]]]
        BY DEF TypeOK
      <4>2. gather[Parity(Cur(r))][w] \in [Rank -> 0 .. MaxCalls]
        BY <3>2, <4>1
      <4>3. out' = [out EXCEPT ![r][w] = gather[Parity(Cur(r))][w]]
        BY <1>10 DEF GatherWord
      <4> QED
        BY <4>1, <4>2, <4>3
    <3> QED
      BY <1>10, <3>1, <3>2, <3>3 DEF GatherWord, hostVars, TypeOK, Phases
  <2>2. CountsOK'
    BY <1>10 DEF GatherWord, hostVars, TypeOK, Phases, CountsOK
  <2>3. PhaseOK'
    BY <1>10 DEF GatherWord, hostVars, TypeOK, Phases, PhaseOK, Algo, Cur, Published, Reduced
  <2> QED
    BY <2>1, <2>2, <2>3 DEF TInv
<1>11. ASSUME NEW r \in Rank, Finish(r) PROVE TInv'
  <2>1. TypeOK'
    <3>1. pc[r] # "idle"
      BY <1>11 DEF Finish
    <3>2. /\ Cur(r) \in 0 .. MaxCalls /\ Parity(Cur(r)) \in 0 .. 1
          /\ Gen(Cur(r)) \in 0 .. GenMod - 1 /\ done[r] + 1 \in 0 .. MaxCalls
      BY <3>1, CurCall
    <3> QED
      BY <1>11, <3>1, <3>2 DEF Finish, hostVars, TypeOK, Phases
  <2>2. CountsOK'
    BY <1>11 DEF Finish, hostVars, TypeOK, Phases, CountsOK
  <2>3. PhaseOK'
    BY <1>11 DEF Finish, hostVars, TypeOK, Phases, PhaseOK, Algo, Cur, Published, Reduced
  <2> QED
    BY <2>1, <2>2, <2>3 DEF TInv
<1>12. CASE UNCHANGED vars
  BY <1>12 DEF vars, Algo, Cur, TInv, TypeOK, CountsOK, PhaseOK
<1> QED
  BY <1>1, <1>2, <1>3, <1>4, <1>5, <1>6, <1>7, <1>8, <1>9, <1>10, <1>11,
     <1>12 DEF Next, Kernel, Device

(* Every variable keeps to its type: in particular no call beyond the last  *)
(* is ever issued or run and no generation leaves its width.                *)
THEOREM TypeCorrect == Spec => []TypeOK
<1>1. TInv => TypeOK
  BY DEF TInv
<1> QED
  BY TypeInit, TypeStep, <1>1, PTL DEF Spec

(***************************************************************************)
(* The barriers: what a rank that passed one knows about its peers.        *)
(***************************************************************************)
(* Every step without an error keeps what the flags say of the peers.       *)
LEMMA SyncStep ==
    ASSUME NoWrap, TInv, TInv', Sync, err' = {}, [Next]_vars
    PROVE  Sync'
<1> USE HostShmAssumption DEF Cur
<1>a. /\ done \in [Rank -> 0 .. MaxCalls] /\ pc \in [Rank -> Phases]
      /\ todo \in [Rank -> SUBSET Rank]
      /\ flag \in [0..1 -> [0..1 -> [Rank -> 0 .. GenMod - 1]]]
  BY DEF TInv, TypeOK
<1>b. \A r \in Rank : pc[r] # "idle" => Gen(Cur(r)) = done[r] + 1 /\ Parity(Cur(r)) \in 0..1
  BY GenIsCall, CurCall DEF TInv
<1>d. \A b \in 0..1, p \in 0..1, q \in Rank : flag[b][p][q] \in Nat
  <2> SUFFICES ASSUME NEW b \in 0..1, NEW p \in 0..1, NEW q \in Rank
               PROVE  flag[b][p][q] \in Nat
    OBVIOUS
  <2>1. flag[b] \in [0..1 -> [Rank -> 0 .. GenMod - 1]]
    BY <1>a
  <2>2. flag[b][p] \in [Rank -> 0 .. GenMod - 1]
    BY <2>1
  <2> QED
    BY <2>2
<1>c. FlagsOK /\ Barrier0OK /\ Barrier1OK
  BY DEF Sync
<1>1. ASSUME NEW r \in Rank, Launch(r) PROVE Sync'
  <2>1. FlagsOK'
    BY <1>1, <1>a, <1>b, <1>c DEF Launch, gpuVars, Phases, FlagsOK, Barrier0OK, Barrier1OK, Arrived0, Arrived1, TwoBarriers
  <2>2. Barrier0OK'
    BY <1>1, <1>a, <1>b, <1>c DEF Launch, gpuVars, Phases, FlagsOK, Barrier0OK, Barrier1OK, Arrived0, Arrived1, TwoBarriers
  <2>3. Barrier1OK'
    BY <1>1, <1>a, <1>b, <1>c DEF Launch, gpuVars, Phases, FlagsOK, Barrier0OK, Barrier1OK, Arrived0, Arrived1, TwoBarriers
  <2> QED
    BY <2>1, <2>2, <2>3 DEF Sync
<1>2. ASSUME NEW r \in Rank, Start(r) PROVE Sync'
  <2>1. FlagsOK'
    BY <1>2, <1>a, <1>b, <1>c DEF Start, hostVars, Phases, FlagsOK, Barrier0OK, Barrier1OK, Arrived0, Arrived1, TwoBarriers
  <2>2. Barrier0OK'
    BY <1>2, <1>a, <1>b, <1>c DEF Start, hostVars, Phases, FlagsOK, Barrier0OK, Barrier1OK, Arrived0, Arrived1, TwoBarriers
  <2>3. Barrier1OK'
    BY <1>2, <1>a, <1>b, <1>c DEF Start, hostVars, Phases, FlagsOK, Barrier0OK, Barrier1OK, Arrived0, Arrived1, TwoBarriers
  <2> QED
    BY <2>1, <2>2, <2>3 DEF Sync
<1>3. ASSUME NEW r \in Rank, NEW w \in Rank, PublishWord(r, w) PROVE Sync'
  <2>1. FlagsOK'
    BY <1>3, <1>a, <1>b, <1>c DEF PublishWord, hostVars, Phases, FlagsOK, Barrier0OK, Barrier1OK, Arrived0, Arrived1, TwoBarriers
  <2>2. Barrier0OK'
    BY <1>3, <1>a, <1>b, <1>c DEF PublishWord, hostVars, Phases, FlagsOK, Barrier0OK, Barrier1OK, Arrived0, Arrived1, TwoBarriers
  <2>3. Barrier1OK'
    BY <1>3, <1>a, <1>b, <1>c DEF PublishWord, hostVars, Phases, FlagsOK, Barrier0OK, Barrier1OK, Arrived0, Arrived1, TwoBarriers
  <2> QED
    BY <2>1, <2>2, <2>3 DEF Sync
<1>4. ASSUME NEW r \in Rank, Release0(r) PROVE Sync'
  <2>1. FlagsOK'
    <3>1. flag' = [flag EXCEPT ![0][Parity(done[r] + 1)][r] = done[r] + 1]
      BY <1>4, <1>b DEF Release0, Release
    <3>2. /\ done' = done /\ Parity(done[r] + 1) \in 0..1
          /\ \A q \in Rank : Arrived1(q)' = Arrived1(q)
          /\ \A q \in Rank : q # r => Arrived0(q)' = Arrived0(q)
          /\ Arrived0(r)' = done[r] + 1 /\ Arrived0(r) = done[r]
      BY <1>4, <1>a, <1>b DEF Release0, Release, Arrived0, Arrived1
    <3>3. ASSUME NEW q \in Rank, NEW p \in 0..1
          PROVE  flag'[0][p][q] <= Arrived0(q)' /\ flag'[1][p][q] <= Arrived1(q)'
      <4>1. flag[0][p][q] <= Arrived0(q) /\ flag[1][p][q] <= Arrived1(q)
        BY <1>c DEF FlagsOK
      <4>2. done[r] \in Nat /\ flag[0][p][q] \in Nat
        BY <1>a, <1>d
      <4>3. flag'[1][p][q] = flag[1][p][q]
        BY <1>a, <3>1, <3>2
      <4>4. flag'[0][p][q] = IF q = r /\ p = Parity(done[r] + 1) THEN done[r] + 1
                              ELSE flag[0][p][q]
        BY <1>a, <3>1, <3>2
      <4> QED
        BY <3>2, <4>1, <4>2, <4>3, <4>4
    <3> QED
      BY <3>3 DEF FlagsOK
  <2>2. Barrier0OK'
    BY <1>4, <1>a, <1>b, <1>c DEF Release0, Release, hostVars, Phases, FlagsOK, Barrier0OK, Barrier1OK, Arrived0, Arrived1, TwoBarriers
  <2>3. Barrier1OK'
    BY <1>4, <1>a, <1>b, <1>c DEF Release0, Release, hostVars, Phases, FlagsOK, Barrier0OK, Barrier1OK, Arrived0, Arrived1, TwoBarriers
  <2> QED
    BY <2>1, <2>2, <2>3 DEF Sync
<1>5. ASSUME NEW r \in Rank, Release1(r) PROVE Sync'
  <2>1. FlagsOK'
    <3>1. flag' = [flag EXCEPT ![1][Parity(done[r] + 1)][r] = done[r] + 1]
      BY <1>5, <1>b DEF Release1, Release
    <3>2. /\ done' = done /\ Parity(done[r] + 1) \in 0..1
          /\ \A q \in Rank : Arrived0(q)' = Arrived0(q)
          /\ \A q \in Rank : q # r => Arrived1(q)' = Arrived1(q)
          /\ Arrived1(r)' = done[r] + 1 /\ Arrived1(r) = done[r]
      BY <1>5, <1>a, <1>b DEF Release1, Release, Arrived0, Arrived1
    <3>3. ASSUME NEW q \in Rank, NEW p \in 0..1
          PROVE  flag'[0][p][q] <= Arrived0(q)' /\ flag'[1][p][q] <= Arrived1(q)'
      <4>1. flag[0][p][q] <= Arrived0(q) /\ flag[1][p][q] <= Arrived1(q)
        BY <1>c DEF FlagsOK
      <4>2. done[r] \in Nat /\ flag[1][p][q] \in Nat
        BY <1>a, <1>d
      <4>3. flag'[0][p][q] = flag[0][p][q]
        BY <1>a, <3>1, <3>2
      <4>4. flag'[1][p][q] = IF q = r /\ p = Parity(done[r] + 1) THEN done[r] + 1
                              ELSE flag[1][p][q]
        BY <1>a, <3>1, <3>2
      <4> QED
        BY <3>2, <4>1, <4>2, <4>3, <4>4
    <3> QED
      BY <3>3 DEF FlagsOK
  <2>2. Barrier0OK'
    BY <1>5, <1>a, <1>b, <1>c DEF Release1, Release, hostVars, Phases, FlagsOK, Barrier0OK, Barrier1OK, Arrived0, Arrived1, TwoBarriers
  <2>3. Barrier1OK'
    BY <1>5, <1>a, <1>b, <1>c DEF Release1, Release, hostVars, Phases, FlagsOK, Barrier0OK, Barrier1OK, Arrived0, Arrived1, TwoBarriers
  <2> QED
    BY <2>1, <2>2, <2>3 DEF Sync
<1>6. ASSUME NEW r \in Rank, NEW q \in Rank, SeeFlag(r, q) PROVE Sync'
  <2>1. FlagsOK'
    BY <1>6, <1>a, <1>b, <1>c DEF SeeFlag, Barrier, hostVars, Phases, FlagsOK, Barrier0OK, Barrier1OK, Arrived0, Arrived1, TwoBarriers
  <2>2. Barrier0OK'
    BY <1>6, <1>a, <1>b, <1>c DEF SeeFlag, Barrier, hostVars, Phases, FlagsOK, Barrier0OK, Barrier1OK, Arrived0, Arrived1, TwoBarriers
  <2>3. Barrier1OK'
    BY <1>6, <1>a, <1>b, <1>c DEF SeeFlag, Barrier, hostVars, Phases, FlagsOK, Barrier0OK, Barrier1OK, Arrived0, Arrived1, TwoBarriers
  <2> QED
    BY <2>1, <2>2, <2>3 DEF Sync
<1>7. ASSUME NEW r \in Rank, TimeOut(r) PROVE Sync'
  BY <1>7 DEF TimeOut
<1>8. ASSUME NEW r \in Rank, Pass(r) PROVE Sync'
  <2>1. FlagsOK'
    BY <1>8, <1>a, <1>b, <1>c DEF Pass, hostVars, Phases, FlagsOK, Barrier0OK, Barrier1OK, Arrived0, Arrived1, TwoBarriers
  <2>2. Barrier0OK'
    BY <1>8, <1>a, <1>b, <1>c DEF Pass, hostVars, Phases, FlagsOK, Barrier0OK, Barrier1OK, Arrived0, Arrived1, TwoBarriers
  <2>3. Barrier1OK'
    BY <1>8, <1>a, <1>b, <1>c DEF Pass, hostVars, Phases, FlagsOK, Barrier0OK, Barrier1OK, Arrived0, Arrived1, TwoBarriers
  <2> QED
    BY <2>1, <2>2, <2>3 DEF Sync
<1>9. ASSUME NEW r \in Rank, NEW w \in Rank, ReduceWord(r, w) PROVE Sync'
  <2>1. FlagsOK'
    BY <1>9, <1>a, <1>b, <1>c DEF ReduceWord, hostVars, Phases, FlagsOK, Barrier0OK, Barrier1OK, Arrived0, Arrived1, TwoBarriers
  <2>2. Barrier0OK'
    BY <1>9, <1>a, <1>b, <1>c DEF ReduceWord, hostVars, Phases, FlagsOK, Barrier0OK, Barrier1OK, Arrived0, Arrived1, TwoBarriers
  <2>3. Barrier1OK'
    BY <1>9, <1>a, <1>b, <1>c DEF ReduceWord, hostVars, Phases, FlagsOK, Barrier0OK, Barrier1OK, Arrived0, Arrived1, TwoBarriers
  <2> QED
    BY <2>1, <2>2, <2>3 DEF Sync
<1>10. ASSUME NEW r \in Rank, NEW w \in Rank, GatherWord(r, w) PROVE Sync'
  <2>1. FlagsOK'
    BY <1>10, <1>a, <1>b, <1>c DEF GatherWord, hostVars, Phases, FlagsOK, Barrier0OK, Barrier1OK, Arrived0, Arrived1, TwoBarriers
  <2>2. Barrier0OK'
    BY <1>10, <1>a, <1>b, <1>c DEF GatherWord, hostVars, Phases, FlagsOK, Barrier0OK, Barrier1OK, Arrived0, Arrived1, TwoBarriers
  <2>3. Barrier1OK'
    BY <1>10, <1>a, <1>b, <1>c DEF GatherWord, hostVars, Phases, FlagsOK, Barrier0OK, Barrier1OK, Arrived0, Arrived1, TwoBarriers
  <2> QED
    BY <2>1, <2>2, <2>3 DEF Sync
<1>11. ASSUME NEW r \in Rank, Finish(r) PROVE Sync'
  <2>1. FlagsOK'
    <3>1. flag' = flag
      BY <1>11 DEF Finish
    <3>2. \A q \in Rank : /\ Arrived0(q) \in Nat /\ Arrived0(q)' \in Nat
                          /\ Arrived0(q) <= Arrived0(q)'
      BY <1>11, <1>a DEF Finish, Arrived0
    <3>3. \A q \in Rank : /\ Arrived1(q) \in Nat /\ Arrived1(q)' \in Nat
                          /\ Arrived1(q) <= Arrived1(q)'
      BY <1>11, <1>a DEF Finish, Arrived1
    <3> QED
      BY <1>c, <1>d, <3>1, <3>2, <3>3 DEF FlagsOK
  <2>2. Barrier0OK'
    <3>1. \A q \in Rank : done[r] < Arrived0(q)
      BY <1>11, <1>c DEF Finish, Barrier0OK
    <3>2. /\ done' = [done EXCEPT ![r] = done[r] + 1] /\ pc' = [pc EXCEPT ![r] = "idle"]
          /\ todo' = todo /\ \A q \in Rank : Arrived0(q)' = Arrived0(q)
      BY <1>11, <1>a DEF Finish, Arrived0
    <3> QED
      BY <1>a, <1>c, <3>1, <3>2 DEF Barrier0OK, Arrived0
  <2>3. Barrier1OK'
    <3>1. TwoBarriers(done[r] + 1) => \A q \in Rank : done[r] < Arrived1(q)
      BY <1>11, <1>c DEF Finish, Barrier1OK, Algo, TwoBarriers
    <3>2. /\ done' = [done EXCEPT ![r] = done[r] + 1] /\ pc' = [pc EXCEPT ![r] = "idle"]
          /\ todo' = todo /\ plan' = plan
          /\ \A q \in Rank : Arrived1(q)' \in Nat /\ Arrived1(q)' >= Arrived1(q) /\ Arrived1(q) \in Nat
      BY <1>11, <1>a DEF Finish, Arrived1
    <3>3. ASSUME NEW s \in Rank, NEW q \in Rank, NEW k \in 1 .. done'[s],
                 TwoBarriers(k)'
          PROVE  k <= Arrived1(q)'
      <4>1. TwoBarriers(k)
        BY <3>2, <3>3 DEF TwoBarriers
      <4>2. CASE k \in 1 .. done[s]
        BY <1>c, <3>2, <4>1, <4>2 DEF Barrier1OK
      <4>3. CASE k \notin 1 .. done[s]
        <5>1. s = r /\ k = done[r] + 1
          BY <1>a, <3>2, <4>3
        <5> QED
          BY <1>a, <3>1, <3>2, <4>1, <5>1
      <4> QED
        BY <4>2, <4>3
    <3>4. ASSUME NEW s \in Rank, NEW q \in Rank
          PROVE  /\ pc'[s] = "bar1" /\ q \notin todo'[s] => done'[s] < Arrived1(q)'
                 /\ pc'[s] = "gather" => done'[s] < Arrived1(q)'
      BY <1>a, <1>c, <3>2 DEF Barrier1OK
    <3> QED
      BY <3>3, <3>4 DEF Barrier1OK
  <2> QED
    BY <2>1, <2>2, <2>3 DEF Sync
<1>12. CASE UNCHANGED vars
  BY <1>12 DEF vars, Sync, FlagsOK, Barrier0OK, Barrier1OK, Arrived0, Arrived1, TwoBarriers
<1> QED
  BY <1>1, <1>2, <1>3, <1>4, <1>5, <1>6, <1>7, <1>8, <1>9, <1>10, <1>11,
     <1>12 DEF Next, Kernel, Device

(***************************************************************************)
(* The data: what a rank reads between the barriers is of the call it is   *)
(* in, because the writer cannot yet have come round to the same slot.     *)
(***************************************************************************)
(* What a rank past barrier 0 reads of a peer is of its own call.           *)
LEMMA SourceFresh ==
    ASSUME NoWrap, TInv, Sync, SlotsOK, NEW r \in Rank, NEW q \in Rank,
           NEW w \in Rank, pc[r] = "reduce", w \in Reduced(Algo(r), r)
    PROVE  Source(r, q, w) = Cur(r)
<1>1. CASE q = r
  BY <1>1 DEF Source
<1>2. CASE q # r
  <2>1. done \in [Rank -> 0 .. MaxCalls] /\ pc[q] \in Phases
    BY DEF TInv, TypeOK
  <2>2. done[r] < Arrived0(q) /\ done[q] <= done[r] + 1
    BY DEF Sync, Barrier0OK, Arrived0
  <2>3. w \in Published(Algo(r), q)
    BY <1>2 DEF Reduced, Published
  <2>4. CASE done[q] = done[r]
    <3>1. pc[q] \in {"bar0", "reduce", "bar1", "gather"}
      BY <2>1, <2>2, <2>4 DEF Arrived0, Phases
    <3>2. Cur(q) = Cur(r) /\ Algo(q) = Algo(r)
      BY <2>4 DEF Cur, Algo
    <3>3. SlotWord(Cur(q), q, w) = Cur(q)
      BY <2>3, <3>1, <3>2 DEF SlotsOK
    <3> QED
      BY <1>2, <3>2, <3>3 DEF Source, SlotWord, Algo
  <2>5. CASE done[q] = done[r] + 1
    <3>1. ~TwoBarriers(done[q])
      BY <2>1, <2>5 DEF Sync, Barrier1OK, Arrived1
    <3>2. Algo(r) = plan[done[q]].algo /\ Cur(r) = done[q]
      BY <2>5 DEF Algo, Cur
    <3>3. scatter[Parity(done[q])][q][w] = done[q]
      BY <2>1, <2>3, <2>5, <3>1, <3>2 DEF SlotsOK, TwoBarriers
    <3> QED
      BY <1>2, <3>1, <3>2, <3>3 DEF Source, TwoBarriers
  <2> QED
    BY <2>1, <2>2, <2>4, <2>5 DEF Arrived0
<1> QED
  BY <1>1, <1>2

(* Hence the word it reduces is the exact sum of that call.                 *)
LEMMA SumFresh ==
    ASSUME NoWrap, TInv, Sync, SlotsOK, NEW r \in Rank, NEW w \in Rank,
           pc[r] = "reduce", w \in Reduced(Algo(r), r)
    PROVE  Sum(r, w) = Exact(Cur(r))
BY SourceFresh DEF Sum, Exact

(* What a rank past barrier 1 copies is an exact sum of its own call.       *)
LEMMA GatherFresh ==
    ASSUME NoWrap, TInv, Sync, GatherOK, NEW r \in Rank, NEW w \in Rank,
           pc[r] = "gather"
    PROVE  gather[Parity(Cur(r))][w] = Exact(Cur(r))
<1>1. /\ done \in [Rank -> 0 .. MaxCalls] /\ pc[w] \in Phases
      /\ Algo(r) # "oneshot"
  BY DEF TInv, TypeOK, PhaseOK
<1>2. done[r] < Arrived1(w) /\ done[w] <= done[r] + 1
  BY DEF Sync, Barrier0OK, Barrier1OK, Arrived0
<1>3. CASE done[w] = done[r]
  <2>1. pc[w] \in {"bar1", "gather"} /\ Cur(w) = Cur(r)
    BY <1>1, <1>2, <1>3 DEF Arrived1, Cur
  <2> QED
    BY <2>1 DEF GatherOK
<1>4. CASE done[w] = done[r] + 1
  <2>1. done[w] > 0 /\ TwoBarriers(done[w]) /\ Cur(r) = done[w]
    BY <1>1, <1>4 DEF TwoBarriers, Algo, Cur
  <2> QED
    BY <2>1 DEF GatherOK
<1> QED
  BY <1>1, <1>2, <1>3, <1>4 DEF Arrived1

(* Every step without an error keeps what slots and outputs hold.           *)
LEMMA DataStep ==
    ASSUME NoWrap, TInv, TInv', Sync, Data, err' = {}, [Next]_vars
    PROVE  Data'
<1> USE HostShmAssumption DEF Cur
<1>a. /\ done \in [Rank -> 0 .. MaxCalls] /\ pc \in [Rank -> Phases]
      /\ todo \in [Rank -> SUBSET Rank] /\ status \in [Rank -> {"none", "ok", "aborted"}]
      /\ out \in [Rank -> [Rank -> [Rank -> 0 .. MaxCalls]]]
      /\ scatter \in [0..1 -> [Rank -> [Rank -> 0 .. MaxCalls]]]
      /\ dmaSlot \in [Rank -> [Rank -> 0 .. MaxCalls]]
      /\ gather \in [0..1 -> [Rank -> [Rank -> 0 .. MaxCalls]]]
  BY DEF TInv, TypeOK
<1>b. \A r \in Rank : done[r] > 0 => Parity(done[r]) \in 0..1
  BY <1>a, GenBelow
<1>c. \A r \in Rank : pc[r] # "idle" =>
        Parity(done[r] + 1) \in 0..1 /\ Parity(done[r] + 1) # Parity(done[r])
  BY <1>a, ParityFlips, CurCall DEF TInv
<1>d. SlotsOK /\ GatherOK /\ OutOK /\ PhaseOK
  BY DEF Data, TInv
<1>1. ASSUME NEW r \in Rank, Launch(r) PROVE Data'
  <2>1. SlotsOK'
    BY <1>1, <1>a, <1>b, <1>c, <1>d DEF Launch, gpuVars, Phases, PhaseOK, SlotsOK, SlotWord, Algo, Published
  <2>2. GatherOK'
    BY <1>1, <1>a, <1>b, <1>c, <1>d DEF Launch, gpuVars, Phases, PhaseOK, GatherOK, TwoBarriers, Algo
  <2>3. OutOK'
    BY <1>1, <1>a, <1>b, <1>c, <1>d DEF Launch, gpuVars, Phases, PhaseOK, OutOK, Algo, Reduced
  <2> QED
    BY <2>1, <2>2, <2>3 DEF Data
<1>2. ASSUME NEW r \in Rank, Start(r) PROVE Data'
  <2>1. SlotsOK'
    BY <1>2, <1>a, <1>b, <1>c, <1>d DEF Start, hostVars, Phases, PhaseOK, SlotsOK, SlotWord, Algo, Published
  <2>2. GatherOK'
    BY <1>2, <1>a, <1>b, <1>c, <1>d DEF Start, hostVars, Phases, PhaseOK, GatherOK, TwoBarriers, Algo
  <2>3. OutOK'
    BY <1>2, <1>a, <1>b, <1>c, <1>d DEF Start, hostVars, Phases, PhaseOK, OutOK, Algo, Reduced
  <2> QED
    BY <2>1, <2>2, <2>3 DEF Data
<1>3. ASSUME NEW r \in Rank, NEW w \in Rank, PublishWord(r, w) PROVE Data'
  <2>1. SlotsOK'
    <3>1. /\ pc[r] = "publish" /\ w \in todo[r] /\ w \in Published(Algo(r), r)
          /\ UNCHANGED <<plan, done, pc>> /\ todo' = [todo EXCEPT ![r] = todo[r] \ {w}]
      BY <1>3, <1>d DEF PublishWord, hostVars, PhaseOK
    <3>2. \A q, v \in Rank : \A p \in 0..1 :
            ~(Algo(r) # "dma" /\ q = r /\ v = w /\ p = Parity(done[r] + 1))
              => scatter'[p][q][v] = scatter[p][q][v]
      <4>1. CASE Algo(r) = "dma"
        BY <1>3, <4>1 DEF PublishWord
      <4>2. CASE Algo(r) # "dma"
        <5>1. scatter' = [scatter EXCEPT ![Parity(done[r] + 1)][r][w] = done[r] + 1]
          BY <1>3, <4>2 DEF PublishWord
        <5>2. Parity(done[r] + 1) \in 0..1
          BY <1>c, <3>1
        <5> QED
          BY <1>a, <4>2, <5>1, <5>2
      <4> QED
        BY <4>1, <4>2
    <3>3. \A q, v \in Rank :
            ~(Algo(r) = "dma" /\ q = r /\ v = w) => dmaSlot'[q][v] = dmaSlot[q][v]
      BY <1>3, <1>a DEF PublishWord
    <3>4. SlotWord(done[r] + 1, r, w)' = done[r] + 1
      <4>1. CASE Algo(r) = "dma"
        <5>1. dmaSlot' = [dmaSlot EXCEPT ![r][w] = done[r] + 1]
          BY <1>3, <4>1 DEF PublishWord
        <5>2. dmaSlot'[r][w] = done[r] + 1
          BY <1>a, <5>1
        <5> QED
          BY <3>1, <4>1, <5>2 DEF SlotWord, Algo
      <4>2. CASE Algo(r) # "dma"
        <5>1. scatter' = [scatter EXCEPT ![Parity(done[r] + 1)][r][w] = done[r] + 1]
          BY <1>3, <4>2 DEF PublishWord
        <5>2. scatter'[Parity(done[r] + 1)][r][w] = done[r] + 1
          <6>1. Parity(done[r] + 1) \in 0..1
            BY <1>c, <3>1
          <6>2. scatter[Parity(done[r] + 1)] \in [Rank -> [Rank -> 0 .. MaxCalls]]
            BY <1>a, <6>1
          <6> QED
            BY <1>a, <5>1, <6>1, <6>2
        <5> QED
          BY <3>1, <4>2, <5>2 DEF SlotWord, Algo
      <4> QED
        BY <4>1, <4>2
    <3>5. \A q, v \in Rank : pc[q] # "idle" /\ ~(q = r /\ v = w) =>
            SlotWord(done[q] + 1, q, v)' = SlotWord(done[q] + 1, q, v)
      BY <1>c, <3>1, <3>2, <3>3 DEF SlotWord, Algo
    <3>6. \A q, v \in Rank : done[q] > 0 =>
            scatter'[Parity(done[q])][q][v] = scatter[Parity(done[q])][q][v]
      BY <1>b, <1>c, <3>1, <3>2
    <3>7. \A q \in Rank : todo'[q] = IF q = r THEN todo[q] \ {w} ELSE todo[q]
      BY <1>a, <3>1
    <3>8. \A q \in Rank : Algo(q)' = Algo(q)
      BY <3>1 DEF Algo
    <3> QED
      BY <1>d, <3>1, <3>4, <3>5, <3>6, <3>7, <3>8 DEF SlotsOK
  <2>2. GatherOK'
    BY <1>3, <1>a, <1>b, <1>c, <1>d DEF PublishWord, hostVars, Phases, PhaseOK, GatherOK, TwoBarriers, Algo
  <2>3. OutOK'
    BY <1>3, <1>a, <1>b, <1>c, <1>d DEF PublishWord, hostVars, Phases, PhaseOK, OutOK, Algo, Reduced
  <2> QED
    BY <2>1, <2>2, <2>3 DEF Data
<1>4. ASSUME NEW r \in Rank, Release0(r) PROVE Data'
  <2>1. SlotsOK'
    BY <1>4, <1>a, <1>b, <1>c, <1>d DEF Release0, Release, hostVars, Phases, PhaseOK, SlotsOK, SlotWord, Algo, Published
  <2>2. GatherOK'
    BY <1>4, <1>a, <1>b, <1>c, <1>d DEF Release0, Release, hostVars, Phases, PhaseOK, GatherOK, TwoBarriers, Algo
  <2>3. OutOK'
    BY <1>4, <1>a, <1>b, <1>c, <1>d DEF Release0, Release, hostVars, Phases, PhaseOK, OutOK, Algo, Reduced
  <2> QED
    BY <2>1, <2>2, <2>3 DEF Data
<1>5. ASSUME NEW r \in Rank, Release1(r) PROVE Data'
  <2>1. SlotsOK'
    BY <1>5, <1>a, <1>b, <1>c, <1>d DEF Release1, Release, hostVars, Phases, PhaseOK, SlotsOK, SlotWord, Algo, Published
  <2>2. GatherOK'
    BY <1>5, <1>a, <1>b, <1>c, <1>d DEF Release1, Release, hostVars, Phases, PhaseOK, GatherOK, TwoBarriers, Algo
  <2>3. OutOK'
    BY <1>5, <1>a, <1>b, <1>c, <1>d DEF Release1, Release, hostVars, Phases, PhaseOK, OutOK, Algo, Reduced
  <2> QED
    BY <2>1, <2>2, <2>3 DEF Data
<1>6. ASSUME NEW r \in Rank, NEW q \in Rank, SeeFlag(r, q) PROVE Data'
  <2>1. SlotsOK'
    BY <1>6, <1>a, <1>b, <1>c, <1>d DEF SeeFlag, Barrier, hostVars, Phases, PhaseOK, SlotsOK, SlotWord, Algo, Published
  <2>2. GatherOK'
    BY <1>6, <1>a, <1>b, <1>c, <1>d DEF SeeFlag, Barrier, hostVars, Phases, PhaseOK, GatherOK, TwoBarriers, Algo
  <2>3. OutOK'
    BY <1>6, <1>a, <1>b, <1>c, <1>d DEF SeeFlag, Barrier, hostVars, Phases, PhaseOK, OutOK, Algo, Reduced
  <2> QED
    BY <2>1, <2>2, <2>3 DEF Data
<1>7. ASSUME NEW r \in Rank, TimeOut(r) PROVE Data'
  BY <1>7 DEF TimeOut
<1>8. ASSUME NEW r \in Rank, Pass(r) PROVE Data'
  <2>1. SlotsOK'
    BY <1>8, <1>a, <1>b, <1>c, <1>d DEF Pass, hostVars, Phases, PhaseOK, SlotsOK, SlotWord, Algo, Published
  <2>2. GatherOK'
    BY <1>8, <1>a, <1>b, <1>c, <1>d DEF Pass, hostVars, Phases, PhaseOK, GatherOK, TwoBarriers, Algo, Reduced
  <2>3. OutOK'
    BY <1>8, <1>a, <1>b, <1>c, <1>d DEF Pass, hostVars, Phases, PhaseOK, OutOK, Algo, Reduced
  <2> QED
    BY <2>1, <2>2, <2>3 DEF Data
<1>9. ASSUME NEW r \in Rank, NEW w \in Rank, ReduceWord(r, w) PROVE Data'
  <2>e. Sum(r, w) = Exact(done[r] + 1)
    BY <1>9, <1>d, SumFresh DEF ReduceWord, PhaseOK
  <2>1. SlotsOK'
    BY <1>9, <1>a, <1>b, <1>c, <1>d, SumFresh, GatherFresh DEF ReduceWord, hostVars, Phases, PhaseOK, SlotsOK, SlotWord, Algo, Published
  <2>2. GatherOK'
    <3>1. CASE Algo(r) = "oneshot"
      BY <1>9, <1>a, <1>d, <3>1 DEF ReduceWord, hostVars, GatherOK, TwoBarriers, Algo
    <3>2. CASE Algo(r) # "oneshot"
      <4>1. w = r
        BY <1>9, <1>d, <3>2 DEF ReduceWord, PhaseOK, Reduced
      <4>2. /\ gather' = [gather EXCEPT ![Parity(done[r] + 1)][r] = Exact(done[r] + 1)]
            /\ UNCHANGED <<plan, done, pc>> /\ todo' = [todo EXCEPT ![r] = todo[r] \ {r}]
            /\ pc[r] = "reduce"
        BY <1>9, <2>e, <3>2, <4>1 DEF ReduceWord, hostVars
      <4>3. \A q \in Rank : \A p \in 0..1 :
              gather'[p][q] = IF q = r /\ p = Parity(done[r] + 1)
                                THEN Exact(done[r] + 1) ELSE gather[p][q]
        BY <1>a, <1>c, <4>2
      <4>4. \A q \in Rank : q # r => todo'[q] = todo[q]
        BY <1>a, <4>2
      <4> QED
        BY <1>a, <1>b, <1>c, <1>d, <4>2, <4>3, <4>4 DEF GatherOK, TwoBarriers, Algo
    <3> QED
      BY <3>1, <3>2
  <2>3. OutOK'
    <3>1. /\ out' = [out EXCEPT ![r][w] = Exact(done[r] + 1)] /\ pc[r] = "reduce"
          /\ UNCHANGED <<plan, done, pc, status>> /\ todo' = [todo EXCEPT ![r] = todo[r] \ {w}]
      BY <1>9, <2>e DEF ReduceWord, hostVars
    <3>2. \A q, v \in Rank : out'[q][v] = IF q = r /\ v = w THEN Exact(done[r] + 1)
                                          ELSE out[q][v]
      BY <1>a, <3>1
    <3>3. \A q \in Rank : todo'[q] = IF q = r THEN todo[q] \ {w} ELSE todo[q]
      BY <1>a, <3>1
    <3>4. \A q \in Rank : pc[q] # "idle" => status[q] # "ok"
      BY <1>d DEF PhaseOK
    <3>5. \A q \in Rank : Algo(q)' = Algo(q)
      BY <3>1 DEF Algo
    <3> QED
      BY <1>d, <3>1, <3>2, <3>3, <3>4, <3>5 DEF OutOK
  <2> QED
    BY <2>1, <2>2, <2>3 DEF Data
<1>10. ASSUME NEW r \in Rank, NEW w \in Rank, GatherWord(r, w) PROVE Data'
  <2>1. SlotsOK'
    BY <1>10, <1>a, <1>b, <1>c, <1>d, SumFresh, GatherFresh DEF GatherWord, hostVars, Phases, PhaseOK, SlotsOK, SlotWord, Algo, Published
  <2>2. GatherOK'
    BY <1>10, <1>a, <1>b, <1>c, <1>d, SumFresh, GatherFresh DEF GatherWord, hostVars, Phases, PhaseOK, GatherOK, TwoBarriers, Algo
  <2>3. OutOK'
    BY <1>10, <1>a, <1>b, <1>c, <1>d, SumFresh, GatherFresh DEF GatherWord, hostVars, Phases, PhaseOK, OutOK, Algo, Reduced
  <2> QED
    BY <2>1, <2>2, <2>3 DEF Data
<1>11. ASSUME NEW r \in Rank, Finish(r) PROVE Data'
  <2>1. SlotsOK'
    BY <1>11, <1>a, <1>b, <1>c, <1>d DEF Finish, hostVars, Phases, PhaseOK, SlotsOK, SlotWord, Algo, Published
  <2>2. GatherOK'
    BY <1>11, <1>a, <1>b, <1>c, <1>d DEF Finish, hostVars, Phases, PhaseOK, GatherOK, TwoBarriers, Algo
  <2>3. OutOK'
    BY <1>11, <1>a, <1>b, <1>c, <1>d DEF Finish, hostVars, Phases, PhaseOK, OutOK, Algo, Reduced
  <2> QED
    BY <2>1, <2>2, <2>3 DEF Data
<1>12. CASE UNCHANGED vars
  BY <1>12 DEF vars, Data, SlotsOK, SlotWord, GatherOK, OutOK, Algo, TwoBarriers
<1> QED
  BY <1>1, <1>2, <1>3, <1>4, <1>5, <1>6, <1>7, <1>8, <1>9, <1>10, <1>11,
     <1>12 DEF Next, Kernel, Device

(* While no spin has timed out every step keeps the flags of a rank's        *)
(* current and previous call: the next call writes the other parity.        *)
LEMMA OwnFlagsStep ==
    ASSUME NoWrap, TInv, OwnFlagsOK, err' = {}, [Next]_vars
    PROVE  OwnFlagsOK'
<1> USE HostShmAssumption DEF Cur
<1>a. /\ done \in [Rank -> 0 .. MaxCalls] /\ pc \in [Rank -> Phases]
      /\ flag \in [0..1 -> [0..1 -> [Rank -> 0 .. GenMod - 1]]]
  BY DEF TInv, TypeOK
<1>b. \A r \in Rank : done[r] > 0 => Parity(done[r]) \in 0..1
  BY <1>a, GenBelow
<1>c. \A r \in Rank : pc[r] # "idle" =>
        Parity(done[r] + 1) \in 0..1 /\ (done[r] > 0 => Parity(done[r] + 1) # Parity(done[r]))
  BY <1>a, ParityFlips, CurCall DEF TInv
<1>q. ASSUME UNCHANGED <<plan, done, flag>>, NEW r \in Rank,
             \A q \in Rank \ {r} : pc'[q] = pc[q],
             \/ pc'[r] \in {"idle", "publish"}
             \/ pc[r] \in {"bar0", "reduce"} /\ pc'[r] \in {"bar0", "reduce"}
             \/ pc[r] \in {"bar1", "gather"}
      PROVE  OwnFlagsOK'
  BY <1>q DEF OwnFlagsOK, TwoBarriers
<1>1. ASSUME NEW r \in Rank, Launch(r) PROVE OwnFlagsOK'
  BY <1>1, <1>a, <1>q DEF Launch, gpuVars, Phases, OwnFlagsOK, TwoBarriers
<1>2. ASSUME NEW r \in Rank, Start(r) PROVE OwnFlagsOK'
  BY <1>2, <1>a, <1>q DEF Start, hostVars, Phases, OwnFlagsOK, TwoBarriers
<1>3. ASSUME NEW r \in Rank, NEW w \in Rank, PublishWord(r, w) PROVE OwnFlagsOK'
  BY <1>3, <1>a, <1>q DEF PublishWord, hostVars, Phases, OwnFlagsOK, TwoBarriers
<1>6. ASSUME NEW r \in Rank, NEW q \in Rank, SeeFlag(r, q) PROVE OwnFlagsOK'
  BY <1>6, <1>a, <1>q DEF SeeFlag, hostVars, Phases, OwnFlagsOK, TwoBarriers
<1>8. ASSUME NEW r \in Rank, Pass(r) PROVE OwnFlagsOK'
  BY <1>8, <1>a, <1>q DEF Pass, hostVars, Phases, OwnFlagsOK, TwoBarriers
<1>9. ASSUME NEW r \in Rank, NEW w \in Rank, ReduceWord(r, w) PROVE OwnFlagsOK'
  BY <1>9, <1>a, <1>q DEF ReduceWord, hostVars, Phases, OwnFlagsOK, TwoBarriers
<1>10. ASSUME NEW r \in Rank, NEW w \in Rank, GatherWord(r, w) PROVE OwnFlagsOK'
  BY <1>10, <1>a, <1>q DEF GatherWord, hostVars, Phases, OwnFlagsOK, TwoBarriers
<1>4. ASSUME NEW r \in Rank, Release0(r) PROVE OwnFlagsOK'
  <2>1. /\ flag' = [flag EXCEPT ![0][Parity(done[r] + 1)][r] = Gen(done[r] + 1)]
        /\ pc[r] = "publish" /\ pc' = [pc EXCEPT ![r] = "bar0"] /\ UNCHANGED <<plan, done>>
    BY <1>4 DEF Release0, Release
  <2>2. Parity(done[r] + 1) \in 0..1 /\ (done[r] > 0 => Parity(done[r] + 1) # Parity(done[r]))
    BY <1>c, <2>1
  <2>3. \A q \in Rank, p \in 0..1 :
          /\ flag'[1][p][q] = flag[1][p][q]
          /\ flag'[0][p][q] = IF q = r /\ p = Parity(done[r] + 1) THEN Gen(done[r] + 1)
                              ELSE flag[0][p][q]
    BY <1>a, <2>1, <2>2
  <2>4. /\ \A q \in Rank \ {r} : pc'[q] = pc[q]
        /\ pc'[r] = "bar0"
    BY <1>a, <2>1
  <2> QED
    BY <1>b, <1>c, <2>1, <2>2, <2>3, <2>4 DEF OwnFlagsOK, TwoBarriers
<1>5. ASSUME NEW r \in Rank, Release1(r) PROVE OwnFlagsOK'
  <2>1. /\ flag' = [flag EXCEPT ![1][Parity(done[r] + 1)][r] = Gen(done[r] + 1)]
        /\ pc[r] = "reduce" /\ pc' = [pc EXCEPT ![r] = "bar1"] /\ UNCHANGED <<plan, done>>
    BY <1>5 DEF Release1, Release
  <2>2. Parity(done[r] + 1) \in 0..1 /\ (done[r] > 0 => Parity(done[r] + 1) # Parity(done[r]))
    BY <1>c, <2>1
  <2>3. \A q \in Rank, p \in 0..1 :
          /\ flag'[0][p][q] = flag[0][p][q]
          /\ flag'[1][p][q] = IF q = r /\ p = Parity(done[r] + 1) THEN Gen(done[r] + 1)
                              ELSE flag[1][p][q]
    BY <1>a, <2>1, <2>2
  <2>4. /\ \A q \in Rank \ {r} : pc'[q] = pc[q]
        /\ pc'[r] = "bar1"
    BY <1>a, <2>1
  <2> QED
    BY <1>b, <1>c, <2>1, <2>2, <2>3, <2>4 DEF OwnFlagsOK, TwoBarriers
<1>7. ASSUME NEW r \in Rank, TimeOut(r) PROVE OwnFlagsOK'
  BY <1>7 DEF TimeOut
<1>11. ASSUME NEW r \in Rank, Finish(r) PROVE OwnFlagsOK'
  <2>1. /\ done' = [done EXCEPT ![r] = done[r] + 1] /\ pc' = [pc EXCEPT ![r] = "idle"]
        /\ UNCHANGED <<plan, flag>>
        /\ pc[r] \in {"gather", "reduce"}
    BY <1>11 DEF Finish
  <2>t. TwoBarriers(done[r] + 1) => pc[r] = "gather"
    BY <1>11 DEF Finish, Algo, TwoBarriers
  <2>2. flag[0][Parity(done[r] + 1)][r] = Gen(done[r] + 1)
    BY <2>1 DEF OwnFlagsOK
  <2>3. TwoBarriers(done[r] + 1) => flag[1][Parity(done[r] + 1)][r] = Gen(done[r] + 1)
    BY <2>t DEF OwnFlagsOK
  <2>4. /\ done'[r] = done[r] + 1 /\ pc'[r] = "idle"
        /\ \A q \in Rank \ {r} : done'[q] = done[q] /\ pc'[q] = pc[q]
    BY <1>a, <2>1
  <2> QED
    BY <2>1, <2>2, <2>3, <2>4 DEF OwnFlagsOK, TwoBarriers
<1>12. CASE UNCHANGED vars
  BY <1>12 DEF vars, OwnFlagsOK, TwoBarriers
<1> QED
  BY <1>1, <1>2, <1>3, <1>4, <1>5, <1>6, <1>7, <1>8, <1>9, <1>10, <1>11,
     <1>12 DEF Next, Kernel, Device

(***************************************************************************)
(* The two results: the invariants, and the implementation of AllReduce.   *)
(***************************************************************************)
(* The initial state satisfies the inductive invariant.                     *)
LEMMA InvInit == Init => IInv
<1> SUFFICES ASSUME Init PROVE Sync /\ Data /\ OwnFlagsOK
  BY TypeInit DEF IInv
<1> USE HostShmAssumption DEF Init
<1>1. Sync
  BY DEF Sync, FlagsOK, Barrier0OK, Barrier1OK, Arrived0, Arrived1
<1>2. Data
  BY DEF Data, SlotsOK, GatherOK, OutOK
<1>3. OwnFlagsOK
  BY DEF OwnFlagsOK
<1> QED
  BY <1>1, <1>2, <1>3

(* Every step keeps the inductive invariant.                                *)
LEMMA InvStep ==
    ASSUME NoWrap
    PROVE  IInv /\ [Next]_vars => IInv'
<1> SUFFICES ASSUME IInv, [Next]_vars PROVE IInv'
  OBVIOUS
<1>1. TInv'
  BY TypeStep DEF IInv
<1>2. err' = {} => err = {}
  BY DEF Next, Kernel, Device, Launch, gpuVars, Start, PublishWord, Release0, Release1,
         Release, SeeFlag, TimeOut, Pass, ReduceWord, GatherWord, Finish, vars
<1>3. err' = {} => Sync' /\ Data' /\ OwnFlagsOK'
  BY <1>1, <1>2, SyncStep, DataStep, OwnFlagsStep DEF IInv
<1> QED
  BY <1>1, <1>3 DEF IInv

(* The inductive invariant implies the three safety properties.             *)
LEMMA InvImplies ==
    IInv => WrongSumIsReported /\ SkewAtMostOne /\ PolledFlagNotOverrun
<1> SUFFICES ASSUME IInv PROVE WrongSumIsReported /\ SkewAtMostOne /\ PolledFlagNotOverrun
  OBVIOUS
<1>1. WrongSumIsReported
  BY DEF IInv, Data, OutOK, WrongSumIsReported
<1>2. SkewAtMostOne
  <2>1. done \in [Rank -> 0 .. MaxCalls]
    BY DEF IInv, TInv, TypeOK
  <2>2. err = {} => \A r, q \in Rank : done[r] <= done[q] + 1
    BY <2>1 DEF IInv, Sync, Barrier0OK, Arrived0
  <2> QED
    BY <2>1, <2>2, HostShmAssumption DEF SkewAtMostOne
<1>3. PolledFlagNotOverrun
  <2> SUFFICES ASSUME err = {}, NEW r \in Rank, pc[r] \in {"bar0", "bar1"},
                      NEW q \in Rank, done[q] >= Cur(r)
               PROVE  flag[Barrier(r)][Parity(Cur(r))][q] = Gen(Cur(r))
    BY DEF PolledFlagNotOverrun, IInv, TInv, TypeOK
  <2>1. done \in [Rank -> 0 .. MaxCalls]
    BY DEF IInv, TInv, TypeOK
  <2>2. done[q] <= done[r] + 1
    BY <2>1 DEF IInv, Sync, Barrier0OK, Arrived0
  <2>3. done[q] = Cur(r) /\ done[q] > 0
    BY <2>1, <2>2, HostShmAssumption DEF Cur
  <2>4. pc[r] = "bar1" => TwoBarriers(done[q])
    BY <2>3 DEF IInv, TInv, PhaseOK, Algo, TwoBarriers
  <2> QED
    BY <2>3, <2>4 DEF IInv, OwnFlagsOK, Barrier
<1> QED
  BY <1>1, <1>2, <1>3

(* As long as the generation counter does not wrap, a rank that ran an      *)
(* all-reduce to its end holds the right sum, or an error word is set.      *)
THEOREM WrongSumsAreReported == NoWrap => (Spec => []WrongSumIsReported)
<1> SUFFICES ASSUME NoWrap PROVE Spec => []WrongSumIsReported
  OBVIOUS
<1>1. IInv /\ [Next]_vars => IInv'
  BY InvStep
<1> QED
  BY <1>1, InvInit, InvImplies, PTL DEF Spec

(* Under the same assumption ranks never drift more than one call apart     *)
(* without an error word being set.                                         *)
THEOREM SkewBounded == NoWrap => (Spec => []SkewAtMostOne)
<1> SUFFICES ASSUME NoWrap PROVE Spec => []SkewAtMostOne
  OBVIOUS
<1>1. IInv /\ [Next]_vars => IInv'
  BY InvStep
<1> QED
  BY <1>1, InvInit, InvImplies, PTL DEF Spec

(* Under the same assumption no spin waits for a flag its peer has already  *)
(* overwritten: a peer that is a call ahead still shows the polled          *)
(* generation on that parity.                                               *)
THEOREM PolledFlagsStand == NoWrap => (Spec => []PolledFlagNotOverrun)
<1> SUFFICES ASSUME NoWrap PROVE Spec => []PolledFlagNotOverrun
  OBVIOUS
<1>1. IInv /\ [Next]_vars => IInv'
  BY InvStep
<1> QED
  BY <1>1, InvInit, InvImplies, PTL DEF Spec

(* The invariant the results above rest on holds in every reachable state:  *)
(* who has arrived where, what each slot, sum and output still holds.       *)
THEOREM InvariantHolds == NoWrap => (Spec => []IInv)
<1> SUFFICES ASSUME NoWrap PROVE Spec => []IInv
  OBVIOUS
<1>1. IInv /\ [Next]_vars => IInv'
  BY InvStep
<1> QED
  BY <1>1, InvInit, PTL DEF Spec

(* The initial states are those of the abstract all-reduce.                 *)
LEMMA RefineInit == Init => Abstract!Init
BY DEF Init, Abstract!Init, Abstract!NoResult, NoSum

(* A step that keeps a rank's phase, count, result and the error words is a *)
(* stutter of the abstract all-reduce.                                      *)
LEMMA RefineStutter ==
    ASSUME UNCHANGED <<done, status, err>>,
           \A r \in Rank : pc[r] = "idle" <=> pc'[r] = "idle",
           \A r \in Rank : status[r] = "ok" => out'[r] = out[r]
    PROVE  UNCHANGED Abstract!vars
BY DEF Abstract!vars, Cur

(* Every step is a step or a stutter of the abstract all-reduce.            *)
LEMMA RefineStep ==
    ASSUME NoWrap, IInv, IInv', [Next]_vars
    PROVE  [Abstract!Next]_(Abstract!vars)
<1>1. CASE err' # {}
  BY <1>1 DEF Abstract!Next, Abstract!Break
<1>2. CASE err' = {}
  <2>a. /\ done \in [Rank -> 0 .. MaxCalls] /\ pc \in [Rank -> Phases]
        /\ status \in [Rank -> {"none", "ok", "aborted"}]
        /\ out \in [Rank -> [Rank -> [Rank -> 0 .. MaxCalls]]]
        /\ status' \in [Rank -> {"none", "ok", "aborted"}]
        /\ out' \in [Rank -> [Rank -> [Rank -> 0 .. MaxCalls]]]
    BY DEF IInv, TInv, TypeOK
  <2>b. \A r \in Rank : pc[r] # "idle" => status[r] = "none"
    BY DEF IInv, TInv, PhaseOK
  <2> USE DEF Phases
  <2>1. ASSUME NEW r \in Rank, Launch(r) PROVE UNCHANGED Abstract!vars
    BY <2>1, RefineStutter DEF Launch, gpuVars
  <2>2. ASSUME NEW r \in Rank, Start(r) PROVE Abstract!Begin(r)
    <3>1. /\ pc[r] = "idle" /\ pc' = [pc EXCEPT ![r] = "publish"]
          /\ status' = [status EXCEPT ![r] = "none"] /\ UNCHANGED <<done, err>>
          /\ out' = [out EXCEPT ![r] = [w \in Rank |-> NoSum]]
      BY <2>2 DEF Start
    <3>2. err = {}
      BY <1>2, <3>1
    <3> QED
      BY <2>a, <3>1, <3>2 DEF Abstract!Begin, Abstract!NoResult, Cur, NoSum
  <2>3. ASSUME NEW r \in Rank, NEW w \in Rank, PublishWord(r, w)
        PROVE  UNCHANGED Abstract!vars
    BY <2>3, RefineStutter DEF PublishWord
  <2>4. ASSUME NEW r \in Rank, Release0(r) \/ Release1(r)
        PROVE  UNCHANGED Abstract!vars
    BY <2>4, <2>a, RefineStutter DEF Release0, Release1, Release
  <2>5. ASSUME NEW r \in Rank, NEW q \in Rank, SeeFlag(r, q)
        PROVE  UNCHANGED Abstract!vars
    BY <2>5, RefineStutter DEF SeeFlag
  <2>6. ASSUME NEW r \in Rank, TimeOut(r) PROVE FALSE
    BY <1>2, <2>6 DEF TimeOut
  <2>7. ASSUME NEW r \in Rank, Pass(r) PROVE UNCHANGED Abstract!vars
    BY <2>7, <2>a, RefineStutter DEF Pass
  <2>8. ASSUME NEW r \in Rank, NEW w \in Rank, ReduceWord(r, w)
        PROVE  UNCHANGED Abstract!vars
    BY <2>8, <2>a, <2>b, RefineStutter DEF ReduceWord
  <2>9. ASSUME NEW r \in Rank, NEW w \in Rank, GatherWord(r, w)
        PROVE  UNCHANGED Abstract!vars
    BY <2>9, <2>a, <2>b, RefineStutter DEF GatherWord
  <2>10. ASSUME NEW r \in Rank, Finish(r) PROVE Abstract!Finish(r)
    <3>1. /\ pc[r] # "idle" /\ pc' = [pc EXCEPT ![r] = "idle"]
          /\ status' = [status EXCEPT ![r] = "ok"]
          /\ done' = [done EXCEPT ![r] = done[r] + 1] /\ UNCHANGED <<out, err>>
      BY <2>10 DEF Finish
    <3>2. err = {}
      BY <1>2, <3>1
    <3>3. \A q \in Rank : done[r] < Arrived0(q)
      BY <2>10, <3>2 DEF Finish, IInv, Sync, Barrier0OK
    <3>4. \A w \in Rank : out[r][w] = Exact(done[r] + 1)
      BY <1>2, <2>a, <3>1 DEF IInv, Data, OutOK
    <3>5. out[r] = [w \in Rank |-> [q \in Rank |-> done[r] + 1]]
      BY <2>a, <3>4 DEF Exact
    <3> DEFINE begun == [q \in Rank |-> IF pc[q] = "idle" THEN done[q] ELSE Cur(q)]
               result == [q \in Rank |-> IF status[q] = "ok" THEN out[q]
                                          ELSE [w \in Rank |-> NoSum]]
    <3>6. begun[r] = done[r] + 1 /\ done[r] < begun[r]
      BY <2>a, <3>1 DEF Cur
    <3>7. \A q \in Rank : begun[q] >= begun[r]
      BY <2>a, <3>3, <3>6 DEF Arrived0, Cur
    <3>8. begun' = begun
      BY <2>a, <3>1 DEF Cur
    <3>9. result' = [result EXCEPT ![r] = Abstract!SumOf(begun[r])]
      <4>1. out[r] = Abstract!SumOf(begun[r])
        BY <3>5, <3>6 DEF Abstract!SumOf
      <4> HIDE DEF begun
      <4> QED
        BY <2>a, <3>1, <4>1
    <3>10. done' = [done EXCEPT ![r] = begun[r]]
      BY <3>1, <3>6
    <3> HIDE DEF begun, result
    <3> QED
      BY <1>2, <3>2, <3>6, <3>7, <3>8, <3>9, <3>10 DEF Abstract!Finish, begun, result
  <2>11. CASE UNCHANGED vars
    BY <2>11, RefineStutter DEF vars
  <2> QED
    BY <2>1, <2>2, <2>3, <2>4, <2>5, <2>6, <2>7, <2>8, <2>9, <2>10, <2>11
    DEF Next, Kernel, Device, Abstract!Next
<1> QED
  BY <1>1, <1>2

(* The three kernels, whatever mixture of them a workload selects, implement *)
(* the abstract all-reduce as long as the generation counter does not wrap.  *)
THEOREM HostShmImplementsAllReduce == NoWrap => (Spec => ImplementsAllReduce)
<1> SUFFICES ASSUME NoWrap PROVE Spec => ImplementsAllReduce
  OBVIOUS
<1>1. IInv /\ [Next]_vars => IInv'
  BY InvStep
<1>2. IInv /\ IInv' /\ [Next]_vars => [Abstract!Next]_(Abstract!vars)
  BY RefineStep
<1> QED
  BY <1>1, <1>2, InvInit, RefineInit, PTL
  DEF Spec, ImplementsAllReduce, Abstract!Spec
=============================================================================
