------------------------------ MODULE AllReduce ------------------------------
(***************************************************************************)
(* What every all-reduce of vllm_sm80/distributed promises its caller,     *)
(* whatever carries the bytes.  A rank begins a call and later finishes    *)
(* it; it finishes call k only after every rank has begun call k, and then *)
(* holds in every word the contributions of all ranks to call k and to no  *)
(* other.  The promise ends when the fault becomes visible: from the step  *)
(* that sets an error word on, nothing is promised about results.          *)
(***************************************************************************)
EXTENDS Naturals

CONSTANTS
    Rank,    \* the ranks of the group
    Word     \* the words of a message

VARIABLES
    begun,     \* begun[r]: calls rank r has begun
    finished,  \* finished[r]: calls rank r has finished
    result,    \* result[r][w][q]: the call q's contribution to word w is of
    broken     \* an error word is set

vars == <<begun, finished, result, broken>>

NoResult == [w \in Word |-> [q \in Rank |-> 0]]
SumOf(k) == [w \in Word |-> [q \in Rank |-> k]]

Init ==
    /\ begun = [r \in Rank |-> 0]
    /\ finished = [r \in Rank |-> 0]
    /\ result = [r \in Rank |-> NoResult]
    /\ broken = FALSE

Begin(r) ==
    /\ ~broken
    /\ begun[r] = finished[r]
    /\ begun' = [begun EXCEPT ![r] = @ + 1]
    /\ result' = [result EXCEPT ![r] = NoResult]
    /\ UNCHANGED <<finished, broken>>

Finish(r) ==
    /\ ~broken
    /\ finished[r] < begun[r]
    /\ \A q \in Rank : begun[q] >= begun[r]
    /\ finished' = [finished EXCEPT ![r] = begun[r]]
    /\ result' = [result EXCEPT ![r] = SumOf(begun[r])]
    /\ UNCHANGED <<begun, broken>>

(* A fault, or anything after one. *)
Break == broken' = TRUE

Next == Break \/ \E r \in Rank : Begin(r) \/ Finish(r)

Spec == Init /\ [][Next]_vars
=============================================================================
