------------------------------- MODULE MCFlags -------------------------------
(* All three kernels, small and large messages; a large one is reduced by   *)
(* two CTAs.  The first and the fourth call use the same stage, and are any *)
(* calls; the two in between are small and alike.                           *)
EXTENDS FlagsInvariant

MCSizes ==
    [two_shot |-> {1, 3}, one_shot |-> {1, 2}, two_shot_z |-> {1, 3}]

Small(k) == \A n \in Sizes[plan[k].kind] : plan[k].size <= n

MCInit == Init /\ Small(2) /\ plan[2] = plan[3]
MCSpec == MCInit /\ [][Next]_vars /\ Fairness
=============================================================================
