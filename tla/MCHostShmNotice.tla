--------------------------- MODULE MCHostShmNotice ---------------------------
(* HostShmAllReduce with a history variable that counts, per rank, the      *)
(* all-reduces its host issued while an error word was already set.         *)
EXTENDS HostShmAllReduce, TLC

VARIABLE unseen

NoticeInit == Init /\ unseen = [r \in Rank |-> 0]

NoticeNext ==
    /\ Next
    /\ unseen' = [r \in Rank |->
                    IF issued'[r] > issued[r] /\ err # {} THEN unseen[r] + 1
                                                         ELSE unseen[r]]

NoticeSpec == NoticeInit /\ [][NoticeNext]_<<vars, unseen>>

(* "The host side checks those words periodically and raises": a rank never *)
(* issues more all-reduces past a set error word than there are between two *)
(* looks at it, CheckEvery, without having raised.                          *)
HostNoticesInTime == \A r \in Rank : unseen[r] > CheckEvery => raised[r]

RankSymmetry == Permutations(Rank)
=============================================================================
