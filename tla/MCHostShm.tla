----------------------------- MODULE MCHostShm -----------------------------
(* Model values and bounds for HostShmAllReduce. *)
EXTENDS HostShmInvariant, TLC

RankSymmetry == Permutations(Rank)
=============================================================================
