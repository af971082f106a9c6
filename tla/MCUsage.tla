------------------------------- MODULE MCUsage -------------------------------
(* Instances of Usage: two handler threads, two requests, two sessions.        *)
EXTENDS Usage

CONSTANTS T1, T2, R1, R2, S1, S2

Alike == Permutations(Threads) \cup Permutations(Requests) \cup Permutations(Sessions)
=============================================================================
