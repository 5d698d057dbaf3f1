------------------------------- MODULE MCPool -------------------------------
(* Instances of Pool for TLC. *)
EXTENDS Pool, TLC

MembersAndThreads == Permutations(Members) \cup Permutations(Threads)
=============================================================================
