------------------------------ MODULE MCThreads ------------------------------
(* Bounded instance of Threads for TLC.  Nothing distinguishes the         *)
(* participants of a room but what they do.                                *)
EXTENDS Threads

Symmetry == Permutations(Cids)
==============================================================================
