------------------------------ MODULE MCDaemon ------------------------------
(* Instances of Daemon: at most two rooms, and what an earlier worker left. *)
EXTENDS Daemon
CONSTANTS r1, r2
Rank == [open |-> 1, closing |-> 2, closed |-> 3]
\* The specification does not tell the rooms apart: one order of each pair of states is enough.
AllResidues == {s \in [Rooms -> States] : Rank[s[r1]] <= Rank[s[r2]]}
=============================================================================
