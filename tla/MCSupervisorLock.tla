-------------------------- MODULE MCSupervisorLock --------------------------
(* Instances of SupervisorLock for TLC. *)
EXTENDS SupervisorLock

CONSTANTS s1, s2, s3

Left(released, alias) == [owner |-> Ghost, released |-> released, alias |-> alias]

(* nothing, a tombstone, a dead holder, a holder that died while publishing *)
AllResidues == {NoFile, Left(TRUE, FALSE), Left(FALSE, FALSE), Left(FALSE, TRUE)}
=============================================================================
