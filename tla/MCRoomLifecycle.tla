--------------------------- MODULE MCRoomLifecycle ---------------------------
(* The peers of the instances of RoomLifecycle. *)
EXTENDS RoomLifecycle

CONSTANTS p, q
=============================================================================
