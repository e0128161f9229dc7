-------------------------- MODULE MCRoomMembership --------------------------
(* Values for the constants of RoomMembership that a .cfg cannot write.    *)
EXTENDS RoomMembership

MCOffers == [mode : {"one_time", "public"}, role : Roles, min : {1}]
Budget(ops, moves, errs) == [ops |-> ops, moves |-> moves, errs |-> errs]
MCBudgets == {Budget(3, 1, 1), Budget(2, 2, 1)}
MCPlanned == [r \in Roles |-> 0]
=============================================================================
