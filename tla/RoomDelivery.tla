---------------------------- MODULE RoomDelivery ----------------------------
(***************************************************************************)
(* What a room promises for the content it is handed, without archives,    *)
(* intents, batches, restarts or locks: a source is decided once; accepting *)
(* it fixes its audience; each member of the audience is owed the content, *)
(* may be handed several copies while it is owed (a lost answer cannot be  *)
(* told from a lost message), and none after it is concluded.              *)
(***************************************************************************)
EXTENDS Naturals

CONSTANTS Sources, Cids

VARIABLES
  intake,     \* Sources -> "pending", "accepted" or "refused"
  owed,       \* pairs <<source, recipient>> still to be concluded
  concluded,  \* pairs with a final outcome
  copies      \* copies handed to the transport

vars == <<intake, owed, concluded, copies>>

Init ==
  /\ intake = [s \in Sources |-> "pending"]
  /\ owed = {} /\ concluded = {}
  /\ copies = [p \in Sources \X Cids |-> 0]

Accept(s, audience) ==
  /\ intake[s] = "pending"
  /\ intake' = [intake EXCEPT ![s] = "accepted"]
  /\ owed' = owed \cup ({s} \X audience)
  /\ UNCHANGED <<concluded, copies>>

Refuse(s) ==
  /\ intake[s] = "pending"
  /\ intake' = [intake EXCEPT ![s] = "refused"]
  /\ UNCHANGED <<owed, concluded, copies>>

Transmit(p) ==
  /\ p \in owed
  /\ copies' = [copies EXCEPT ![p] = @ + 1]
  /\ UNCHANGED <<intake, owed, concluded>>

Conclude(p) ==
  /\ p \in owed
  /\ owed' = owed \ {p} /\ concluded' = concluded \cup {p}
  /\ UNCHANGED <<intake, copies>>

Next == \/ \E s \in Sources : \/ Refuse(s)
                              \/ \E audience \in SUBSET Cids : Accept(s, audience)
        \/ \E p \in Sources \X Cids : Transmit(p) \/ Conclude(p)

Spec == Init /\ [][Next]_vars
=============================================================================
