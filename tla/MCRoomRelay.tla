----------------------------- MODULE MCRoomRelay -----------------------------
(* Instances of RoomRelay for TLC. *)
EXTENDS RoomRelay

CONSTANTS ann, bob, eve

OneMessage == <<"message">>
TwoMessages == <<"message", "message">>
MessageCommandFile == <<"message", "command", "file">>

JustAnn == <<ann>>
AnnBob == <<ann, bob>>
BobAnnAnn == <<bob, ann, ann>>

JustPlain == <<"plain">>
PlainPlain == <<"plain", "plain">>
PlainPlainLinked == <<"plain", "plain", "linked">>

AnnAndBob == <<ann, bob>>
AllThree == <<ann, bob, eve>>
=============================================================================
