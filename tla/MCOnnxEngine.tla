---------------------------- MODULE MCOnnxEngine ----------------------------
(* Instances of OnnxEngine for TLC. *)
EXTENDS OnnxEngine, TLC

CONSTANTS r1, r2, r3, r4, r5, p1, p2

Three == {r1, r2, r3}
Five == {r1, r2, r3, r4, r5}
OnePath == {p1}
TwoPaths == {p1, p2}
OneHistory == {2}

AllOps == OpKinds
Work == Admin \cup Chats

AnyFlag == BOOLEAN
NoFlag == {FALSE}
Symmetry5 == Permutations(Five)
=============================================================================
