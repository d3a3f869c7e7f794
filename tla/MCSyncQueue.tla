---------------------------- MODULE MCSyncQueue -----------------------------
(* Instances of SyncQueue for TLC. *)
EXTENDS SyncQueue

CONSTANTS w1, w2, h1, h2, a1, a2

TwoWriters == {w1, w2}
TwoReaders == {h1, h2}
FourThreads == TwoWriters \cup TwoReaders
TwoAnswers == {a1, a2}
=============================================================================
