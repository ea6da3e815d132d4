---------------------------- MODULE MCShmChannel ----------------------------
(* Instances of ShmChannel for TLC. *)
EXTENDS ShmChannel, TLC

CONSTANTS w1, w2, r1, r2

TwoWriters == {w1, w2}
OneWriter == {w1}
OneReader == {r1}
TwoReaders == {r1, r2}

Symmetry == Permutations(Writers)
=============================================================================
