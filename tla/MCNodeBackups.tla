--------------------------- MODULE MCNodeBackups ---------------------------
(* The instances of NodeBackups that TLC checks. *)
EXTENDS NodeBackups, TLC

CONSTANTS f1, f2

MCFiles == {f1, f2}
OneFile == {f1}
OneName == {1}
MCNames == {1, 2}
NoPrefixes == {}
FirstStartsSecond == {<<1, 2>>}

\* Cassandra's file names carry no order that the code reads.
FileSymmetry == Permutations(MCFiles)
=============================================================================
