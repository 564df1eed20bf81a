-------------------------- MODULE MCBackupService --------------------------
(* The instances of BackupService that TLC checks. *)
EXTENDS BackupService, TLC

CONSTANTS r1, r2, p1, p2

OneRun == {r1}
TwoRuns == {r1, r2}
OnePoll == {p1}
TwoPolls == {p1, p2}

\* Requests and handler threads are alike.
RunSymmetry == Permutations({r1, r2}) \cup Permutations({p1, p2})
=============================================================================
