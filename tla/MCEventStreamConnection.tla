----------------------- MODULE MCEventStreamConnection -----------------------
(* Instances of EventStreamConnection for TLC.                             *)
EXTENDS EventStreamConnection, TLC

Symmetry == Permutations(AppThreads) \cup Permutations(Loops)
=============================================================================
