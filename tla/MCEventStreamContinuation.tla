---------------------- MODULE MCEventStreamContinuation ----------------------
(* Instances of EventStreamContinuation for TLC.                           *)
EXTENDS EventStreamContinuation, TLC

Symmetry == Permutations(AppThreads)
=============================================================================
