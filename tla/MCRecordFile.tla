---------------------------- MODULE MCRecordFile ----------------------------
(* Instances of RecordFile for TLC. Processes are interchangeable.         *)
EXTENDS RecordFile, TLC

Symmetry == Permutations(Processes)
=============================================================================
