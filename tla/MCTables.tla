------------------------------ MODULE MCTables ------------------------------
(* Instances of Tables for TLC: owners and addresses are interchangeable.  *)
EXTENDS Tables, TLC

Symmetry == Permutations(Owners) \cup Permutations(Addresses)
=============================================================================
