---------------------------- MODULE MCHistories ----------------------------
(* Instances of Histories for TLC: a process that was running before the   *)
(* session, its child, which runs under the same label, and its grandchild. *)
EXTENDS Histories

CONSTANTS root, child, grandchild

MCProcesses == {root, child, grandchild}
MCProgram == (root :> "a") @@ (child :> "a") @@ (grandchild :> "b")
MCRate == (root :> 1) @@ (child :> 2) @@ (grandchild :> 1)
MCSpawner == (root :> None) @@ (child :> root) @@ (grandchild :> child)
=============================================================================
