----------------------------- MODULE MCUpdater -----------------------------
(* The updater and its shell, with a release newer than this build and one *)
(* that is not.                                                            *)
EXTENDS UpdateShell

MCVersions == 1 .. 2
=============================================================================
