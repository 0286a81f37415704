------------------------------ MODULE MCReplay ------------------------------
(* Instances of Replay for TLC: the frames that cannot be read are chosen  *)
(* by Init among all sets that leave the first one readable.               *)
EXTENDS Replay
=============================================================================
