------------------------ MODULE MCReplayedHistories ------------------------
(* An instance of ReplayedHistories for TLC: one process through a recording *)
(* of three frames.                                                          *)
EXTENDS ReplayedHistories

CONSTANT root

MCProcesses == {root}
MCProgram == [k \in {root} |-> "a"]
Frame(at, interval) == [at |-> at, interval |-> interval,
                        snap |-> [k \in {root} |-> [cycles |-> at, parent |-> None]]]
MCTape == <<Frame(10, 0), Frame(11, 1), Frame(12, 1)>>
=============================================================================
