------------------------- MODULE ReplayedHistories -------------------------
(***************************************************************************)
(* The two histories during a replay.  A player takes the sampler's place  *)
(* as the source of snapshots, and the view hands on whatever frame comes  *)
(* up (App::set_snapshot), after a seek to an earlier one too.            *)
(***************************************************************************)
EXTENDS Timeline, Usage

CONSTANTS
    Tape,     \* the frames of the recording: at, interval, and what ran
    Reach,    \* how far back the histories reach
    MaxShown  \* Bound: frames shown

VARIABLES
    shown,    \* the frame on show, or 0
    count

vars == <<timelineVars, usageVars, shown, count>>

Init == TimelineInit(Reach) /\ UsageInit /\ shown = 0 /\ count = 0

\* A frame comes up: the next one, or the one a seek asked for.
Show(i) ==
    /\ i # shown /\ count < MaxShown
    /\ shown' = i /\ count' = count + 1
    /\ IF Tape[i].interval = 0 THEN UNCHANGED timelineVars
       ELSE Chart(Tape[i].at, Tape[i].interval, Reach)
    /\ Observe(Tape[i].at, Tape[i].snap, {}, Reach)

Next == \E i \in DOMAIN Tape : Show(i)

Spec == Init /\ [][Next]_vars

-----------------------------------------------------------------------------

\* usage.rs, frames(): "No stretch is covered twice": a frame ends no later than the
\* next newer one begins.
NoStretchTwice ==
    \A i \in 1..(Len(Frames) - 1) : Frames[i + 1].end <= Frames[i].end - Frames[i].span
=============================================================================
