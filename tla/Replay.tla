------------------------------- MODULE Replay -------------------------------
(***************************************************************************)
(* A Player and the UI thread that shows it: the snapshot flag of the      *)
(* shell's inbox, the frame on show, and the transport bar (the replay     *)
(* part of ot-shell-core lib.rs, ot-ui replay.rs).                         *)
(*                                                                         *)
(* The UI thread handles one thing at a time: a press on the bar (a call   *)
(* of Player, then a fresh state for the bar), or a drain of the inbox     *)
(* that found the snapshot flag set (the newest frame, then a fresh state  *)
(* for the bar).                                                           *)
(***************************************************************************)
EXTENDS Player

VARIABLES
    flag,      \* Inbox::snapshot: a frame was published since the last drain
    shown,     \* the frame the view holds
    bar,       \* the transport's ReplayState
    shell,     \* where the UI thread is, outside calls on the Player
    barRead    \* the position replay_state read

view == <<flag, shown, bar, shell, barRead>>
vars == <<pvars, view>>

TypeOK ==
    /\ PTypeOK
    /\ flag \in BOOLEAN
    /\ shown \in Frames \cup {0}
    /\ bar \in [position : Frames \cup {0}, playing : BOOLEAN]
    /\ shell \in {"idle", "latest", "position", "playing"}
    /\ barRead \in Frames \cup {0}

\* Shell::start flags the frame the Player opened at.
Init ==
    /\ PInit
    /\ flag = TRUE /\ shown = 0 /\ shell = "idle" /\ barRead = 0
    /\ bar = [position |-> 0, playing |-> FALSE]

-----------------------------------------------------------------------------
\* The player thread's notify sets the flag; nothing else of it reaches the UI.
Publish == Notify /\ flag' = TRUE /\ UNCHANGED <<shown, bar, shell, barRead>>

Thread == Publish \/ (PlayerThread /\ ~Notify /\ UNCHANGED view)

\* A press on the bar, or the end of the shell.
Press == shell = "idle" /\ Calls /\ UNCHANGED view

\* drain: the flag is cleared before anything is read.
Drain ==
    /\ shell = "idle" /\ upc = "ready"
    /\ flag
    /\ flag' = FALSE
    /\ shell' = "latest"
    /\ UNCHANGED <<pvars, shown, bar, barRead>>

\* on_snapshot: the newest frame, whichever notify this was for.
TakeLatest ==
    /\ shell = "latest"
    /\ shown' = current
    /\ shell' = "position"
    /\ UNCHANGED <<pvars, flag, bar, barRead>>

\* Mutant: the flag is cleared once everything was read.
ReadPositionClearsFlag ==
    /\ \/ shell = "position"
       \/ shell = "idle" /\ upc = "returned"
    /\ barRead' = position
    /\ flag' = FALSE
    /\ shell' = "playing"
    /\ upc' = IF upc = "returned" THEN "ready" ELSE upc
    /\ UNCHANGED <<control, published, thread, read, by, wasPlaying, calls, bad, asked,
                   shown, bar>>

\* replay_state, after on_snapshot or after a call: position, then playing.
ReadPosition ==
    /\ \/ shell = "position"
       \/ shell = "idle" /\ upc = "returned"
    /\ barRead' = position
    /\ shell' = "playing"
    /\ upc' = IF upc = "returned" THEN "ready" ELSE upc
    /\ UNCHANGED <<control, published, thread, read, by, wasPlaying, calls, bad, asked,
                   flag, shown, bar>>

SetReplay ==
    /\ shell = "playing"
    /\ bar' = [position |-> barRead, playing |-> playing]
    /\ shell' = "idle"
    /\ UNCHANGED <<pvars, flag, shown, barRead>>

ShellSteps == Drain \/ TakeLatest \/ ReadPosition \/ SetReplay

\* A press that began is carried out; presses themselves need not come.
PressInProgress ==
    /\ shell = "idle"
    /\ ToggleActs \/ StepActs \/ Join
    /\ UNCHANGED view

Terminated == upc = "stopped" /\ UNCHANGED vars

Next ==
    \/ Thread
    \/ SpuriousWake /\ UNCHANGED view
    \/ Press
    \/ ShellSteps
    \/ Terminated

Spec == Init /\ [][Next]_vars

\* Threads run, and a frame that is waited for becomes due: wait_timeout is given
\* a finite time. Nobody has to press anything.
Fairness ==
    /\ WF_vars(Thread)
    /\ SF_vars(LookDue /\ UNCHANGED view)
    /\ WF_vars(ShellSteps)
    /\ WF_vars(PressInProgress)

FairSpec == Spec /\ Fairness

-----------------------------------------------------------------------------
(* Properties                                                               *)

\* The latest seek, step or restart wins, whatever was pending or being decoded
\* when it came: a thread that waits shows exactly the frame last asked for.
LatestRequestWins ==
    tpc \in {"wait", "waitDue"} /\ asked # NoFrame =>
        seek = NoFrame /\ position = asked /\ current = asked

\* Playback is timed from a frame it really played from: while there is an anchor
\* nothing else was asked for, and what is being decoded is the next frame
\* (player.rs: frame i is due relative to the anchor).
AnchorDescribesPlayback ==
    anchor # NoFrame =>
        /\ playing /\ seek = NoFrame
        /\ anchor <= position
        /\ tpc \in {"load", "position", "fail"} => target = position + 1

\* No lost update: when nothing is running and no flag is set, the view shows the
\* published frame and the bar its position.
SettledViewIsCurrent ==
    tpc = "wait" /\ shell = "idle" /\ upc = "ready" /\ ~flag =>
        /\ shown = current /\ position = current
        /\ bar.position = position

\* A frame that was asked for comes up in the view, unless something else was
\* asked for, it cannot be read, playback moved on, or the shell ends.
AskedIsShown ==
    \A f \in Frames :
        asked = f ~> (shown = f \/ asked # f \/ stop)

\* Playback ends: at the last frame, or at one that cannot be read, the thread
\* does not go round for ever (player.rs: "Why playback stopped on its own").
PlaybackEnds == []<>(~playing \/ stop)
=============================================================================
