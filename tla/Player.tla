------------------------------- MODULE Player -------------------------------
(***************************************************************************)
(* Replaying a recording (player.rs): the player thread, which decodes and *)
(* publishes frames, and the calls the UI thread makes on a Player.        *)
(*                                                                         *)
(* Everything under the Control mutex is one step. What is outside it is a *)
(* step of its own: the position a step call reads before it locks, the    *)
(* frame the thread decodes after it unlocks, the two stores that publish  *)
(* it. Wall time is abstracted: a frame that is next may be due or not.    *)
(* Speed only sets how soon a frame is due, so set_speed re-anchors and    *)
(* nothing else.                                                           *)
(***************************************************************************)
EXTENDS Integers, FiniteSets

CONSTANTS
    Len,       \* frames in the recording
    MaxCalls   \* bound: calls the UI makes

ASSUME LenAssumption == Len \in Nat
ASSUME MaxCallsAssumption == MaxCalls \in Nat

VARIABLES
    \* Control, under its mutex
    playing, seek, stop,
    anchor,     \* the frame on show when play was last anchored
    \* Shared
    current,    \* the published frame
    position,   \* the index published after it
    error,      \* whether Shared::error holds a message
    \* the player thread
    tpc, target,
    \* the caller
    upc,
    read,       \* the position the step in progress read
    by,         \* its argument
    wasPlaying, \* what the toggle in progress read as playing
    calls,
    \* the recording: frames that cannot be decoded
    bad,
    \* history: the frame last asked for by seek, step or a restart, while the
    \* player has not moved on from it by itself
    asked

control == <<playing, seek, stop, anchor>>
published == <<current, position, error>>
thread == <<tpc, target>>
caller == <<upc, read, by, wasPlaying, calls>>
pvars == <<control, published, thread, caller, bad, asked>>

NoFrame == -1
Frames == 0..(Len - 1)
FrameOption == Frames \cup {NoFrame}
Steps == {-1, 1}

\* Mutant: one past the last frame is let through.
ClampOffByOne(i) == IF i < 0 THEN 0 ELSE IF i > Len THEN Len ELSE i

Clamp(i) == IF i < 0 THEN 0 ELSE IF i > Len - 1 THEN Len - 1 ELSE i

PTypeOK ==
    /\ playing \in BOOLEAN /\ stop \in BOOLEAN /\ error \in BOOLEAN
    /\ seek \in FrameOption /\ anchor \in FrameOption /\ asked \in FrameOption
    /\ current \in Frames \cup {0} /\ position \in Frames \cup {0}
    /\ tpc \in {"look", "wait", "waitDue", "load", "position", "notify", "fail", "done"}
    /\ target \in FrameOption
    /\ upc \in {"ready", "toggle", "step", "returned", "join", "stopped"}
    /\ read \in Frames \cup {0} /\ wasPlaying \in BOOLEAN
    /\ by \in Steps /\ calls \in 0..MaxCalls
    /\ bad \in SUBSET Frames

\* The first frame is decoded before the thread starts, or the file is not opened.
PInit ==
    /\ playing = FALSE /\ seek = NoFrame /\ stop = FALSE /\ anchor = NoFrame
    /\ current = 0 /\ position = 0 /\ error = FALSE
    /\ tpc = "look" /\ target = NoFrame
    /\ upc = "ready" /\ read = 0 /\ by = 1 /\ wasPlaying = FALSE /\ calls = 0
    /\ bad \in SUBSET (Frames \ {0})
    /\ asked = NoFrame

\* notify_all: a thread that waits looks at the controls again.
Woken == IF tpc \in {"wait", "waitDue"} THEN "look" ELSE tpc

-----------------------------------------------------------------------------
(* The player thread                                                        *)

LookStops ==
    /\ tpc = "look" /\ stop
    /\ tpc' = "done"
    /\ UNCHANGED <<control, published, target, caller, bad, asked>>

LookSeeks ==
    /\ tpc = "look" /\ ~stop
    /\ seek # NoFrame
    /\ target' = seek
    /\ seek' = NoFrame
    /\ tpc' = "load"
    /\ UNCHANGED <<playing, stop, anchor, published, caller, bad, asked>>

LookPaused ==
    /\ tpc = "look" /\ ~stop /\ seek = NoFrame
    /\ ~playing
    /\ tpc' = "wait"
    /\ UNCHANGED <<control, published, target, caller, bad, asked>>

\* Past the last frame playback ends, and the thread waits, in one lock.
LookEnds ==
    /\ tpc = "look" /\ ~stop /\ seek = NoFrame
    /\ playing
    /\ position + 1 >= Len
    /\ playing' = FALSE
    /\ anchor' = NoFrame
    /\ tpc' = "wait"
    /\ UNCHANGED <<seek, stop, published, target, caller, bad, asked>>

\* Playing, with a next frame: anchored here if it was not.
LookPlays ==
    /\ tpc = "look" /\ ~stop /\ seek = NoFrame
    /\ playing
    /\ position + 1 < Len
    /\ anchor' = IF anchor = NoFrame THEN position ELSE anchor
    /\ UNCHANGED <<playing, seek, stop, published, caller, bad>>

LookNotDue ==
    /\ LookPlays
    /\ tpc' = "waitDue"
    /\ UNCHANGED <<target, asked>>

LookDue ==
    /\ LookPlays
    /\ target' = position + 1
    /\ tpc' = "load"
    /\ asked' = NoFrame

\* wait_timeout ends.
FrameDue ==
    /\ tpc = "waitDue"
    /\ tpc' = "look"
    /\ UNCHANGED <<control, published, target, caller, bad, asked>>

\* Mutant: the position is published before the frame.
LoadPublishesPosition ==
    /\ tpc = "load"
    /\ IF target \in bad
         THEN tpc' = "fail" /\ UNCHANGED published
         ELSE /\ tpc' = "notify"
              /\ position' = target
              /\ UNCHANGED <<current, error>>
    /\ UNCHANGED <<control, target, caller, bad, asked>>

\* The frame is decoded outside the lock, and published if it can be.
Load ==
    /\ tpc = "load"
    /\ IF target \in bad
         THEN tpc' = "fail" /\ UNCHANGED current
         ELSE tpc' = "position" /\ current' = target
    /\ UNCHANGED <<control, position, error, target, caller, bad, asked>>

StorePosition ==
    /\ tpc = "position"
    /\ position' = target
    /\ error' = FALSE
    /\ tpc' = "notify"
    /\ UNCHANGED <<control, current, target, caller, bad, asked>>

Notify ==
    /\ tpc = "notify"
    /\ tpc' = "look"
    /\ target' = NoFrame
    /\ UNCHANGED <<control, published, caller, bad, asked>>

\* Mutant: a frame that cannot be read leaves playback on.
FailKeepsPlaying ==
    /\ tpc = "fail"
    /\ error' = TRUE
    /\ target' = NoFrame
    /\ tpc' = "look"
    /\ asked' = NoFrame
    /\ UNCHANGED <<control, current, position, caller, bad>>

\* A frame that cannot be read stops playback, also one that play() started
\* while it was being decoded. A seek that came in the meantime stays.
Fail ==
    /\ tpc = "fail"
    /\ error' = TRUE
    /\ playing' = FALSE
    /\ anchor' = NoFrame
    /\ target' = NoFrame
    /\ tpc' = "look"
    /\ asked' = IF seek = NoFrame THEN NoFrame ELSE asked
    /\ UNCHANGED <<seek, stop, current, position, caller, bad>>

PlayerThread ==
    \/ LookStops \/ LookSeeks \/ LookPaused \/ LookEnds \/ LookNotDue \/ LookDue \/ FrameDue
    \/ Load \/ StorePosition \/ Notify \/ Fail

\* A condition variable may wake for no reason.
SpuriousWake ==
    /\ tpc = "wait"
    /\ tpc' = "look"
    /\ UNCHANGED <<control, published, target, caller, bad, asked>>

-----------------------------------------------------------------------------
(* The calls                                                                *)

\* A call arrives on the UI thread.
Arrives ==
    /\ upc = "ready"
    /\ calls < MaxCalls
    /\ calls' = calls + 1

\* play: nothing to play below two frames; at the last frame, unless a seek is
\* pending, it starts over.
PlayLocked ==
    IF Len < 2 THEN UNCHANGED <<control, tpc, asked>>
    ELSE LET restarts == position + 1 >= Len /\ seek = NoFrame IN
         /\ seek' = IF restarts THEN 0 ELSE seek
         /\ asked' = IF restarts THEN 0 ELSE asked
         /\ playing' = TRUE
         /\ anchor' = NoFrame
         /\ tpc' = Woken
         /\ UNCHANGED stop

\* pause wakes nobody: the thread finds out when it next looks.
PauseLocked ==
    /\ playing' = FALSE
    /\ anchor' = NoFrame
    /\ UNCHANGED <<seek, stop, tpc, asked>>

\* toggle looks at playing in one lock and acts in another.
Toggle ==
    /\ Arrives
    /\ wasPlaying' = playing
    /\ upc' = "toggle"
    /\ UNCHANGED <<control, published, thread, read, by, bad, asked>>

ToggleActs ==
    /\ upc = "toggle"
    /\ IF wasPlaying THEN PauseLocked ELSE PlayLocked
    /\ upc' = "returned"
    /\ UNCHANGED <<published, target, read, by, wasPlaying, calls, bad>>

\* Mutants: a seek that wakes nobody; one that keeps the old anchor.
SeekQuietly(i) ==
    /\ Arrives
    /\ Len # 0
    /\ seek' = Clamp(i)
    /\ asked' = Clamp(i)
    /\ anchor' = NoFrame
    /\ upc' = "returned"
    /\ UNCHANGED <<playing, stop, published, thread, read, by, wasPlaying, bad>>

SeekKeepsAnchor(i) ==
    /\ Arrives
    /\ Len # 0
    /\ seek' = Clamp(i)
    /\ asked' = Clamp(i)
    /\ tpc' = Woken
    /\ upc' = "returned"
    /\ UNCHANGED <<playing, stop, anchor, published, target, read, by, wasPlaying, bad>>

\* seek: the latest wins; playing or not stays as it is.
Seek(i) ==
    /\ Arrives
    /\ Len # 0
    /\ seek' = Clamp(i)
    /\ asked' = Clamp(i)
    /\ anchor' = NoFrame
    /\ tpc' = Woken
    /\ upc' = "returned"
    /\ UNCHANGED <<playing, stop, published, target, read, by, wasPlaying, bad>>

\* step computes its target from the position before it takes the lock.
Step(n) ==
    /\ Arrives
    /\ Len # 0
    /\ by' = n
    /\ read' = position
    /\ upc' = "step"
    /\ UNCHANGED <<control, published, thread, wasPlaying, bad, asked>>

StepActs ==
    /\ upc = "step"
    /\ playing' = FALSE
    /\ seek' = Clamp(read + by)
    /\ asked' = seek'
    /\ anchor' = NoFrame
    /\ tpc' = Woken
    /\ upc' = "returned"
    /\ UNCHANGED <<stop, published, target, read, by, wasPlaying, calls, bad>>

SetSpeed ==
    /\ Arrives
    /\ anchor' = NoFrame
    /\ tpc' = Woken
    /\ upc' = "returned"
    /\ UNCHANGED <<playing, seek, stop, published, target, read, by, wasPlaying, bad, asked>>

\* stop, on drop too: the flag and the wake-up, then the join.
Stop ==
    /\ upc = "ready"
    /\ stop' = TRUE
    /\ tpc' = Woken
    /\ upc' = "join"
    /\ UNCHANGED <<playing, seek, anchor, published, target, read, by, wasPlaying, calls, bad, asked>>

Join ==
    /\ upc = "join"
    /\ tpc = "done"
    /\ upc' = "stopped"
    /\ UNCHANGED <<control, published, thread, read, by, wasPlaying, calls, bad, asked>>

Calls ==
    \/ Toggle \/ ToggleActs \/ StepActs \/ SetSpeed
    \/ \E i \in 0..Len : Seek(i)
    \/ \E n \in Steps : Step(n)
    \/ Stop \/ Join
=============================================================================
