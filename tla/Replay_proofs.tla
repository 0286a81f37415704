---------------------------- MODULE Replay_proofs ----------------------------
(***************************************************************************)
(* What a replay promises, for a recording of any length with any frames   *)
(* unreadable and any number of calls: the latest request wins, the clock  *)
(* of playback is never stale, and the view does not miss a frame.         *)
(*                                                                         *)
(* Each speaks of moments when the thread waits or nothing runs. IInv says *)
(* what holds on the way there: where the frame last asked for is while    *)
(* the thread takes it, decodes it and publishes it in two stores, and     *)
(* what the view may still lack once the flag that would fetch it is down. *)
(***************************************************************************)
EXTENDS Replay, TLAPS

\* The frame of a publish, before and between its two stores.
PublishInv ==
    /\ tpc \in {"load", "position", "notify", "fail"} => target \in Frames
    /\ tpc = "position" => current = target
    /\ tpc # "position" => current = position
    /\ tpc = "notify" => position = target

\* A request is pending, on its way, or on show; a thread that waits has none.
RequestInv ==
    /\ seek # NoFrame => asked = seek /\ tpc \notin {"wait", "waitDue"}
    /\ asked # NoFrame /\ seek = NoFrame =>
          IF tpc \in {"load", "position", "fail"} THEN target = asked
          ELSE position = asked
    /\ upc = "step" => Len # 0

\* With the flag down, what changed since the drain is still to be read.
ViewInv ==
    ~flag /\ tpc \notin {"position", "notify"} =>
        /\ shell # "latest" => shown = current
        /\ shell = "playing" => barRead = position
        /\ shell = "idle" => bar.position = position

IInv ==
    TypeOK /\ PublishInv /\ RequestInv /\ AnchorDescribesPlayback /\ ViewInv

USE LenAssumption, MaxCallsAssumption DEF LenAssumption, MaxCallsAssumption

-----------------------------------------------------------------------------

\* The invariant holds at the beginning.
LEMMA InitInv == Init => IInv
<1> SUFFICES ASSUME Init PROVE IInv OBVIOUS
<1> USE DEF Init, PInit, NoFrame
<1>1. TypeOK
    <2>1. /\ 0 \in Frames \cup {0} /\ NoFrame \in FrameOption /\ 1 \in Steps
          /\ 0 \in 0 .. MaxCalls
        BY DEF FrameOption, Steps
    <2>2. bad \in SUBSET Frames OBVIOUS
    <2>3. PTypeOK BY <2>1, <2>2 DEF PTypeOK
    <2>4. bar \in [position : Frames \cup {0}, playing : BOOLEAN] BY <2>1
    <2> QED BY <2>1, <2>3, <2>4 DEF TypeOK
<1>2. PublishInv /\ RequestInv BY DEF PublishInv, RequestInv
<1>3. AnchorDescribesPlayback BY DEF AnchorDescribesPlayback
<1>4. ViewInv BY DEF ViewInv
<1> QED BY <1>1, <1>2, <1>3, <1>4 DEF IInv

\* What clamp returns is a frame of the recording, unless the recording is empty.
LEMMA ClampIsFrame ==
    ASSUME NEW i \in Int, Len # 0
    PROVE  Clamp(i) \in Frames
BY DEF Clamp, Frames

-----------------------------------------------------------------------------
(* The player thread                                                        *)

\* The thread's steps that neither load nor publish keep the invariant.
LEMMA LookInv ==
    ASSUME IInv, UNCHANGED view,
           LookStops \/ LookSeeks \/ LookPaused \/ LookEnds \/ LookNotDue
             \/ LookDue \/ FrameDue \/ SpuriousWake
    PROVE  IInv'
<1> USE DEF IInv, view, control, published, thread, caller, NoFrame
<1> USE DEF LookStops, LookSeeks, LookPaused, LookEnds, LookNotDue, LookDue,
            LookPlays, FrameDue, SpuriousWake
<1>1. TypeOK'
    <2>1. playing' \in BOOLEAN BY DEF TypeOK, PTypeOK
    <2>2. /\ seek' \in FrameOption /\ anchor' \in FrameOption
          /\ target' \in FrameOption /\ asked' \in FrameOption
        BY DEF TypeOK, PTypeOK, FrameOption, Frames
    <2>3. tpc' \in {"look", "wait", "waitDue", "load", "done"} OBVIOUS
    <2>4. PTypeOK' BY <2>1, <2>2, <2>3 DEF TypeOK, PTypeOK
    <2> QED BY <2>4 DEF TypeOK
<1>2. PublishInv'
    BY DEF PublishInv, TypeOK, PTypeOK, FrameOption, Frames
<1>3. RequestInv' BY DEF RequestInv
<1>4. AnchorDescribesPlayback'
    BY DEF AnchorDescribesPlayback, TypeOK, PTypeOK, Frames
<1>5. ViewInv' BY DEF ViewInv
<1> QED BY <1>1, <1>2, <1>3, <1>4, <1>5

\* Load keeps the invariant.
LEMMA LoadInv == ASSUME IInv, UNCHANGED view, Load PROVE IInv'
<1> USE DEF IInv, view, control, caller, Load
<1>1. TypeOK' BY DEF TypeOK, PTypeOK, PublishInv, published
<1>2. PublishInv' BY DEF PublishInv, published
<1>3. RequestInv' BY DEF RequestInv, published
<1>4. AnchorDescribesPlayback' BY DEF AnchorDescribesPlayback, published
<1>5. ViewInv' BY DEF ViewInv, published
<1> QED BY <1>1, <1>2, <1>3, <1>4, <1>5

\* StorePosition keeps the invariant.
LEMMA StorePositionInv == ASSUME IInv, UNCHANGED view, StorePosition PROVE IInv'
<1> USE DEF IInv, view, control, caller, StorePosition
<1>1. TypeOK'
    <2>1. error' \in BOOLEAN /\ position' \in Frames BY DEF PublishInv
    <2>2. PTypeOK' BY <2>1 DEF TypeOK, PTypeOK
    <2> QED BY <2>2 DEF TypeOK
<1>2. PublishInv' BY DEF PublishInv
<1>3. RequestInv' BY DEF RequestInv
<1>4. AnchorDescribesPlayback'
    BY DEF AnchorDescribesPlayback, TypeOK, PTypeOK, FrameOption, Frames, NoFrame
<1>5. ViewInv' BY DEF ViewInv
<1> QED BY <1>1, <1>2, <1>3, <1>4, <1>5

\* Publishing keeps the invariant.
LEMMA PublishStep == ASSUME IInv, Publish PROVE IInv'
<1> USE DEF IInv, Publish, Notify, control, published, caller
<1>1. TypeOK' BY DEF TypeOK, PTypeOK, FrameOption
<1>2. PublishInv' BY DEF PublishInv
<1>3. RequestInv' BY DEF RequestInv, PublishInv
<1>4. AnchorDescribesPlayback' BY DEF AnchorDescribesPlayback
<1>5. ViewInv' BY DEF ViewInv
<1> QED BY <1>1, <1>2, <1>3, <1>4, <1>5

\* Fail keeps the invariant.
LEMMA FailInv == ASSUME IInv, UNCHANGED view, Fail PROVE IInv'
<1> USE DEF IInv, view, caller, Fail
<1>1. TypeOK'
    <2>1. error' \in BOOLEAN /\ playing' \in BOOLEAN OBVIOUS
    <2>2. NoFrame \in FrameOption BY DEF FrameOption
    <2>3. PTypeOK' BY <2>1, <2>2 DEF TypeOK, PTypeOK
    <2> QED BY <2>3 DEF TypeOK
<1>2. PublishInv' BY DEF PublishInv
<1>3. RequestInv' BY DEF RequestInv
<1>4. AnchorDescribesPlayback' BY DEF AnchorDescribesPlayback
<1>5. ViewInv' BY DEF ViewInv
<1> QED BY <1>1, <1>2, <1>3, <1>4, <1>5

-----------------------------------------------------------------------------
(* The calls                                                                *)

\* A notification moves the thread only when it waits, and then back to looking.
LEMMA WokenIs ==
    ASSUME IInv
    PROVE  /\ Woken \notin {"wait", "waitDue"}
           /\ Woken = tpc \/ (tpc \in {"wait", "waitDue"} /\ Woken = "look")
BY DEF Woken

\* What a call may do to the thread's view of things: ask for a frame, or not,
\* and let go of the anchor.
LEMMA CallInv ==
    ASSUME IInv, UNCHANGED view, UNCHANGED <<published, target, bad>>,
           tpc' \in {tpc, Woken}, TypeOK',
           \/ seek' # NoFrame /\ asked' = seek' /\ tpc' = Woken
           \/ UNCHANGED <<seek, asked>>,
           anchor' = NoFrame \/ UNCHANGED <<anchor, playing, seek>>,
           upc' = "step" => Len # 0
    PROVE  IInv'
<1> USE DEF IInv, view, published
<1>1. /\ tpc' = tpc \/ (tpc \in {"wait", "waitDue"} /\ tpc' = "look")
      /\ tpc' = Woken => tpc' \notin {"wait", "waitDue"}
    BY WokenIs
<1>2. PublishInv' BY <1>1 DEF PublishInv
<1>3. RequestInv' BY <1>1 DEF RequestInv
<1>4. AnchorDescribesPlayback' BY <1>1 DEF AnchorDescribesPlayback
<1>5. ViewInv' BY <1>1 DEF ViewInv
<1> QED BY <1>2, <1>3, <1>4, <1>5

\* The calls of the bar keep the invariant.
LEMMA CallsInv == ASSUME IInv, UNCHANGED view, Calls PROVE IInv'
<1> USE DEF IInv, view, control, published, thread
<1> USE DEF TypeOK, PTypeOK, FrameOption
<1>1. Woken \in {"look", "wait", "waitDue", "load", "position", "notify",
                 "fail", "done"}
    BY DEF Woken
<1>2. ASSUME Arrives PROVE calls' \in 0 .. MaxCalls
    BY <1>2 DEF Arrives
<1>3. CASE Toggle BY <1>2, <1>3, CallInv DEF Toggle
<1>4. CASE ToggleActs
    <2>1. CASE PauseLocked
        <3>1. /\ playing' = FALSE /\ anchor' = NoFrame
              /\ UNCHANGED <<seek, stop, tpc, asked>>
            BY <2>1 DEF PauseLocked
        <3>2. playing' \in BOOLEAN /\ anchor' \in FrameOption BY <3>1
        <3>3. TypeOK' BY <1>4, <3>1, <3>2 DEF ToggleActs
        <3> QED BY <1>4, <3>1, <3>3, CallInv DEF ToggleActs
    <2>2. CASE PlayLocked /\ Len < 2
        <3>1. UNCHANGED <<control, tpc, asked>> BY <2>2 DEF PlayLocked
        <3>2. TypeOK' BY <1>4, <3>1 DEF ToggleActs
        <3> QED BY <1>4, <3>1, <3>2, CallInv DEF ToggleActs
    <2>3. CASE PlayLocked /\ Len >= 2
        <3>1. 0 \in Frames BY <2>3 DEF Frames
        <3>2. /\ \/ seek' = 0 /\ asked' = 0
                 \/ UNCHANGED <<seek, asked>>
              /\ playing' = TRUE /\ anchor' = NoFrame /\ tpc' = Woken
              /\ UNCHANGED stop
            BY <2>3 DEF PlayLocked
        <3>3. TypeOK' BY <1>1, <1>4, <3>1, <3>2 DEF ToggleActs
        <3> QED BY <1>4, <3>2, <3>3, CallInv DEF ToggleActs, NoFrame
    <2> QED BY <1>4, <2>1, <2>2, <2>3 DEF ToggleActs
<1>5. CASE \E i \in 0 .. Len : Seek(i)
    <2>1. PICK i \in 0 .. Len : Seek(i) BY <1>5
    <2>2. Arrives /\ Clamp(i) \in Frames BY <2>1, ClampIsFrame DEF Seek
    <2>3. TypeOK' BY <1>1, <1>2, <2>1, <2>2 DEF Seek
    <2> QED BY <2>1, <2>2, <2>3, CallInv DEF Seek, Frames, NoFrame
<1>6. CASE \E n \in Steps : Step(n)
    BY <1>2, <1>6, CallInv DEF Step
<1>7. CASE StepActs
    <2>1. upc = "step" /\ seek' = Clamp(read + by) BY <1>7 DEF StepActs
    <2>2. Clamp(read + by) \in Frames
        <3>1. read + by \in Int BY DEF Frames, Steps
        <3> QED BY <2>1, <3>1, ClampIsFrame DEF RequestInv
    <2>3. playing' \in BOOLEAN /\ seek' \in FrameOption
          /\ asked' \in FrameOption /\ anchor' \in FrameOption
        BY <1>7, <2>1, <2>2 DEF StepActs
    <2>4. tpc' = Woken /\ upc' = "returned"
          /\ UNCHANGED <<stop, published, target, read, by, wasPlaying, calls,
                         bad>>
        BY <1>7 DEF StepActs
    <2>5. PTypeOK' BY <1>1, <2>3, <2>4
    <2>6. TypeOK' BY <2>5
    <2> QED BY <1>7, <2>1, <2>2, <2>6, CallInv DEF StepActs, Frames, NoFrame
<1>8. CASE SetSpeed BY <1>1, <1>2, <1>8, CallInv DEF SetSpeed
<1>9. CASE Stop BY <1>1, <1>9, CallInv DEF Stop
<1>10. CASE Join BY <1>10, CallInv DEF Join
<1> QED BY <1>3, <1>4, <1>5, <1>6, <1>7, <1>8, <1>9, <1>10 DEF Calls

-----------------------------------------------------------------------------
(* The shell                                                                *)

\* The shell's steps keep the invariant.
LEMMA ShellInv == ASSUME IInv, ShellSteps PROVE IInv'
<1> USE DEF IInv, pvars, control, published, thread, caller
<1>1. CASE Drain
    <2> USE <1>1 DEF Drain
    <2>1. TypeOK'
        <3>1. flag' \in BOOLEAN OBVIOUS
        <3>2. PTypeOK' BY DEF TypeOK, PTypeOK
        <3> QED BY <3>1, <3>2 DEF TypeOK
    <2>2. PublishInv' /\ RequestInv' BY DEF PublishInv, RequestInv
    <2>3. AnchorDescribesPlayback' BY DEF AnchorDescribesPlayback
    <2>4. ViewInv' BY DEF ViewInv
    <2> QED BY <2>1, <2>2, <2>3, <2>4
<1>2. CASE TakeLatest
    <2> USE <1>2 DEF TakeLatest
    <2>1. TypeOK' BY DEF TypeOK, PTypeOK
    <2>2. PublishInv' /\ RequestInv' BY DEF PublishInv, RequestInv
    <2>3. AnchorDescribesPlayback' BY DEF AnchorDescribesPlayback
    <2>4. ViewInv' BY DEF ViewInv
    <2> QED BY <2>1, <2>2, <2>3, <2>4
<1>3. CASE ReadPosition
    <2> USE <1>3 DEF ReadPosition
    <2>1. TypeOK' BY DEF TypeOK, PTypeOK
    <2>2. PublishInv' /\ RequestInv' BY DEF PublishInv, RequestInv
    <2>3. AnchorDescribesPlayback' BY DEF AnchorDescribesPlayback
    <2>4. ViewInv' BY DEF ViewInv
    <2> QED BY <2>1, <2>2, <2>3, <2>4
<1>4. CASE SetReplay
    <2> USE <1>4 DEF SetReplay
    <2>1. TypeOK' BY DEF TypeOK, PTypeOK
    <2>2. PublishInv' /\ RequestInv' BY DEF PublishInv, RequestInv
    <2>3. AnchorDescribesPlayback' BY DEF AnchorDescribesPlayback
    <2>4. ViewInv' BY DEF ViewInv, TypeOK
    <2> QED BY <2>1, <2>2, <2>3, <2>4
<1> QED BY <1>1, <1>2, <1>3, <1>4 DEF ShellSteps

\* A stutter keeps the invariant.
LEMMA StutterInv == ASSUME IInv, UNCHANGED vars PROVE IInv'
<1> USE DEF IInv, vars, view, pvars, control, published, thread, caller
<1>1. TypeOK' BY DEF TypeOK, PTypeOK
<1>2. PublishInv' /\ RequestInv' BY DEF PublishInv, RequestInv
<1>3. AnchorDescribesPlayback' /\ ViewInv'
    BY DEF AnchorDescribesPlayback, ViewInv
<1> QED BY <1>1, <1>2, <1>3

\* No step gives the invariant up.
LEMMA NextInv == IInv /\ [Next]_vars => IInv'
<1> SUFFICES ASSUME IInv, [Next]_vars PROVE IInv' OBVIOUS
<1>1. CASE Publish BY <1>1, PublishStep
<1>2. CASE PlayerThread /\ ~Notify /\ UNCHANGED view
    BY <1>2, LookInv, LoadInv, StorePositionInv, FailInv DEF PlayerThread
<1>3. CASE SpuriousWake /\ UNCHANGED view BY <1>3, LookInv
<1>4. CASE Press BY <1>4, CallsInv DEF Press
<1>5. CASE ShellSteps BY <1>5, ShellInv
<1>6. CASE Terminated \/ UNCHANGED vars BY <1>6, StutterInv DEF Terminated
<1> QED BY <1>1, <1>2, <1>3, <1>4, <1>5, <1>6 DEF Next, Thread

\* It always holds.
LEMMA Invariance == Spec => []IInv
BY InitInv, NextInv, PTL DEF Spec

-----------------------------------------------------------------------------
(* What a replay promises, with no fairness.                                *)

\* Every variable has its type: what is asked for, decoded and shown is always
\* a frame of the recording (Player::seek and step clamp).
THEOREM TypeCorrect == Spec => []TypeOK
<1>1. IInv => TypeOK BY DEF IInv
<1> QED BY <1>1, Invariance, PTL

\* A thread that waits shows exactly the frame last asked for, whatever was
\* being decoded when the call came (player.rs run, Player::seek, step).
THEOREM LatestWins == Spec => []LatestRequestWins
<1>1. IInv => LatestRequestWins
    BY DEF IInv, RequestInv, PublishInv, LatestRequestWins
<1> QED BY <1>1, Invariance, PTL

\* Playback is timed from a frame it really played from (player.rs run, and
\* every call that lets go of the anchor).
THEOREM AnchorIsFresh == Spec => []AnchorDescribesPlayback
<1>1. IInv => AnchorDescribesPlayback BY DEF IInv
<1> QED BY <1>1, Invariance, PTL

\* When nothing runs and no flag is up the view shows the published frame and
\* the bar its position (Shell::drain, on_snapshot, replay_state).
THEOREM NoLostFrame == Spec => []SettledViewIsCurrent
<1>1. IInv => SettledViewIsCurrent
    BY DEF IInv, ViewInv, PublishInv, SettledViewIsCurrent
<1> QED BY <1>1, Invariance, PTL
=============================================================================
