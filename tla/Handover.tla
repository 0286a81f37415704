------------------------------ MODULE Handover ------------------------------
(***************************************************************************)
(* One window for Task Manager's stand-in (ot-shell-win, instance.rs): a   *)
(* process Windows starts in Task Manager's place brings forward a window  *)
(* that is already open, or opens its own.  The processes share nothing    *)
(* but a named mutex, the window class and the raise message, so every     *)
(* step below interleaves with those of the others.                        *)
(*                                                                         *)
(* A plain launch appears here when it marks itself, at the top of run.    *)
(* An answer reaches the stand-in in the step that gives it; a stand-in    *)
(* that stopped waiting for one has left its message behind.               *)
(***************************************************************************)
EXTENDS Naturals, FiniteSets

CONSTANTS
    Procs,      \* the processes; each is launched at most once
    StandIns,   \* those Windows starts in Task Manager's place
    NoProc,
    Patience    \* the looks PATIENCE leaves a stand-in after the first

ASSUME ProcsAssumption == NoProc \notin Procs /\ StandIns \subseteq Procs
ASSUME PatienceAssumption == Patience \in Nat

VARIABLES
    pc,         \* where each process is
    looks,      \* the looks its patience leaves it
    asked,      \* the process whose window it last chose to ask
    inbox,      \* the raise messages each window has not handled: their senders
    window,     \* each process's window
    closing,    \* whether the shell is closing it (anything but Closing::No)
    front,      \* the process with the foreground window, if it is one of these
    calm        \* history: no window hid, closed, failed or was given up on

vars == <<pc, looks, asked, inbox, window, closing, front, calm>>

Waits == {"waiting", "found", "asking"}
Windowed == {"setup", "created", "open", "ending"}
Places == {"off", "gone", "failed"} \cup Waits \cup Windowed

(* The mutex is held from a process's mark to its end.                     *)
Marked == {p \in Procs : pc[p] \in Waits \cup Windowed}

(* The loop that handles messages runs and the window is there to get one. *)
Up(w) == pc[w] = "open"

Init ==
    /\ pc = [p \in Procs |-> "off"]
    /\ looks = [p \in Procs |-> Patience]
    /\ asked = [p \in Procs |-> NoProc]
    /\ inbox = [p \in Procs |-> {}]
    /\ window = [p \in Procs |-> "none"]
    /\ closing = [p \in Procs |-> FALSE]
    /\ front = NoProc
    /\ calm = TRUE

-----------------------------------------------------------------------------
(* Launching, and the stand-in's wait *)

Launch(p) ==
    /\ p \notin StandIns
    /\ pc[p] = "off"
    /\ pc' = [pc EXCEPT ![p] = "setup"]
    /\ UNCHANGED <<looks, asked, inbox, window, closing, front, calm>>

(* A plausible slip: the stand-in marks itself only once it has a window.  *)
PressUnmarked(p) ==
    /\ p \in StandIns
    /\ pc[p] = "off"
    /\ pc' = [pc EXCEPT ![p] =
                IF \A w \in Procs : window[w] = "none" THEN "setup" ELSE "waiting"]
    /\ UNCHANGED <<looks, asked, inbox, window, closing, front, calm>>

(* mark says whether another process was marked; if so, wait for it.       *)
Press(p) ==
    /\ p \in StandIns
    /\ pc[p] = "off"
    /\ pc' = [pc EXCEPT ![p] = IF Marked = {} THEN "setup" ELSE "waiting"]
    /\ UNCHANGED <<looks, asked, inbox, window, closing, front, calm>>

Windows == {w \in Procs : window[w] # "none"}

(* FindWindowW gives one window of the class, shown or not.                *)
Found(p) ==
    /\ pc[p] = "waiting"
    /\ \E w \in Windows :
          /\ window[w] = "visible"
          /\ asked' = [asked EXCEPT ![p] = w]
    /\ pc' = [pc EXCEPT ![p] = "found"]
    /\ UNCHANGED <<looks, inbox, window, closing, front, calm>>

(* A plausible slip: no deadline.                                          *)
NotFoundNoDeadline(p) ==
    /\ pc[p] = "waiting"
    /\ (Windows = {} \/ \E w \in Windows : window[w] # "visible")
    /\ looks' = [looks EXCEPT ![p] = @ - 1]
    /\ UNCHANGED <<pc, asked, inbox, window, closing, front, calm>>

NotFound(p) ==
    /\ pc[p] = "waiting"
    /\ (Windows = {} \/ \E w \in Windows : window[w] # "visible")
    /\ IF looks[p] > 0
       THEN /\ looks' = [looks EXCEPT ![p] = looks[p] - 1]
            /\ UNCHANGED <<pc, calm>>
       ELSE /\ pc' = [pc EXCEPT ![p] = "setup"]
            /\ calm' = FALSE
            /\ UNCHANGED looks
    /\ UNCHANGED <<asked, inbox, window, closing, front>>

(* The window may have gone since it was found: then the call fails.       *)
Send(p) ==
    /\ pc[p] = "found"
    /\ IF window[asked[p]] = "none"
       THEN pc' = [pc EXCEPT ![p] = "setup"] /\ calm' = FALSE /\ UNCHANGED inbox
       ELSE /\ pc' = [pc EXCEPT ![p] = "asking"]
            /\ inbox' = [inbox EXCEPT ![asked[p]] = @ \cup {p}]
            /\ UNCHANGED calm
    /\ UNCHANGED <<looks, asked, window, closing, front>>

(* ANSWER_MS passed, or the window looks hung: the message stays behind.   *)
TimeOut(p) ==
    /\ pc[p] = "asking"
    /\ pc' = [pc EXCEPT ![p] = "setup"]
    /\ calm' = FALSE
    /\ UNCHANGED <<looks, asked, inbox, window, closing, front>>

-----------------------------------------------------------------------------
(* The raise message, where it arrives *)

Asks(p, w) == pc[p] = "asking" /\ asked[p] = w

(* A plausible slip: the handler does not ask whether the window closes.   *)
RaiseEvenClosing(w, p) ==
    /\ Up(w) /\ p \in inbox[w]
    /\ inbox' = [inbox EXCEPT ![w] = @ \ {p}]
    /\ window' = [window EXCEPT ![w] = "visible"]
    /\ IF Asks(p, w)
       THEN pc' = [pc EXCEPT ![p] = "gone"] /\ front' = w
       ELSE front' \in {w, front} /\ UNCHANGED pc
    /\ UNCHANGED <<looks, asked, closing, calm>>

(* The window shows itself, restored or unhidden. The sender handed on its *)
(* right to the foreground; one that stopped waiting may have used it.     *)
Raise(w, p) ==
    /\ Up(w) /\ p \in inbox[w]
    /\ ~closing[w]
    /\ inbox' = [inbox EXCEPT ![w] = @ \ {p}]
    /\ window' = [window EXCEPT ![w] = "visible"]
    /\ IF Asks(p, w)
       THEN pc' = [pc EXCEPT ![p] = "gone"] /\ front' = w
       ELSE front' \in {w, front} /\ UNCHANGED pc
    /\ UNCHANGED <<looks, asked, closing, calm>>

Refuse(w, p) ==
    /\ Up(w) /\ p \in inbox[w]
    /\ closing[w]
    /\ inbox' = [inbox EXCEPT ![w] = @ \ {p}]
    /\ pc' = IF Asks(p, w) THEN [pc EXCEPT ![p] = "setup"] ELSE pc
    /\ UNCHANGED <<looks, asked, window, closing, front, calm>>

-----------------------------------------------------------------------------
(* A process's own window *)

Create(p) ==
    /\ pc[p] = "setup"
    /\ pc' = [pc EXCEPT ![p] = "created"]
    /\ window' = [window EXCEPT ![p] = "hidden"]
    /\ UNCHANGED <<looks, asked, inbox, closing, front, calm>>

Show(p) ==
    /\ pc[p] = "created"
    /\ pc' = [pc EXCEPT ![p] = "open"]
    /\ window' = [window EXCEPT ![p] = "visible"]
    /\ front' = p
    /\ UNCHANGED <<looks, asked, inbox, closing, calm>>

(* Any of run's early returns, which take the window with them.            *)
Fail(p) ==
    /\ pc[p] \in {"setup", "created"}
    /\ pc' = [pc EXCEPT ![p] = "failed"]
    /\ window' = [window EXCEPT ![p] = "none"]
    /\ calm' = FALSE
    /\ UNCHANGED <<looks, asked, inbox, closing, front>>

Leaves(w) == IF front = w THEN NoProc ELSE front

(* Minimized with "Hide when minimized" on; without it, a minimized window *)
(* stays visible to IsWindowVisible and only leaves the foreground.        *)
Minimize(w) ==
    /\ Up(w) /\ window[w] = "visible"
    /\ front' = Leaves(w)
    /\ \/ /\ ~closing[w]
          /\ window' = [window EXCEPT ![w] = "hidden"]
          /\ calm' = FALSE
       \/ front = w /\ UNCHANGED <<window, calm>>
    /\ UNCHANGED <<pc, looks, asked, inbox, closing>>

(* A click on the tray icon, which close takes down.                       *)
ShowFromTray(w) ==
    /\ Up(w) /\ window[w] = "hidden" /\ ~closing[w]
    /\ window' = [window EXCEPT ![w] = "visible"]
    /\ front' = w
    /\ UNCHANGED <<pc, looks, asked, inbox, closing, calm>>

(* An elevated copy starts, or the session ends: the close is posted.      *)
BeginClosing(w) ==
    /\ Up(w) /\ ~closing[w]
    /\ closing' = [closing EXCEPT ![w] = TRUE]
    /\ calm' = FALSE
    /\ UNCHANGED <<pc, looks, asked, inbox, window, front>>

(* Closed with an update to install: hidden until Setup ends the process.  *)
HideToInstall(w) ==
    /\ Up(w) /\ ~closing[w]
    /\ closing' = [closing EXCEPT ![w] = TRUE]
    /\ window' = [window EXCEPT ![w] = "hidden"]
    /\ front' = Leaves(w)
    /\ calm' = FALSE
    /\ UNCHANGED <<pc, looks, asked, inbox>>

(* DestroyWindow fails every call still waiting on the window's answer.    *)
Destroy(w) ==
    /\ Up(w)
    /\ pc' = [p \in Procs |-> IF p = w THEN "ending"
                              ELSE IF Asks(p, w) THEN "setup" ELSE pc[p]]
    /\ inbox' = [inbox EXCEPT ![w] = {}]
    /\ window' = [window EXCEPT ![w] = "none"]
    /\ front' = Leaves(w)
    /\ calm' = FALSE
    /\ UNCHANGED <<looks, asked, closing>>

(* The feed is stopped and the process ends, which drops the mark.         *)
End(w) ==
    /\ pc[w] = "ending"
    /\ pc' = [pc EXCEPT ![w] = "gone"]
    /\ UNCHANGED <<looks, asked, inbox, window, closing, front,
                   calm>>

-----------------------------------------------------------------------------
Answer(p) == TimeOut(p) \/ \E w \in Procs : Raise(w, p) \/ Refuse(w, p)

Look(p) == Found(p) \/ NotFound(p)

Next ==
    \E p \in Procs :
        \/ Launch(p) \/ Press(p)
        \/ Look(p) \/ Send(p) \/ Answer(p)
        \/ Create(p) \/ Show(p) \/ Fail(p)
        \/ Minimize(p) \/ ShowFromTray(p)
        \/ BeginClosing(p) \/ HideToInstall(p) \/ Destroy(p) \/ End(p)

(* Programs run: a stand-in's loop turns, its call ends with an answer or  *)
(* at the timeout, and a start-up goes on to the window or fails.  Nothing *)
(* is assumed of the user, nor that an open window handles its messages.   *)
HandoverFairness ==
    \A p \in Procs :
        /\ WF_vars(Look(p)) /\ WF_vars(Send(p)) /\ WF_vars(Answer(p))
        /\ WF_vars(Create(p) \/ Fail(p)) /\ WF_vars(Show(p) \/ Fail(p))

HandoverSpec == Init /\ [][Next]_vars

HandoverFairSpec == HandoverSpec /\ HandoverFairness

-----------------------------------------------------------------------------
(* Every process is at a place run or raise_existing has, with a window    *)
(* only where there is one and no more looks left than PATIENCE allows.    *)
TypeOK ==
    /\ pc \in [Procs -> Places]
    /\ looks \in [Procs -> 0 .. Patience]
    /\ asked \in [Procs -> Procs \cup {NoProc}]
    /\ inbox \in [Procs -> SUBSET Procs]
    /\ window \in [Procs -> {"none", "hidden", "visible"}]
    /\ closing \in [Procs -> BOOLEAN]
    /\ front \in Procs \cup {NoProc}
    /\ calm \in BOOLEAN

(* However many presses of Ctrl+Shift+Esc overlap, they open one window    *)
(* between them, as Task Manager would: two stand-ins have a window only   *)
(* when some window hid, closed, failed or kept a stand-in waiting.        *)
OnePressOneWindow ==
    calm => \A p, q \in StandIns :
        pc[p] \in Windowed /\ pc[q] \in Windowed
            => p = q

(* Every press ends with a window in front that is there to stay: the one  *)
(* the stand-in asked, or its own. Whatever the window it found was doing, *)
(* starting, hiding, closing or hanging, the key is never swallowed; only  *)
(* a start-up that fails shows nothing.                                    *)
Came(p) ==
    \E w \in Procs :
        /\ w = front /\ window[w] = "visible" /\ ~closing[w]
        /\ \/ w = p
           \/ w = asked[p] /\ pc[p] = "gone"

EveryPressIsAnswered ==
    \A p \in StandIns :
        (pc[p] \in Waits \cup {"setup"})
            ~> (Came(p) \/ pc[p] = "failed")
=============================================================================
