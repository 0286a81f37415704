---------------------------- MODULE RecordingLog ----------------------------
(***************************************************************************)
(* What a recording promises the owner of a Sampler, with no queue and no  *)
(* writer thread: a log of consecutive ticks with counted gaps.            *)
(*                                                                         *)
(* While a recording is open each tick it is offered directly follows the  *)
(* one before; it is either appended to the log or counted as lost. Once   *)
(* closed the log never grows, and the report states its length and the    *)
(* number of lost ticks exactly. A recording whose disk fails keeps a      *)
(* prefix of its log, never a report that claims success.                  *)
(***************************************************************************)
EXTENDS Naturals, Sequences, SequencesExt

CONSTANTS Recordings, MaxTick

VARIABLES
    phase,   \* "new", "open", "closed", "reported"
    log,     \* the ticks recorded
    lost,    \* how many offered ticks were not
    last,    \* the last tick offered, 0 before the first
    broken,  \* the disk failed
    report   \* what the owner is told

vars == <<phase, log, lost, last, broken, report>>

Init ==
    /\ phase = [r \in Recordings |-> "new"]
    /\ log = [r \in Recordings |-> <<>>]
    /\ lost = [r \in Recordings |-> 0]
    /\ last = [r \in Recordings |-> 0]
    /\ broken = [r \in Recordings |-> FALSE]
    /\ report = [r \in Recordings |-> [kind |-> "none"]]

Start(r) ==
    /\ phase[r] = "new"
    /\ phase' = [phase EXCEPT ![r] = "open"]
    /\ UNCHANGED <<log, lost, last, broken, report>>

\* A tick arrives: the next one after the last, or any if it is the first.
Arrives(r, t) ==
    /\ phase[r] = "open"
    /\ last[r] = 0 \/ t = last[r] + 1
    /\ last' = [last EXCEPT ![r] = t]

Keep(r, t) ==
    /\ Arrives(r, t)
    /\ ~broken[r]
    /\ log' = [log EXCEPT ![r] = Append(@, t)]
    /\ UNCHANGED <<phase, lost, broken, report>>

Lose(r, t) ==
    /\ Arrives(r, t)
    /\ lost' = [lost EXCEPT ![r] = @ + 1]
    /\ UNCHANGED <<phase, log, broken, report>>

\* After the disk failed nobody counts any more.
Vanish(r, t) ==
    /\ Arrives(r, t)
    /\ broken[r]
    /\ UNCHANGED <<phase, log, lost, broken, report>>

Break(r) ==
    /\ phase[r] \in {"open", "closed"}
    /\ ~broken[r]
    /\ broken' = [broken EXCEPT ![r] = TRUE]
    /\ \E kept \in Prefixes(log[r]) : log' = [log EXCEPT ![r] = kept]
    /\ UNCHANGED <<phase, lost, last, report>>

Close(r) ==
    /\ phase[r] = "open"
    /\ phase' = [phase EXCEPT ![r] = "closed"]
    /\ UNCHANGED <<log, lost, last, broken, report>>

Report(r) ==
    /\ phase[r] = "closed"
    /\ phase' = [phase EXCEPT ![r] = "reported"]
    /\ \/ /\ ~broken[r]
          /\ report' = [report EXCEPT ![r] =
                [kind |-> "ok", frames |-> Len(log[r]), dropped |-> lost[r]]]
       \/ report' = [report EXCEPT ![r] = [kind |-> "err"]]
    /\ UNCHANGED <<log, lost, last, broken>>

Next ==
    \E r \in Recordings :
        \/ Start(r) \/ Break(r) \/ Close(r) \/ Report(r)
        \/ \E t \in 1..MaxTick : Keep(r, t) \/ Lose(r, t) \/ Vanish(r, t)

Spec == Init /\ [][Next]_vars
=============================================================================
