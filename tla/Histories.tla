----------------------------- MODULE Histories -----------------------------
(***************************************************************************)
(* The two histories a view keeps (ot-ui/src/view.rs): every new snapshot  *)
(* goes to the timeline and to the usage, and one setting says how far     *)
(* back both reach.  Around them, the machine the snapshots are taken of.  *)
(*                                                                         *)
(* Snapshots come in the order they were taken, as a sampler gives them.   *)
(***************************************************************************)
EXTENDS Timeline, Usage

CONSTANTS
    Spawner,       \* who started each process
    Rate,          \* cycles each process uses in an interval
    Reaches,       \* the reaches a user may choose
    Start,         \* time of the first snapshot
    Steps,         \* how long an interval may be
    \* Bounds
    MaxSnapshots,
    MaxChoices

ASSUME HistoriesAssumption ==
    /\ Spawner \in [Processes -> Processes \cup {None}] /\ Rate \in [Processes -> Nat]
    /\ Reaches \subseteq Nat /\ \A r \in Reaches : r >= STEP_MIN_MS
    /\ Start \in Nat /\ Steps \subseteq Nat \ {0} /\ \A d \in Steps : d < Start
    /\ MaxSnapshots \in Nat /\ MaxChoices \in Nat

VARIABLES
    running,  \* the processes that run, with their cycles and parents
    used,     \* cycles of every process there has been
    ended,    \* processes that have exited
    reach,    \* the setting
    tick,     \* snapshots so far
    choices   \* how often the setting was changed

machine == <<running, used, ended>>
vars == <<timelineVars, usageVars, machine, reach, tick, choices>>

Init ==
    /\ \E r \in Reaches : reach = r /\ TimelineInit(r)
    /\ UsageInit
    /\ running = << >> /\ used = [k \in Processes |-> IF k \in Early THEN 1 ELSE 0]
    /\ ended = {} /\ tick = 0 /\ choices = 0

\* Resolved while the parent runs, and then kept.
ParentOf(k, now_running) ==
    IF k \in DOMAIN running /\ running[k].parent # None THEN running[k].parent
    ELSE IF Spawner[k] \in now_running THEN Spawner[k] ELSE None

\* App::set_snapshot: a new snapshot of what runs to the timeline, which leaves the
\* first one out, and to the usage.
SetSnapshot(interval, now_running, ghosts) ==
    LET at == IF tick = 0 THEN Start ELSE now + interval
        cycles == [k \in Processes |-> used[k] + (IF k \in now_running THEN Rate[k] ELSE 0)]
        snap == [k \in now_running |-> [cycles |-> cycles[k], parent |-> ParentOf(k, now_running)]]
    IN /\ tick < MaxSnapshots
       /\ tick' = tick + 1
       /\ running' = snap /\ used' = cycles
       /\ ended' = ended \cup (DOMAIN running \ now_running)
       /\ IF tick = 0 THEN UNCHANGED timelineVars ELSE Chart(at, interval, reach)
       /\ Observe(at, snap, ghosts, reach)
       /\ UNCHANGED <<reach, choices>>

\* apply_settings, with another reach.
ApplySettings(r) ==
    /\ r # reach /\ choices < MaxChoices /\ tick > 0
    /\ choices' = choices + 1 /\ reach' = r
    /\ Retain(r, now)
    /\ UNCHANGED <<usageVars, machine, tick>>

Done == tick = MaxSnapshots /\ UNCHANGED vars

\* What may run next: nobody comes back, and who starts was started by somebody.
MayRun ==
    IF tick = 0 THEN SUBSET Early
    ELSE {S \in SUBSET (Processes \ ended) :
            \A k \in S \ (DOMAIN running \cup Early) : Spawner[k] \in DOMAIN running \cup {None}}

\* Ghosts too small to matter go, all of them or none.
Next ==
    \/ \E interval \in Steps, now_running \in MayRun :
        \E ghosts \in {{}, DOMAIN procs \ now_running} :
            SetSnapshot(interval, now_running, ghosts)
    \/ \E r \in Reaches : ApplySettings(r)
    \/ Done

Spec == Init /\ [][Next]_vars

-----------------------------------------------------------------------------
(* Properties                                                               *)

\* Types; and no history is longer than it may be.
TypeOK ==
    /\ TimelineTypeOK
    /\ DOMAIN procs \subseteq Processes /\ DOMAIN seen \subseteq Processes
    /\ \A k \in DOMAIN seen : seen[k].first <= seen[k].last /\ seen[k].last <= now
    /\ trimmed <= now /\ Len(raw_frames) <= RAW_FRAMES /\ Len(open) <= 1
    /\ \A i \in DOMAIN Frames : Frames[i].span > 0 /\ Frames[i].cycles \in [Programs -> Nat]
    /\ faded_out \in [Programs -> Nat]

\* usage.rs, frames(): "No stretch is covered twice", and none is left out: through
\* the steps being filled, closed and dropped, and through changes of their width,
\* each frame begins where the next older one ends.
FramesTile ==
    LET f == Frames IN
    /\ f # << >> => Head(f).end = now
    /\ \A i \in 1..(Len(f) - 1) : f[i].end - f[i].span = f[i + 1].end

\* usage.rs, faded_out: a sum run over the frames from the faded-out totals "comes to
\* the totals": what each process used while watched is in its total once, and in the
\* chart once, in a frame or in what has faded out, the processes since dropped included.
ChartComesToTotals ==
    LET Watched(k) == used[k] - unwatched[k]
        Known(k) == k \in DOMAIN running \cup ended
        Charted(g) == LET Cycles(f) == f.cycles[g]
                          Add(n, f) == n + f.cycles[g]
                      IN FoldLeft(Add, faded_out[g], Frames)
    IN /\ \A k \in DOMAIN procs : procs[k].total = Watched(k)
       /\ \A g \in Programs :
            Charted(g) = SumFunctionOnSet([k \in Processes |-> Watched(k)], {k \in Of(g, Processes) : Known(k)})

\* usage.rs, trim_lineage: whoever is remembered has its whole line of ancestors
\* remembered too, "so no chain is cut short", up to those whose parent nobody found;
\* and whoever runs is remembered.
LineageIsWhole ==
    /\ ClosedUpward(DOMAIN seen, seen)
    /\ DOMAIN running \subseteq DOMAIN seen
=============================================================================
