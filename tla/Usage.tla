------------------------------- MODULE Usage -------------------------------
(***************************************************************************)
(* Who has been using the CPU (ot-core/src/usage.rs): a total of cycles    *)
(* for each process, the history of what each program used and held, and   *)
(* the lineage that says which processes a stretch of it is made of.       *)
(*                                                                         *)
(* Totals fade by real-valued factors in the code.  Here nothing fades,    *)
(* which is what the bookkeeping must be right for whatever the factor; a  *)
(* ghost too small to matter is dropped at any time.  Of the six lists of  *)
(* a frame there are two: cycles, and process-time as any quantity held.   *)
(***************************************************************************)
EXTENDS Integers, FiniteSets, SequencesExt

CONSTANTS
    Processes,
    None,          \* no process
    Programs,
    Program,       \* the label each process runs under
    Early,         \* processes that were running before the session began
    RAW_FRAMES,    \* history kept sample by sample
    STEP_MIN_MS,   \* the narrowest step older history is kept in
    STEPS          \* and the most steps, which sets the width of a long history's

ASSUME UsageAssumption ==
    /\ IsFiniteSet(Processes) /\ None \notin Processes /\ Early \subseteq Processes
    /\ Program \in [Processes -> Programs]
    /\ {RAW_FRAMES, STEP_MIN_MS, STEPS} \subseteq Nat \ {0}

VARIABLES
    procs,      \* last, total and alive of the processes with a total
    seen,       \* parent, first and last of the processes remembered
    trimmed,    \* when seen was last trimmed to the reach
    now,        \* time of the newest snapshot
    begun,      \* a snapshot has been folded in
    raw_frames, \* oldest first; coarse is older than raw_frames, open between them
    coarse,
    open,       \* the step being filled with its index, or none
    faded_out,  \* cycles of the stretches that have passed the reach, by program
    unwatched   \* history variable: cycles used before anyone watched

usageVars == <<procs, seen, trimmed, now, begun, raw_frames, coarse, open, faded_out, unwatched>>

Nothing == [g \in Programs |-> 0]
Plus(f, g) == [x \in Programs |-> f[x] + g[x]]
Of(g, S) == {k \in S : Program[k] = g}

step_ms(reach) == Max({reach \div STEPS, STEP_MIN_MS})

-----------------------------------------------------------------------------
(* The history of frames                                                    *)

FrameOf(end, span, cycles, held) == [end |-> end, span |-> span, cycles |-> cycles, held |-> held]

\* Mutant: a step ends where its first frame does.
FoldedKeepsEnd(f, g) ==
    FrameOf(f.end, f.span + g.span, Plus(f.cycles, g.cycles), Plus(f.held, g.held))

\* The later of the two frames ends the step.
Folded(f, g) ==
    FrameOf(g.end, f.span + g.span, Plus(f.cycles, g.cycles), Plus(f.held, g.held))

\* close_open: the step is finished.
Closed(step) == IF step = << >> THEN << >> ELSE <<Head(step).frame>>

\* A frame leaves the raw part for the step it falls in.
LeaveRaw(h, f, width) ==
    LET index == f.end \div width IN
    IF h.open # << >> /\ Head(h.open).index = index
    THEN [h EXCEPT !.open[1].frame = Folded(@, f)]
    ELSE [coarse |-> h.coarse \o Closed(h.open), open |-> <<[index |-> index, frame |-> f]>>]

Past(f, at, reach) == at - f.end > reach

\* How many frames leave the front of a sequence that is to have at most so many.
Leaving(frames, most, at, reach) ==
    Min({n \in Max({0, Len(frames) - most})..Len(frames) :
            n < Len(frames) => ~Past(frames[n + 1], at, reach)})

\* Mutant: the step being filled goes without its cycles being kept.
FadedOutOfCoarse(gone, open_gone) == gone
\* fade_out: the cycles of what leaves the history.
FadedOut(gone, open_gone) == gone \o open_gone

\* push_frame.
PushFrame(frame, guess, reach) ==
    LET at == frame.end
        frames == Append(raw_frames, frame)
        n == Leaving(frames, RAW_FRAMES, at, reach)
        Leave(h, f) == LeaveRaw(h, f, step_ms(reach))
        left == FoldLeft(Leave, [coarse |-> coarse, open |-> open], SubSeq(frames, 1, n))
        m == Leaving(left.coarse, Len(left.coarse), at, reach)
        late == left.open # << >> /\ Past(Head(left.open).frame, at, reach)
        gone == FadedOut(SubSeq(left.coarse, 1, m), IF late THEN Closed(left.open) ELSE << >>)
        FadeOut(t, f) == Plus(t, f.cycles)
    IN /\ raw_frames' = SubSeq(frames, n + 1, Len(frames))
       /\ coarse' = SubSeq(left.coarse, m + 1, Len(left.coarse))
       /\ open' = IF late THEN << >> ELSE left.open
       /\ faded_out' = FoldLeft(FadeOut, Plus(faded_out, guess), gone)

-----------------------------------------------------------------------------
(* The lineage                                                              *)

\* see: the probe can learn the parent after first sight.
See(snap) ==
    [k \in DOMAIN seen \cup DOMAIN snap |->
        [parent |-> IF k \in DOMAIN snap THEN snap[k].parent ELSE seen[k].parent,
         first |-> IF k \in DOMAIN seen THEN seen[k].first ELSE now',
         last |-> IF k \in DOMAIN snap THEN now' ELSE seen[k].last]]

Recent(lineage, horizon) == {k \in DOMAIN lineage : lineage[k].last >= horizon}

ClosedUpward(S, lineage) == \A k \in S : lineage[k].parent \in S \cup {None}

\* Mutant: an ancestor that is gone is forgotten like anybody.
AncestryOnlyParents(S, lineage) == S \cup ({lineage[k].parent : k \in S} \cap DOMAIN lineage)

\* The processes of S and all their ancestors: the least set with S that has every
\* parent of its members among those remembered.
Ancestry(S, lineage) ==
    {k \in DOMAIN lineage : \A A \in SUBSET DOMAIN lineage :
        (S \subseteq A /\ \A a \in A : lineage[a].parent \in A \cup {None}
                                        \/ lineage[a].parent \notin DOMAIN lineage) => k \in A}

\* trim_lineage, at most once in every STEP_MIN_MS.
Trim(lineage, reach) ==
    IF now' - trimmed >= STEP_MIN_MS
    THEN /\ trimmed' = now'
         /\ seen' = [k \in Ancestry(Recent(lineage, now' - reach), lineage) |-> lineage[k]]
    ELSE trimmed' = trimmed /\ seen' = lineage

-----------------------------------------------------------------------------
(* A snapshot                                                               *)

\* Cycles since the last snapshot, or since the start of a process that started
\* while the session runs.
Used(k, snap) ==
    IF k \in DOMAIN procs THEN Max({snap[k].cycles - procs[k].last, 0})
    ELSE IF begun /\ k \notin Early THEN snap[k].cycles ELSE 0

\* guess_before, for what runs as the session begins.
Guess(k, snap) == IF begun THEN 0 ELSE snap[k].cycles

Total(k, snap) ==
    (IF k \in DOMAIN procs THEN procs[k].total ELSE Guess(k, snap)) + Used(k, snap)

UsageInit ==
    /\ procs = << >> /\ seen = << >> /\ trimmed = 0 /\ now = 0 /\ begun = FALSE
    /\ raw_frames = << >> /\ coarse = << >> /\ open = << >> /\ faded_out = Nothing
    /\ unwatched = [k \in Processes |-> 0]

\* Usage::observe, dropping some of the ghosts.
Observe(at, snap, ghosts, reach) ==
    LET span == IF begun THEN Max({at - now, 0}) ELSE 0
        running == DOMAIN snap
        used == [k \in running |-> Used(k, snap)]
        ByProgram(f) == [g \in Programs |-> SumFunctionOnSet(f, Of(g, running))]
        guess == ByProgram([k \in running |-> Guess(k, snap)])
        frame == FrameOf(at, span, ByProgram(used), ByProgram([k \in running |-> span]))
    IN /\ now' = at /\ begun' = TRUE
       /\ procs' = [k \in running \cup ghosts |->
                        IF k \in running
                        THEN [last |-> snap[k].cycles, total |-> Total(k, snap), alive |-> TRUE]
                        ELSE [procs[k] EXCEPT !.alive = FALSE]]
       /\ unwatched' = [k \in Processes |->
                            IF begun /\ k \in (Early \cap running) \ DOMAIN seen
                            THEN snap[k].cycles ELSE unwatched[k]]
       /\ Trim(See(snap), reach)
       /\ IF span > 0
          THEN PushFrame(frame, guess, reach)
          ELSE /\ faded_out' = Plus(faded_out, guess)
               /\ UNCHANGED <<raw_frames, coarse, open>>

-----------------------------------------------------------------------------
(* Reading                                                                  *)

\* frames(), newest first.
Frames == Reverse(coarse \o Closed(open) \o raw_frames)

\* seen_in: the processes of a program in any snapshot after one time up to another.
SeenIn(g, after, until) ==
    {k \in Of(g, DOMAIN seen) : seen[k].first <= until /\ seen[k].last > after}
=============================================================================
