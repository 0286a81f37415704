------------------------------- MODULE Tables -------------------------------
(***************************************************************************)
(* A recorder's table of values shared by pointer (table.rs), with the     *)
(* memory it numbers: the probe's values, the snapshots in flight, what    *)
(* the application's views hold on to, and the addresses that are freed    *)
(* and reused. One table of one kind stands for the seven, which have      *)
(* nothing in common but the moment they are swept.                        *)
(*                                                                         *)
(* A value is named by the order of its allocation, so two allocations     *)
(* differ even at one address. An Arc is freed when nobody holds it.       *)
(***************************************************************************)
EXTENDS Integers, Sequences, FiniteSets, Functions

CONSTANTS
    Owners,      \* what has a value: processes, disks, adapters
    Addresses,
    SweepEvery,  \* SWEEP_EVERY
    QueueLen,    \* snapshots between the sampler and the recorder
    MaxAllocs,   \* bound: values allocated
    MaxFrames    \* bound: frames written

ASSUME OwnersAssumption == IsFiniteSet(Owners)
ASSUME SweepEveryAssumption == SweepEvery \in Nat \ {0}
ASSUME BoundsAssumption == QueueLen \in Nat /\ MaxAllocs \in Nat /\ MaxFrames \in Nat

VARIABLES
    \* memory
    heap,      \* the value at each address, also after it was freed
    allocs,
    \* who holds an Arc
    current,   \* the probe: each live owner's value
    latest,    \* the published snapshot
    queue,     \* the recorder's channel
    prev,      \* Recorder::prev
    views,     \* App::snap, Paused, and Usage's entries, those of ended processes too
    \* Writer
    ids,       \* address to id, each with a clone of the Arc
    next,
    \* the file
    table,     \* Reader::items: id to value
    frames,    \* ids written for each frame
    \* history: the values each frame was given, and what of the table the views
    \* held when it was last swept
    given, kept

memory == <<heap, allocs>>
writer == <<prev, ids, next, table, frames, given, kept>>
vars == <<memory, current, latest, queue, views, writer>>

Values == 1..MaxAllocs
PartialMaps(S, T) == UNION {[D -> T] : D \in SUBSET S}
Snapshots == PartialMaps(Owners, Addresses)

\* strong_count > 1: held by anything but the table.
Queued(q) == UNION {Range(q[i]) : i \in DOMAIN q}
HeldElsewhere ==
    Range(current) \cup Range(latest) \cup Range(prev) \cup Queued(queue) \cup views

\* Mutant: the table keeps the address but no clone of the Arc.
HeldNotByTable == HeldElsewhere

Held == HeldElsewhere \cup DOMAIN ids

TypeOK ==
    /\ heap \in [Addresses -> Values \cup {0}] /\ allocs \in 0..MaxAllocs
    /\ current \in Snapshots /\ latest \in Snapshots /\ prev \in Snapshots
    /\ queue \in Seq(Snapshots) /\ Len(queue) <= QueueLen
    /\ views \in SUBSET Addresses /\ kept \in SUBSET Addresses
    /\ next \in Nat \ {0}
    /\ ids \in PartialMaps(Addresses, 1..(next - 1))
    /\ table \in [1..(next - 1) -> Values]
    /\ frames \in Seq(PartialMaps(Owners, 1..(next - 1)))
    /\ given \in Seq(PartialMaps(Owners, Values)) /\ Len(given) = Len(frames)
    /\ \A i \in DOMAIN frames : DOMAIN frames[i] = DOMAIN given[i]

Init ==
    /\ heap = [a \in Addresses |-> 0] /\ allocs = 0
    /\ current = << >> /\ latest = << >> /\ queue = << >> /\ prev = << >>
    /\ views = {} /\ kept = {}
    /\ ids = << >> /\ next = 1
    /\ table = << >> /\ frames = << >> /\ given = << >>

-----------------------------------------------------------------------------
(* The probe and the sampler                                                *)

Without(f, x) == [y \in DOMAIN f \ {x} |-> f[y]]
With(f, x, v) == [y \in DOMAIN f \cup {x} |-> IF y = x THEN v ELSE f[y]]

\* A value that appears or changes is a new allocation, at any free address.
Allocate(o, a) ==
    /\ allocs < MaxAllocs
    /\ a \notin Held
    /\ allocs' = allocs + 1
    /\ heap' = [heap EXCEPT ![a] = allocs']
    /\ current' = With(current, o, a)
    /\ UNCHANGED <<latest, queue, views, writer>>

\* The owner is gone, and the probe lets go of its value.
Exit(o) ==
    /\ o \in DOMAIN current
    /\ current' = Without(current, o)
    /\ UNCHANGED <<memory, latest, queue, views, writer>>

\* Mutant: a snapshot is queued whatever the channel holds.
PassUnbounded ==
    /\ queue' = Append(queue, current)
    /\ latest' = current
    /\ UNCHANGED <<memory, current, views, writer>>

\* A pass: the snapshot is offered, or dropped when the channel is full, and published.
Pass ==
    /\ queue' = IF Len(queue) < QueueLen THEN Append(queue, current) ELSE queue
    /\ latest' = current
    /\ UNCHANGED <<memory, current, views, writer>>

-----------------------------------------------------------------------------
(* The views                                                                *)

\* The views take what they like of the published snapshot, which a pause or a
\* total that fades keeps for any time, and let go of what they like.
View ==
    /\ views' \in SUBSET (views \cup Range(latest))
    /\ UNCHANGED <<memory, current, latest, queue, writer>>

-----------------------------------------------------------------------------
(* The recorder                                                             *)

\* id, for every value of a snapshot: a number for each address not seen yet, in
\* some order.
Numberings(snap) ==
    LET new == Range(snap) \ DOMAIN ids
    IN Bijection(new, next..(next + Cardinality(new) - 1))

Merge(f, g) == [x \in DOMAIN f \cup DOMAIN g |-> IF x \in DOMAIN g THEN g[x] ELSE f[x]]
Restricted(f, S) == [x \in DOMAIN f \cap S |-> f[x]]

\* Mutants: a sweep empties the table; a sweep drops nothing.
SweepAll(numbered, snap) == Restricted(numbered, {})
SweepNever(numbered, snap) == numbered

\* sweep, once prev is snap.
Sweep(numbered, snap) ==
    Restricted(numbered,
        Range(current) \cup Range(latest) \cup Range(snap) \cup Queued(Tail(queue)) \cup views)

\* write_shared: the pending values, the frame, and every SweepEvery frames a sweep.
Write(numbering) ==
    LET snap == Head(queue)
        numbered == Merge(ids, numbering)
        sweeps == Len(frames') % SweepEvery = 0 IN
    /\ table' = Merge(table, [i \in Range(numbering) |->
                    heap[CHOOSE a \in DOMAIN numbering : numbering[a] = i]])
    /\ next' = next + Cardinality(DOMAIN numbering)
    /\ frames' = Append(frames, [o \in DOMAIN snap |-> numbered[snap[o]]])
    /\ given' = Append(given, [o \in DOMAIN snap |-> heap[snap[o]]])
    /\ ids' = IF sweeps THEN Sweep(numbered, snap) ELSE numbered
    /\ kept' = IF sweeps THEN views \cap DOMAIN ids' ELSE kept
    /\ prev' = snap
    /\ queue' = Tail(queue)
    /\ UNCHANGED <<memory, current, latest, views>>

Record ==
    /\ queue # << >> /\ Len(frames) < MaxFrames
    /\ \E numbering \in Numberings(Head(queue)) : Write(numbering)

Next ==
    \/ \E o \in Owners : Exit(o) \/ \E a \in Addresses : Allocate(o, a)
    \/ Pass
    \/ View
    \/ Record

Spec == Init /\ [][Next]_vars

-----------------------------------------------------------------------------
(* Properties                                                               *)

\* Every value of a frame reads back as the value the snapshot had, however its
\* address was reused before and since.
ValuesReadBack ==
    \A i \in DOMAIN frames : \A o \in DOMAIN frames[i] :
        frames[i][o] \in DOMAIN table /\ table[frames[i][o]] = given[i][o]

\* table.rs: "Arc::ptr_eq means in a replay what it means live": two frames refer
\* to one id exactly when they had one allocation.
IdentityIsKept ==
    \A i, j \in DOMAIN frames : \A o \in DOMAIN frames[i], q \in DOMAIN frames[j] :
        frames[i][o] = frames[j][q] <=> given[i][o] = given[j][q]

\* table.rs: "Entries nothing else holds any more are dropped", so that "a long
\* recording does not keep every process it ever saw": what is in the table a frame
\* since the last sweep has referred to, or a view held at that sweep. Nothing else
\* a sweep asks about, the probe's own values included, keeps a number longer.
TableIsRecent ==
    LET lastSweep == Len(frames) - (Len(frames) % SweepEvery)
    IN \A a \in DOMAIN ids :
           \/ a \in kept
           \/ \E i \in DOMAIN frames : i >= lastSweep /\ ids[a] \in Range(frames[i])
=============================================================================
