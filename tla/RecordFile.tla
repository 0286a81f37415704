----------------------------- MODULE RecordFile -----------------------------
(***************************************************************************)
(* A recording's file: the Recorder that writes it (recorder.rs), what     *)
(* reaches the disk when writes fail or the process dies, and the          *)
(* Recording that opens and reads it (recording.rs, frame.rs, delta.rs).   *)
(*                                                                         *)
(* A file is a sequence of records; a position in it stands for an offset. *)
(* A snapshot is the processes it lists with one counter each, of Width    *)
(* values; the tables hold the facts of a process under its key. Floats    *)
(* and optional fields are carried as they are or exclusive-ORed, which a  *)
(* counter difference modulo Width stands for.                             *)
(*                                                                         *)
(* The callers are the recorder thread, which writes nothing after a       *)
(* failed write but finishes the file, and the player, which reads frames  *)
(* in any order.                                                           *)
(***************************************************************************)
EXTENDS Integers, SequencesExt, FiniteSetsExt

CONSTANTS
    Processes,  \* process keys
    Width,      \* values of a counter: 2^64 in the code
    KeyEvery,   \* Recorder::keyframe_every
    MaxFrames   \* bound: snapshots written

ASSUME WidthAssumption == Width \in Nat \ {0}
ASSUME KeyEveryAssumption == KeyEvery \in Nat \ {0}
ASSUME MaxFramesAssumption == MaxFrames \in Nat

VARIABLES
    \* Recorder
    stream,     \* the records it has put in its BufWriter, written out or not
    prev, sinceKey,
    known,      \* processes whose facts its tables have numbered
    index,
    rec,        \* open, failed (a write did), finished, dead
    \* the file: how many records of stream are whole on disk. A part of the next
    \* one may be there too.
    disk,
    \* Recording
    open,       \* closed, ok, error
    fileLen,    \* records whole on disk when it was opened
    frames,     \* Recording::frames
    readers, hadIndex,
    cache,
    result,     \* what the last read returned
    decoded,    \* frames it decoded
    \* history: the snapshots whose write succeeded
    written

recorder == <<stream, prev, sinceKey, known, index, rec, written>>
recording == <<open, fileLen, frames, readers, hadIndex, cache, result, decoded>>
vars == <<recorder, disk, recording>>

\* Options, of a snapshot or a cached frame.
None == << >>
Some(x) == <<x>>
The(option) == option[1]

Counters == 0..(Width - 1)
Snapshots == UNION {[shown -> Counters] : shown \in SUBSET Processes}

\* Records. A torn record lacks some or all of its payload.
Table(defs) == [kind |-> "table", defs |-> defs]
Frame(key, rows) == [kind |-> IF key THEN "key" ELSE "delta", rows |-> rows]
TornTable == [kind |-> "torn table"]
TornFrame(key) == [kind |-> "torn frame", key |-> key]
IndexRecord(ix) == [kind |-> "index", index |-> ix]
TornIndex == [kind |-> "torn index"]

Row(full, n) == [full |-> full, n |-> n]
Rows == [full : BOOLEAN, n : Counters]
Entry(at, key) == [at |-> at, key |-> key]

-----------------------------------------------------------------------------
(* Deltas                                                                   *)

Difference(cur, was) == (cur - was) % Width
Apply(was, d) == (was + d) % Width

\* A process the frame before lists is written as its change from there.
Encode(snap, base) ==
    [p \in DOMAIN snap |->
        IF base # None /\ p \in DOMAIN The(base)
          THEN Row(FALSE, Difference(snap[p], The(base)[p]))
          ELSE Row(TRUE, snap[p])]

\* None: the frame is corrupt.
Decode(rows, base, tables) ==
    IF \E p \in DOMAIN rows :
          \/ p \notin tables
          \/ ~rows[p].full /\ (base = None \/ p \notin DOMAIN The(base))
      THEN None
      ELSE Some([p \in DOMAIN rows |->
              IF rows[p].full THEN rows[p].n ELSE Apply(The(base)[p], rows[p].n)])

-----------------------------------------------------------------------------
Init ==
    /\ stream = << >> /\ prev = None /\ sinceKey = 0 /\ known = {}
    /\ index = [frames |-> << >>, tables |-> << >>]
    /\ rec = "open" /\ disk = 0 /\ written = << >>
    /\ open = "closed" /\ fileLen = 0 /\ frames = << >> /\ readers = {} /\ hadIndex = FALSE
    /\ cache = None /\ result = None /\ decoded = 0

(* The recorder                                                             *)

\* Mutant: one delta too many between keyframes.
IsKeyLate == prev = None \/ sinceKey > KeyEvery

IsKey == prev = None \/ sinceKey >= KeyEvery

\* The table records a frame needs, before it: none when it names nobody new.
NewTables(snap) ==
    IF DOMAIN snap \subseteq known THEN << >> ELSE <<Table(DOMAIN snap \ known)>>

\* The tables' positions are noted before their record is written.
TablesNoted(n) ==
    [index EXCEPT !.tables = @ \o [i \in 1..n |-> Len(stream) + i]]

Write(snap) ==
    /\ rec = "open" /\ Len(written) < MaxFrames
    /\ LET tables == NewTables(snap)
           at == Len(stream) + Len(tables) + 1 IN
       /\ stream' = stream \o tables \o
                      <<Frame(IsKey, Encode(snap, IF IsKey THEN None ELSE prev))>>
       /\ index' = [TablesNoted(Len(tables)) EXCEPT !.frames = Append(@, Entry(at, IsKey))]
    /\ known' = known \cup DOMAIN snap
    /\ prev' = Some(snap)
    /\ sinceKey' = IF IsKey THEN 1 ELSE sinceKey + 1
    /\ written' = Append(written, snap)
    /\ UNCHANGED <<rec, disk, recording>>

\* A write fails when the BufWriter cannot make room: what it already took of the
\* record stays in it, nothing or a torn record.
TableFails(snap) ==
    /\ rec = "open" /\ Len(written) < MaxFrames
    /\ NewTables(snap) # << >>
    /\ index' = TablesNoted(1)
    /\ known' = known \cup DOMAIN snap
    /\ \E torn \in {<< >>, <<TornTable>>} : stream' = stream \o torn
    /\ rec' = "failed"
    /\ UNCHANGED <<prev, sinceKey, written, disk, recording>>

FrameFails(snap) ==
    /\ rec = "open" /\ Len(written) < MaxFrames
    /\ index' = TablesNoted(Len(NewTables(snap)))
    /\ known' = known \cup DOMAIN snap
    /\ \E torn \in {<< >>, <<TornFrame(IsKey)>>} : stream' = stream \o NewTables(snap) \o torn
    /\ rec' = "failed"
    /\ UNCHANGED <<prev, sinceKey, written, disk, recording>>

\* The BufWriter writes out as much as it holds, or a part of it.
Flush(n) ==
    /\ rec \in {"open", "failed"}
    /\ n \in (disk + 1)..Len(stream)
    /\ disk' = n
    /\ UNCHANGED <<recorder, recording>>

\* finish, by the recorder thread or on drop, also after a failed write: all of it
\* reaches the disk, or an error goes nowhere and some of it does.
Finish ==
    /\ rec \in {"open", "failed"}
    /\ stream' = Append(stream, IndexRecord(index))
    /\ disk' = Len(stream')
    /\ rec' = "finished"
    /\ UNCHANGED <<prev, sinceKey, known, index, written, recording>>

FinishFails ==
    /\ rec \in {"open", "failed"}
    /\ stream' = Append(stream, TornIndex)
    /\ disk' \in disk..Len(stream)
    /\ rec' = "finished"
    /\ UNCHANGED <<prev, sinceKey, known, index, written, recording>>

\* The process dies: what is in the BufWriter is lost.
Die ==
    /\ rec \in {"open", "failed"}
    /\ rec' = "dead"
    /\ UNCHANGED <<stream, prev, sinceKey, known, index, written, disk, recording>>

-----------------------------------------------------------------------------
(* Opening                                                                  *)

\* The trailer names an index that can be this file's.
Plausible ==
    /\ disk > 0 /\ stream[disk].kind = "index"
    /\ LET ix == stream[disk].index IN
       /\ \A i \in DOMAIN ix.frames : ix.frames[i].at < disk
       /\ \A i, j \in DOMAIN ix.frames : i < j => ix.frames[i].at < ix.frames[j].at
       /\ \A i \in DOMAIN ix.tables : ix.tables[i] < disk
       /\ ix.frames # << >> => ix.frames[1].key

IndexedTables == {stream[disk].index.tables[i] : i \in DOMAIN stream[disk].index.tables}

TablesLoad == \A at \in IndexedTables : stream[at].kind = "table"

OpenByIndex ==
    /\ open = "closed"
    /\ Plausible /\ TablesLoad
    /\ open' = "ok"
    /\ frames' = stream[disk].index.frames
    /\ readers' = UNION {stream[at].defs : at \in IndexedTables}
    /\ fileLen' = disk
    /\ hadIndex' = TRUE
    /\ UNCHANGED <<recorder, disk, cache, result, decoded>>

IsTorn(i) == stream[i].kind \in {"torn table", "torn frame"}

\* Mutant: a record that ends where the file does counts as incomplete.
ScanEndEarly ==
    Min({disk + 1} \cup {i \in 1..disk : i = disk \/ IsTorn(i) \/ stream[i].kind = "index"})

\* scan walks whole records, up to the index or a torn one.
ScanEnd == Min({disk + 1} \cup {i \in 1..disk : IsTorn(i) \/ stream[i].kind = "index"})

\* The positions of a set, from the start of the file.
InOrder(S) ==
    CHOOSE ats \in [1..Cardinality(S) -> S] : \A k, l \in DOMAIN ats : k < l => ats[k] < ats[l]

\* The frames a scan lists: from the first keyframe on.
IsFrame(i) == stream[i].kind \in {"key", "delta"}
FirstKey(end) == Min({end} \cup {i \in 1..(end - 1) : stream[i].kind = "key"})
Scanned(end) ==
    LET ats == InOrder({i \in FirstKey(end)..(end - 1) : IsFrame(i)})
    IN [k \in DOMAIN ats |-> Entry(ats[k], stream[ats[k]].kind = "key")]

ScannedTables(end) == UNION {stream[i].defs : i \in {j \in 1..(end - 1) : stream[j].kind = "table"}}

\* A torn record claims a length. That runs past the end of the file, or, if
\* anything follows the record, may take what follows for its payload.
MayTake(kind) == \E i \in 1..disk : stream[i].kind = kind /\ i < Len(stream)

\* A torn table that takes other bytes for its payload cannot be decompressed, and
\* that is an error of open.
ScanFails ==
    /\ open = "closed"
    /\ ~(Plausible /\ TablesLoad)
    /\ MayTake("torn table")
    /\ open' = "error"
    /\ UNCHANGED <<recorder, disk, fileLen, frames, readers, hadIndex, cache, result, decoded>>

\* A torn frame that does so is one more frame, and the scan ends in what is left
\* of the index.
OpenByScan(takes) ==
    /\ open = "closed"
    /\ ~(Plausible /\ TablesLoad)
    /\ takes => MayTake("torn frame")
    /\ frames' = Scanned(ScanEnd) \o
                    IF takes THEN <<Entry(ScanEnd, stream[ScanEnd].key)>> ELSE << >>
    /\ readers' = ScannedTables(ScanEnd)
    /\ open' = "ok"
    /\ fileLen' = disk
    /\ hadIndex' = FALSE
    /\ UNCHANGED <<recorder, disk, cache, result, decoded>>

-----------------------------------------------------------------------------
(* Reading                                                                  *)

KeyBefore(i) == Max({k \in 1..i : frames[k].key})

DecodeAt(k, base) ==
    IF ~IsFrame(frames[k].at) \/ (~frames[k].key /\ base = None) THEN None
    ELSE Decode(stream[frames[k].at].rows, base, readers)

\* Frames start..i, each against the one before. Only the first can be a keyframe,
\* so an error is one of all that follow.
Run(start, i, base) ==
    LET upTo[k \in (start - 1)..i] ==
            IF k = start - 1 THEN base ELSE DecodeAt(k, upTo[k - 1])
    IN upTo[i]

\* Mutant: the cached frame is a base for any frame after it.
UsesCacheAhead(i) == cache # None /\ The(cache).at < i /\ ~frames[i].key

\* The frame after the cached one needs no keyframe.
UsesCache(i) == cache # None /\ The(cache).at + 1 = i /\ ~frames[i].key

IsCached(i) == cache # None /\ The(cache).at = i

ReadCached(i) ==
    /\ open = "ok" /\ i \in DOMAIN frames
    /\ IsCached(i)
    /\ result' = Some([at |-> i, snap |-> Some(The(cache).snap)])
    /\ decoded' = 0
    /\ UNCHANGED <<recorder, disk, open, fileLen, frames, readers, hadIndex, cache>>

Read(i) ==
    /\ open = "ok" /\ i \in DOMAIN frames
    /\ ~IsCached(i)
    /\ LET start == IF UsesCache(i) THEN i ELSE KeyBefore(i)
           snap == Run(start, i, IF UsesCache(i) THEN Some(The(cache).snap) ELSE None) IN
       /\ result' = Some([at |-> i, snap |-> snap])
       /\ cache' = IF snap = None THEN cache ELSE Some([at |-> i, snap |-> The(snap)])
       /\ decoded' = i - start + 1
    /\ UNCHANGED <<recorder, disk, open, fileLen, frames, readers, hadIndex>>

-----------------------------------------------------------------------------
Closed == rec \in {"finished", "dead"} /\ open # "closed" /\ UNCHANGED vars

Next ==
    \/ \E snap \in Snapshots : Write(snap) \/ TableFails(snap) \/ FrameFails(snap)
    \/ \E n \in 1..Len(stream) : Flush(n)
    \/ Finish \/ FinishFails \/ Die
    \/ OpenByIndex \/ ScanFails \/ \E takes \in BOOLEAN : OpenByScan(takes)
    \/ \E i \in DOMAIN frames : ReadCached(i) \/ Read(i)
    \/ Closed

Spec == Init /\ [][Next]_vars

-----------------------------------------------------------------------------
(* Properties                                                               *)

\* Among the ranges, recorder.rs of the keyframe interval: it "bounds the work of a
\* seek at this many frames".
TypeOK ==
    /\ prev = None \/ The(prev) \in Snapshots
    /\ sinceKey \in 0..KeyEvery
    /\ known \subseteq Processes /\ readers \subseteq Processes
    /\ rec \in {"open", "failed", "finished", "dead"}
    /\ disk \in 0..Len(stream)
    /\ decoded \in 0..KeyEvery
    /\ open \in {"closed", "ok", "error"} /\ hadIndex \in BOOLEAN
    /\ \A i \in DOMAIN frames : frames[i].at \in 1..fileLen
    /\ \A i \in DOMAIN written : written[i] \in Snapshots

\* The frame that was torn and takes other bytes for its payload.
Torn(i) == stream[frames[i].at].kind = "torn frame"

\* Whatever failed and in whatever order frames are read, a read returns the
\* snapshot that was written; only a torn frame returns an error.
ReadsWhatWasWritten ==
    result # None =>
        The(result).snap = IF Torn(The(result).at) THEN None
                           ELSE Some(written[The(result).at])

\* A finished file lists every frame that was written, and one that was cut short
\* every one that is whole on disk (recording.rs: "with every complete frame").
ListsEveryWholeFrame ==
    open = "ok" => \A i \in 1..Len(index.frames) :
        index.frames[i].at <= fileLen
            => i \in DOMAIN frames /\ frames[i] = index.frames[i]

\* recording.rs: "A file without its index [...] opens fine, with every complete
\* frame"; record.rs: after an error "the file is finished as far as it got".
AlwaysOpens == written # << >> => open # "error"
=============================================================================
