------------------------------- MODULE Sampler -------------------------------
(***************************************************************************)
(* The sampling thread of ot-core, its publication slot, and a recording   *)
(* of what it publishes (sampler.rs, record.rs).                           *)
(*                                                                         *)
(* Three kinds of thread run concurrently:                                 *)
(*   - the sampler thread (`run` in sampler.rs): take a pass, offer the    *)
(*     snapshot to the sink it loaded, publish it, notify, sleep;          *)
(*   - the owner of the Sampler (the UI thread): record_to, stop_recording *)
(*     and stop, each a sequence of steps on shared state;                 *)
(*   - one writer thread per recording (`run` in record.rs).               *)
(*                                                                         *)
(* A snapshot is its tick. A step is one access to shared state: an atomic *)
(* load or store, an operation under a mutex, a channel operation, a join. *)
(* Time (the cadence of the passes) is abstracted: the sleep ends.         *)
(***************************************************************************)
EXTENDS Integers, Sequences, FiniteSets, SequencesExt

CONSTANTS
    Recordings,   \* the recordings the owner may start; each has one writer thread
    NoRecording,  \* None, where the code has an Option of a sink or a writer
    QUEUE,        \* capacity of the channel to the writer, record.rs QUEUE
    MaxTick,      \* bound: passes that succeed
    MaxErrors     \* bound: consecutive passes that fail

ASSUME NoRecordingAssumption == NoRecording \notin Recordings
ASSUME QueueAssumption == QUEUE \in Nat \ {0}
ASSUME BoundsAssumption == MaxTick \in Nat /\ MaxErrors \in Nat

VARIABLES
    \* Shared, in sampler.rs
    current,   \* tick of the published snapshot; 0 is Snapshot::default()
    stop,      \* the stop flag
    errors,    \* consecutive_errors; -1 stands for u64::MAX (unsupported)
    sink,      \* the recording whose Sink published snapshots also go to
    \* the sampler thread
    spc,       \* where it is
    tick,      \* tick of the last pass that succeeded
    loaded,    \* the sink loaded in this pass
    \* the owner's thread
    upc,       \* where it is
    op,        \* the call in progress: "record_to", "stop_recording", "stop"
    recording, \* the Mutex<Option<Writer>>
    taken,     \* the Writer stop_recording took out, or record_to spawned
    seen,      \* the dropped count finish_inner read
    \* per recording: the Sink, the channel and the writer thread
    open,      \* tx is Some
    queue,     \* the channel
    dropped,   \* Sink::dropped
    frames,    \* Sink::frames
    failed,    \* Sink::failed
    wpc,       \* where the writer thread is
    held,      \* <<snapshot>> received and not yet written, or <<>>
    file,      \* the frames in the file
    wresult,   \* what the writer thread returned: "none", "ok", "err"
    result,    \* what finish returned to the owner
    \* history
    offered    \* every tick an open Sink was offered, in order

shared == <<current, stop, errors, sink>>
sampler == <<spc, tick, loaded>>
owner == <<upc, op, recording, taken, seen>>
channel == <<open, queue, dropped>>
writer == <<frames, failed, wpc, held, file, wresult>>
vars == <<shared, sampler, owner, channel, writer, result, offered>>

Ticks == 1..MaxTick
Option == Recordings \cup {NoRecording}
Unsupported == -1
NoResult == [kind |-> "none"]
Results == {NoResult, [kind |-> "err"]}
             \cup [kind : {"ok"}, frames : Nat, dropped : Nat]

TypeOK ==
    /\ current \in 0..MaxTick
    /\ stop \in BOOLEAN
    /\ errors \in -1..MaxErrors
    /\ sink \in Option
    /\ spc \in {"check", "probe", "load", "offer", "publish", "notify",
                "sleep", "idle", "done"}
    /\ tick \in 0..MaxTick
    /\ loaded \in Option
    /\ upc \in {"ready", "take", "clear", "close", "count", "join", "spawn",
                "store", "keep", "flag", "joinSampler", "stopped"}
    /\ op \in {"none", "record_to", "stop_recording", "stop"}
    /\ recording \in Option
    /\ taken \in Option
    /\ seen \in Nat
    /\ open \in [Recordings -> BOOLEAN]
    /\ queue \in [Recordings -> Seq(Ticks)]
    /\ \A r \in Recordings : Len(queue[r]) <= QUEUE
    /\ dropped \in [Recordings -> Nat]
    /\ frames \in [Recordings -> Nat]
    /\ failed \in [Recordings -> BOOLEAN]
    /\ wpc \in [Recordings -> {"none", "receive", "write", "stats", "finish",
                               "abort", "done"}]
    /\ held \in [Recordings -> Seq(Ticks)]
    /\ file \in [Recordings -> Seq(Ticks)]
    /\ wresult \in [Recordings -> {"none", "ok", "err"}]
    /\ result \in [Recordings -> Results]
    /\ offered \in [Recordings -> Seq(Ticks)]

Init ==
    /\ current = 0 /\ stop = FALSE /\ errors = 0 /\ sink = NoRecording
    /\ spc = "check" /\ tick = 0 /\ loaded = NoRecording
    /\ upc = "ready" /\ op = "none" /\ recording = NoRecording
    /\ taken = NoRecording /\ seen = 0
    /\ open = [r \in Recordings |-> FALSE]
    /\ queue = [r \in Recordings |-> <<>>]
    /\ dropped = [r \in Recordings |-> 0]
    /\ frames = [r \in Recordings |-> 0]
    /\ failed = [r \in Recordings |-> FALSE]
    /\ wpc = [r \in Recordings |-> "none"]
    /\ held = [r \in Recordings |-> <<>>]
    /\ file = [r \in Recordings |-> <<>>]
    /\ wresult = [r \in Recordings |-> "none"]
    /\ result = [r \in Recordings |-> NoResult]
    /\ offered = [r \in Recordings |-> <<>>]

-----------------------------------------------------------------------------
(* The sampler thread                                                      *)

\* while !stop: the loop's head.
CheckStop ==
    /\ spc = "check"
    /\ spc' = IF stop THEN "done" ELSE "probe"
    /\ UNCHANGED <<shared, tick, loaded, owner, channel, writer, result, offered>>

\* A pass succeeds: the next tick, a clean error count, a snapshot built.
PassOk ==
    /\ spc = "probe"
    /\ tick < MaxTick
    /\ tick' = tick + 1
    /\ errors' = 0
    /\ spc' = "load"
    /\ UNCHANGED <<current, stop, sink, loaded, owner, channel, writer, result, offered>>

\* A pass fails: counted, nothing published, the loop goes on.
PassFails ==
    /\ spc = "probe"
    /\ errors < MaxErrors
    /\ errors' = errors + 1
    /\ spc' = "sleep"
    /\ UNCHANGED <<current, stop, sink, tick, loaded, owner, channel, writer, result, offered>>

\* No probe for this platform: it idles until stopped and never samples again.
PassUnsupported ==
    /\ spc = "probe"
    /\ errors' = Unsupported
    /\ spc' = "idle"
    /\ UNCHANGED <<current, stop, sink, tick, loaded, owner, channel, writer, result, offered>>

IdleUntilStopped ==
    /\ spc = "idle"
    /\ stop
    /\ spc' = "done"
    /\ UNCHANGED <<shared, tick, loaded, owner, channel, writer, result, offered>>

\* The sink is loaded once per pass; the owner may change it right after.
LoadSink ==
    /\ spc = "load"
    /\ loaded' = sink
    /\ spc' = IF sink = NoRecording THEN "publish" ELSE "offer"
    /\ UNCHANGED <<shared, tick, owner, channel, writer, result, offered>>

\* Sink::offer runs under the tx mutex; what try_send does is a parameter.
OfferWith(trySend) ==
    /\ spc = "offer"
    /\ spc' = "publish"
    /\ loaded' = NoRecording
    /\ IF open[loaded]
         THEN /\ offered' = [offered EXCEPT ![loaded] = Append(@, tick)]
              /\ trySend
         ELSE UNCHANGED <<queue, dropped, offered>>
    /\ UNCHANGED <<shared, tick, owner, open, writer, result>>

\* The receiver is gone: the snapshot is, too, and nobody counts it.
Disconnected ==
    /\ wpc[loaded] = "done"
    /\ UNCHANGED <<queue, dropped>>

Queued(capacity) ==
    /\ wpc[loaded] # "done"
    /\ Len(queue[loaded]) < capacity
    /\ queue' = [queue EXCEPT ![loaded] = Append(@, tick)]
    /\ UNCHANGED dropped

\* The channel is full: dropped and counted.
Full ==
    /\ wpc[loaded] # "done"
    /\ Len(queue[loaded]) >= QUEUE
    /\ dropped' = [dropped EXCEPT ![loaded] = @ + 1]
    /\ UNCHANGED queue

\* Mutants: a send that waits for room; a full channel not counted; a channel
\* that takes one more than its capacity.
OfferWaits == OfferWith(Disconnected \/ Queued(QUEUE))
OfferDropsSilently ==
    OfferWith(Disconnected \/ Queued(QUEUE)
                \/ (Len(queue[loaded]) >= QUEUE /\ UNCHANGED <<queue, dropped>>))
OfferOneTooMany == OfferWith(Disconnected \/ Queued(QUEUE + 1) \/ Full)

Offer == OfferWith(Disconnected \/ Queued(QUEUE) \/ Full)

Publish ==
    /\ spc = "publish"
    /\ current' = tick
    /\ spc' = "notify"
    /\ UNCHANGED <<stop, errors, sink, tick, loaded, owner, channel, writer, result, offered>>

\* The callback after each publish; what it wakes is not part of this module.
Notify ==
    /\ spc = "notify"
    /\ spc' = "sleep"
    /\ UNCHANGED <<shared, tick, loaded, owner, channel, writer, result, offered>>

\* The deadline passed or stop was seen; either way the loop's head is next.
Sleep ==
    /\ spc = "sleep"
    /\ spc' = "check"
    /\ UNCHANGED <<shared, tick, loaded, owner, channel, writer, result, offered>>

SamplerThread ==
    \/ CheckStop \/ PassOk \/ PassFails \/ PassUnsupported \/ IdleUntilStopped
    \/ LoadSink \/ Offer \/ Publish \/ Notify \/ Sleep

-----------------------------------------------------------------------------
(* The owner: record_to, stop_recording and stop. record_to and stop begin  *)
(* with the whole of stop_recording.                                        *)

AfterStopRecording ==
    CASE op = "record_to" -> "spawn"
      [] op = "stop" -> "flag"
      [] OTHER -> "ready"

\* A call arrives. A record_to brings a Recorder on a file of its own.
Call(call) ==
    /\ upc = "ready"
    /\ call = "record_to" => \E r \in Recordings : wpc[r] = "none"
    /\ op' = call
    /\ upc' = "take"
    /\ UNCHANGED <<shared, sampler, recording, taken, seen, channel, writer, result, offered>>

\* stop_recording: take the writer out of the mutex; None is an early return.
TakeWriter ==
    /\ upc = "take"
    /\ taken' = recording
    /\ recording' = NoRecording
    /\ upc' = IF recording = NoRecording THEN AfterStopRecording ELSE "clear"
    /\ UNCHANGED <<shared, sampler, op, seen, channel, writer, result, offered>>

\* shared.sink.store(None). A pass that loaded the sink before still offers to it.
ClearSink ==
    /\ upc = "clear"
    /\ sink' = NoRecording
    /\ upc' = "close"
    /\ UNCHANGED <<current, stop, errors, sampler, op, recording, taken, seen, channel, writer, result, offered>>

\* Mutant: the sender is not taken, only forgotten by the owner.
CloseSinkKeepsSender ==
    /\ upc = "close"
    /\ upc' = "count"
    /\ UNCHANGED <<shared, sampler, op, recording, taken, seen, channel, writer, result, offered>>

\* Sink::close takes the sender; the receiver ends once the queue is drained.
CloseSink ==
    /\ upc = "close"
    /\ open' = [open EXCEPT ![taken] = FALSE]
    /\ upc' = "count"
    /\ UNCHANGED <<shared, sampler, op, recording, taken, seen, queue, dropped, writer, result, offered>>

\* finish_inner reads the dropped count, after the close.
ReadDropped ==
    /\ upc = "count"
    /\ seen' = dropped[taken]
    /\ upc' = "join"
    /\ UNCHANGED <<shared, sampler, op, recording, taken, channel, writer, result, offered>>

\* finish_inner joins the writer thread and builds what the caller gets.
JoinWriter ==
    /\ upc = "join"
    /\ wpc[taken] = "done"
    /\ result' = [result EXCEPT ![taken] =
          IF wresult[taken] = "ok"
            THEN [kind |-> "ok", frames |-> Len(file[taken]), dropped |-> seen]
            ELSE [kind |-> "err"]]
    /\ taken' = NoRecording
    /\ seen' = 0
    /\ upc' = AfterStopRecording
    /\ UNCHANGED <<shared, sampler, op, recording, channel, writer, offered>>

\* Writer::spawn: an open sink, an empty channel, a writer thread.
SpawnWriter ==
    /\ upc = "spawn"
    /\ \E r \in Recordings :
         /\ wpc[r] = "none"
         /\ taken' = r
         /\ open' = [open EXCEPT ![r] = TRUE]
         /\ wpc' = [wpc EXCEPT ![r] = "receive"]
    /\ upc' = "store"
    /\ UNCHANGED <<shared, sampler, op, recording, seen, queue, dropped,
                   frames, failed, held, file, wresult, result, offered>>

\* shared.sink.store(Some(..)): the next pass that loads it offers to it.
StoreSink ==
    /\ upc = "store"
    /\ sink' = taken
    /\ upc' = "keep"
    /\ UNCHANGED <<current, stop, errors, sampler, op, recording, taken, seen, channel, writer, result, offered>>

\* The writer goes into the mutex and record_to returns.
KeepWriter ==
    /\ upc = "keep"
    /\ recording' = taken
    /\ taken' = NoRecording
    /\ upc' = "ready"
    /\ UNCHANGED <<shared, sampler, op, seen, channel, writer, result, offered>>

\* stop: the flag, then the join of the sampler thread.
SetStop ==
    /\ upc = "flag"
    /\ stop' = TRUE
    /\ upc' = "joinSampler"
    /\ UNCHANGED <<current, errors, sink, sampler, op, recording, taken, seen, channel, writer, result, offered>>

JoinSampler ==
    /\ upc = "joinSampler"
    /\ spc = "done"
    /\ upc' = "stopped"
    /\ UNCHANGED <<shared, sampler, op, recording, taken, seen, channel, writer, result, offered>>

OwnerSteps ==
    \/ TakeWriter \/ ClearSink \/ CloseSink \/ ReadDropped \/ JoinWriter
    \/ SpawnWriter \/ StoreSink \/ KeepWriter \/ SetStop \/ JoinSampler

-----------------------------------------------------------------------------
(* A writer thread: `run` in record.rs                                      *)

\* Mutant: the snapshot is looked at but not taken out of the channel.
ReceiveWithoutTaking(r) ==
    /\ wpc[r] = "receive"
    /\ queue[r] # <<>>
    /\ held' = [held EXCEPT ![r] = <<Head(queue[r])>>]
    /\ wpc' = [wpc EXCEPT ![r] = "write"]
    /\ UNCHANGED <<shared, sampler, owner, channel, frames, failed, file, wresult, result, offered>>

\* The for loop takes the next snapshot.
Receive(r) ==
    /\ wpc[r] = "receive"
    /\ queue[r] # <<>>
    /\ held' = [held EXCEPT ![r] = <<Head(queue[r])>>]
    /\ queue' = [queue EXCEPT ![r] = Tail(@)]
    /\ wpc' = [wpc EXCEPT ![r] = "write"]
    /\ UNCHANGED <<shared, sampler, owner, open, dropped, frames, failed, file, wresult, result, offered>>

\* Mutant: the loop ends as soon as the sender is gone.
ReceiveEndsOnClose(r) ==
    /\ wpc[r] = "receive"
    /\ ~open[r]
    /\ wpc' = [wpc EXCEPT ![r] = "finish"]
    /\ UNCHANGED <<shared, sampler, owner, channel, frames, failed, held, file, wresult, result, offered>>

\* The loop ends: the sender is gone and the channel is empty.
ReceiveEnds(r) ==
    /\ wpc[r] = "receive"
    /\ queue[r] = <<>>
    /\ ~open[r]
    /\ wpc' = [wpc EXCEPT ![r] = "finish"]
    /\ UNCHANGED <<shared, sampler, owner, channel, frames, failed, held, file, wresult, result, offered>>

\* write_shared succeeds.
Write(r) ==
    /\ wpc[r] = "write"
    /\ file' = [file EXCEPT ![r] = @ \o held[r]]
    /\ held' = [held EXCEPT ![r] = <<>>]
    /\ wpc' = [wpc EXCEPT ![r] = "stats"]
    /\ UNCHANGED <<shared, sampler, owner, channel, frames, failed, wresult, result, offered>>

\* write_shared fails: flagged, and the recorder is finished as it stands.
WriteFails(r) ==
    /\ wpc[r] = "write"
    /\ failed' = [failed EXCEPT ![r] = TRUE]
    /\ held' = [held EXCEPT ![r] = <<>>]
    /\ wpc' = [wpc EXCEPT ![r] = "abort"]
    /\ UNCHANGED <<shared, sampler, owner, channel, frames, file, wresult, result, offered>>

\* The counters a status line reads.
StoreStats(r) ==
    /\ wpc[r] = "stats"
    /\ frames' = [frames EXCEPT ![r] = Len(file[r])]
    /\ wpc' = [wpc EXCEPT ![r] = "receive"]
    /\ UNCHANGED <<shared, sampler, owner, channel, failed, held, file, wresult, result, offered>>

\* recorder.finish() after the loop; its outcome is the thread's.
FinishFile(r) ==
    /\ wpc[r] = "finish"
    /\ \E outcome \in {"ok", "err"} : wresult' = [wresult EXCEPT ![r] = outcome]
    /\ wpc' = [wpc EXCEPT ![r] = "done"]
    /\ UNCHANGED <<shared, sampler, owner, channel, frames, failed, held, file, result, offered>>

\* After a failed write the outcome of finish is ignored: the thread returns the
\* write's error and the receiver goes with it.
AbortFile(r) ==
    /\ wpc[r] = "abort"
    /\ wresult' = [wresult EXCEPT ![r] = "err"]
    /\ wpc' = [wpc EXCEPT ![r] = "done"]
    /\ UNCHANGED <<shared, sampler, owner, channel, frames, failed, held, file, result, offered>>

WriterThread(r) ==
    \/ Receive(r) \/ ReceiveEnds(r) \/ Write(r) \/ WriteFails(r)
    \/ StoreStats(r) \/ FinishFile(r) \/ AbortFile(r)

-----------------------------------------------------------------------------
\* The Sampler was dropped and all its threads ended.
Terminated ==
    /\ upc = "stopped"
    /\ UNCHANGED vars

Next ==
    \/ SamplerThread
    \/ \E call \in {"record_to", "stop_recording", "stop"} : Call(call)
    \/ OwnerSteps
    \/ \E r \in Recordings : WriterThread(r)
    \/ Terminated

Spec == Init /\ [][Next]_vars

\* Only the sampler thread is sure to run: the disk may hang forever.
SamplerFairSpec == Spec /\ WF_vars(SamplerThread)

\* The other threads run as well: each enabled step is eventually taken. Nothing
\* makes the owner call, nor the disk succeed.
OthersRun ==
    /\ WF_vars(OwnerSteps)
    /\ \A r \in Recordings : WF_vars(WriterThread(r))

-----------------------------------------------------------------------------
(* Properties                                                               *)

\* What the recording has accepted, in file order.
Accepted(r) == file[r] \o held[r] \o queue[r]

\* A recording that finished well accounts for every pass taken while its sink
\* was open: frames in the file plus frames reported dropped are exactly the
\* ticks from the first offered to the last (record.rs: "the frame is dropped
\* and counted").
StatsAccountForEveryPass ==
    \A r \in Recordings :
        result[r].kind = "ok" =>
            result[r].frames + result[r].dropped =
                IF offered[r] = <<>> THEN 0
                ELSE Last(offered[r]) - Head(offered[r]) + 1

\* A file never holds a pass twice, never out of order, and never one the
\* sampler did not take, whatever the queue and the writer are doing.
FileInTickOrder ==
    \A r \in Recordings :
        /\ \A i, j \in DOMAIN Accepted(r) : i < j => Accepted(r)[i] < Accepted(r)[j]
        /\ \A i \in DOMAIN Accepted(r) : Accepted(r)[i] <= tick

\* record_to finishes the recording in progress before it starts the next: at
\* no time do two writer threads hold open files (sampler.rs: "A recording
\* already in progress is finished first").
OneWriterAtATime ==
    \A r, s \in Recordings :
        wpc[r] \notin {"none", "done"} /\ wpc[s] \notin {"none", "done"} => r = s

\* Where a recording stands, what is logged of it and the last tick it was
\* offered, as the abstract log sees them.
PhaseOf(r) ==
    IF wpc[r] = "none" THEN "new"
    ELSE IF open[r] THEN "open"
    ELSE IF result[r] = NoResult THEN "closed" ELSE "reported"
LogOf(r) == IF failed[r] THEN file[r] ELSE Accepted(r)
LastOf(r) == IF offered[r] = <<>> THEN 0 ELSE Last(offered[r])

phaseBar == [r \in Recordings |-> PhaseOf(r)]
logBar == [r \in Recordings |-> LogOf(r)]
lastBar == [r \in Recordings |-> LastOf(r)]

\* Every recording behaves as the abstract log with counted gaps.
Log == INSTANCE RecordingLog WITH
    phase <- phaseBar, log <- logBar, lost <- dropped, last <- lastBar,
    broken <- failed, report <- result

RecordsCountedGaps == Log!Spec

\* A call on the Sampler returns, whatever the sampler and writer threads were
\* doing when it arrived, a failing disk included: the joins never deadlock, as
\* long as the threads they wait for run.
CallsReturn == OthersRun => [](upc # "ready" => <>(upc \in {"ready", "stopped"}))

\* The sampler thread never waits for a writer: an offer completes even if no
\* writer and no owner ever takes another step (record.rs: "the sampler thread
\* never waits for the disk").
SamplerNeverWaitsForDisk == spc = "offer" ~> spc = "publish"
=============================================================================
