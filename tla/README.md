# A formal model of open-task

TLA+ specifications of the parts of open-task where several threads, several processes, a
disk that fails, a process that ends or a long sequence of snapshots and input meet: the
sampling thread and the recording of what it publishes, the file a recording becomes, the
tables in it, replaying it, the histories a view keeps, the process table, updating the
program, and the hand-over from one process to another that already has a window.
Each specification is translated from the Rust source, checked by TLC on small instances
and, where marked below, proved with TLAPS for every value of its constants.

Paths are relative to the repository; `ot-core/src/record.rs` means
`src/crates/ot-core/src/record.rs`. `PROJECT.json` lists the runs, and maps every
definition to the lines it models.

## How to run it

    tlc -workers 2 -config Replay_safety.cfg MCReplay
    tlapm Replay_proofs.tla

A `.cfg` belongs to the module `MC` plus the part of its name before the underscore, or,
for `Sampler` and `Handover`, to the module of that name itself.
The configurations named under "What the code does not do" are meant to end in a
counterexample; all others end without an error.

## 1. The system

open-task is a task manager. A *probe* reads the operating system; a *sampler* thread
turns each pass into an immutable snapshot and publishes it; the *shell* takes the newest
snapshot to a *view*, which lays it out and paints it. Everything that can block runs on a
thread of its own, and comes back to the host's thread through one *inbox* that wakes the
host once, however much is in it. A recording is a second consumer of snapshots; a replay
takes the sampler's place as their source.

    probe -> Sampler --publish--> current --flag--> Inbox --wake--> Shell -> View -> paint
                 \--offer--> channel -> writer thread -> Recorder -> file
                                                                      |
    Shell <--flag-- Player <--------- Recording <---------------------+
    Shell <--flag-- Updater <- check / download / setup thread

### Components

State, operations, what is hard, and what makes it correct. *Modelled* and *partly* name
the module; the rest says what is planned (P) or why it is left out (-).

| Component | State | Operations | Hard behaviour; what must hold | |
|---|---|---|---|---|
| Sampler (`ot-core/sampler.rs`) | published snapshot, stop flag, error count, the sink snapshots also go to | a pass that succeeds, fails or is unsupported; `record_to`, `stop_recording`, `stop`, drop | the owner replaces the sink in three steps while a pass that loaded the old one offers and publishes; two joins. Every pass is recorded or counted; calls return; one writer | Sampler (partly: cadence left out) |
| Recording writer (`ot-core/record.rs`) | channel, drop count, failed flag, file, result | `offer`, `close`, the thread's loop, `finish` | full queue, failing disk, closing with frames queued. The report is exact, the file is in order, the sampler never waits | Sampler, RecordingLog (partly: `RecordingProbe` is sequential) |
| Player (`ot-core/player.rs`) | playing, pending seek, anchor, published frame and position, error | `play`, `pause`, `toggle`, `seek`, `step`, `set_speed`, `stop`; the thread's loop | decoding without the lock; a two-part publish; unreadable frames. The latest request wins and is shown; playback ends | Player, Replay |
| Recording file (`ot-record/recorder.rs`, `recording.rs`, `format.rs`) | buffered writer, previous snapshot, index; opened frames, tables, cache | `write`, `finish`, drop; `open` by index or by scan, `read` | crash or failed write between any two records. What is read is what was written; no whole frame is lost; a seek is bounded | RecordFile (partly: record bytes, compression and old versions left out) |
| Frame deltas (`ot-record/frame.rs`, `delta.rs`) | - | encode, decode | wrapping differences against the previous frame | RecordFile (partly: one counter) |
| Shared values (`ot-record/table.rs`) | ids by address, pending values; items | `id`, `drain`, `sweep`; read | addresses reused after a free. Same value, same identity; bounded size | Tables |
| Updater (`ot-update/updater.rs`) | status, release, installer held open, last check | `check`, `download`, `install`, `due`; three workers | threads that do not start, workers that finish before they tell, closing during Setup. Ready is true; nobody is left waiting | Updater, UpdateShell |
| Versions and feed (`ot-update/version.rs`, `feed.rs`) | - | parse, compare, verify | ordering of pre-releases | Updater uses an order (P: versions) |
| Shell core (`ot-shell-core/lib.rs`) | inbox, closing, view, recording, confirmations | `drain`, events, `effect`, `close`, `save_settings` | flags cleared and read in separate steps; answers of worker threads. Nothing is lost on the way to the view | UpdateShell, Replay (P: the queue of answers, confirmations, the record button) |
| Feed (`ot-core/feed.rs`) | - | a switch between Sampler and Player | - | (-: no state) |
| Timeline (`ot-core/timeline.rs`, `history.rs`) | a raw ring, tiers of buckets in rings | `observe`, `set_retention`, `history` | eviction, late samples and changes of the reach. Each sample once in each tier; what is held goes back as far as the reach, read without gap or overlap | Timeline, Histories (partly: values in a bucket and device series left out) |
| Usage (`ot-core/usage.rs`) | totals per process, ghosts, frames and steps, what has faded out, lineage | `observe`, `set_history_span`; `frames`, `seen_in` | seeks backwards; steps that are open, closed, dropped; processes forgotten. Time is tiled, the chart comes to the totals, no chain of ancestors is cut | Usage, Histories, ReplayedHistories (partly: nothing fades) |
| Snapshot types (`ot-model`) | - | - | - | (-: data) |
| View model (`ot-ui/view.rs`, `perf.rs`, `settings.rs`, `nav.rs`) | snapshot on show, pause, search, arrangement, pages | snapshots and input events | input between a snapshot and the frame that shows it | ProcessTable, Histories (partly: layout, charts and other pages left out) |
| Update and replay views (`ot-ui/update.rs`, `replay.rs`) | status, replay state | press | acts on what is shown, which may be old | UpdateShell, Replay |
| Process table (`ot-ui/table.rs`, `process_rows.rs`, `steady.rs`, `list_page.rs`, `search.rs`) | order, sticky keys, folds, selection, tree of parents | `rebuild`, `ensure_order`, sort, fold, select, reveal, `refilter`, hold | an order kept between frames; circles of parents; keys that stick. Everyone listed once, disorder bounded, the selection found again | ProcessTree, Steady, ProcessTable (partly: rows under a process, scrolling, sliding left out) |
| Charts and maps (`ot-ui/charts.rs`, `usage_map.rs`, `treemap.rs`) | - | layout | - | (-: geometry over real numbers) |
| Pages (`ot-ui/pages/`) | lists | rows | - | (-: lists replaced whole) |
| Display list, damage (`ot-paint`) | last list | diff, raster | only what differs is redrawn | (P: damage; raster is -) |
| Windows shell (`ot-shell-win/window.rs`, `gfx.rs`, `tray.rs`) | window, device | messages | order of messages; hiding; ending a session | UpdateShell, for closing; Handover, for showing (rest -: Win32) |
| Instance, launcher, placement, Task Manager (`ot-shell-win`) | named mutex, window class, raise message; registry | `mark`, `raise_existing`, `ask_to_raise` | a stand-in meets a window that starts, hides, closes or hangs. One window for overlapping presses; no press swallowed | Handover (partly: `launcher.rs`, `placement.rs`, `task_manager.rs` are one-shot calls) |
| Linux shell and plugins (`ot-shell-linux`, `-gtk`, `-qt`, `-abi`) | - | the same core through a C ABI | - | (-; no installation is `canInstall = FALSE`) |
| Probes (`ot-probe`) | counters of the last pass | sample | - | a pass's outcome in Sampler (rest -: system calls) |
| Program entry, installer, scripts | - | - | - | (-) |

The hazards of all of these, each at its line with the properties that would catch it, are
the `hazards` of `PROJECT.json`.

## 2. The modules

| Module | What it is | Extends |
|---|---|---|
| `RecordingLog` | what a recording promises: a log of consecutive ticks with counted gaps | |
| `Sampler` | sampler thread, owner, writer threads; implements `RecordingLog` | |
| `Sampler_proofs` | proofs about `Sampler`, and that it implements `RecordingLog` | `Sampler` |
| `Player` | the player thread and the calls of a `Player` | |
| `Replay` | a `Player` with the shell that shows it | `Player` |
| `Replay_proofs` | proofs about both | `Replay` |
| `RecordFile` | recorder, disk and reader of one file | |
| `RecordFile_proofs` | proofs about `RecordFile` | `RecordFile` |
| `Tables` | one table of shared values and the memory it numbers | |
| `Tables_proofs` | proofs about `Tables` | `Tables` |
| `Updater` | the update state machine and its workers | |
| `UpdateShell` | button, tick, settings, closing and inbox around it | `Updater` |
| `Updater_proofs` | proofs about both | `UpdateShell` |
| `Timeline` | one series: raw ring, tiers, retention, reading | |
| `Usage` | totals, frames, faded-out totals and lineage | |
| `Histories` | both, fed by a sampler, with a reach that changes | `Timeline`, `Usage` |
| `Histories_proofs` | proofs about `Timeline`, `Usage` and `Histories` | `Histories` |
| `ReplayedHistories` | both, fed by a replay that seeks | `Timeline`, `Usage` |
| `Steady` | sticky sort keys | |
| `ProcessTree` | repaired parents and rollups, as functions | |
| `ProcessTable` | the table in its view: snapshots, input, the order | `ProcessTree`, `Steady` |
| `ProcessTable_proofs` | proofs about `ProcessTree`, `Steady` and `ProcessTable` | `ProcessTable` |
| `Handover` | stand-ins and windows of several processes | |
| `Handover_proofs` | proofs about `Handover` | `Handover` |
| `MCReplay`, `MCRecordFile`, `MCTables`, `MCUpdater`, `MCHistories`, `MCReplayedHistories`, `MCProcessTable` | instances for TLC: symmetry sets, versions, a family of processes, the snapshots there may be | |

### Sampler

A snapshot is its tick. Each access to shared state is a step: `ArcSwap` loads and stores
(`sink`, `current`), the mutex around the sender (`Sink::offer`, `Sink::close`), the
channel, the drop counter, the two joins. `spc` is the sampler's place in `run`, `upc` the
owner's in `record_to`, `stop_recording` or `stop` (the first and the last begin with the
whole of `stop_recording`, as in the code), and `wpc[r]` that of the writer thread of
recording `r`. `op` is the call in progress, `taken` the writer that
`stop_recording` took out of the mutex or that `record_to` has just spawned.

A failed write ends the loop and finishes the file (`WriteFails`, `AbortFile`); `finish` itself may fail
(`FinishFile`). `offered` is a history variable: the ticks an open sink was offered.

`RecordingLog` has no queue and no threads. Under the mapping `Log` in `Sampler`, a
recording's log is what is in its file, held by the writer or queued; `lost` is the drop
counter. So a snapshot is recorded the moment the sampler hands it over, a closed
recording never grows, and a report says exactly what the log and the counter are.

### Player and Replay

Everything under the `Control` mutex is one step. Steps of their own are: the position
`step` reads before it locks, `toggle`'s two locks, the frame decoded without the lock
(`Load`), and the store of the position after the frame (`StorePosition`). A condition
variable may wake for no reason. A frame that is next is due or not: wall time is a choice.
`bad` is the set of frames that cannot be decoded, chosen once; the first frame is
readable, since the code decodes it before the player exists.

`Replay` adds the snapshot flag of the inbox, the frame and the bar the view
shows, and the UI thread that drains the flag, takes the newest frame, then reads position
and `playing` for the bar (`replay_state`), also after each press.

### RecordFile

A file is a sequence of records; an index into it stands for an offset. `stream` is what
the recorder has put into its buffered writer, `disk` how many whole records reached the
disk; part of the next may be there. A write may fail inside the table record or inside
the frame (leaving a torn record or none), `finish` may succeed or fail after it, and the process may
die at any moment. Opening goes by index when the trailer names a plausible one and the
tables load, otherwise by a scan. A torn record that claims bytes of what follows it is
modelled by what it does: a table fails to decompress and `open` fails, a frame is listed
and fails when it is read. Differences wrap modulo `Width`; `Width = 2` has both the rise
and the fall through zero. Reading keeps the last frame as the base of the next.

### Tables

Memory is explicit: `heap[a]` is what address `a` holds, an allocation takes any address
that nobody holds, and an `Arc` is held by the probe's current values, the published
snapshot, the queue, the recorder's previous snapshot, the application's views and the
table's own clone. The views (`App`'s snapshot on screen, what a pause keeps, the entries of
`Usage`, which outlive their processes while the totals fade) are one set that takes anything
of the published snapshot and lets go of anything, at any time (`View`). Values are named by their allocation, so two allocations at one address differ. `Write` numbers
the new addresses of a snapshot in any order, writes frame and values, and sweeps every
`SweepEvery` frames. The seven tables of the code differ in the type of their values alone.

The reference counts the sweep reads are modelled as one moment; in the code they are read
one after another while other threads drop their clones. Such a drop only lets the sweep
drop more entries that nobody can bring back, since the sweep looks at the count of
clones outside the table and a clone can only be made from one that exists.

### Updater and UpdateShell

A locked region of `updater.rs` is one step. `status`, `working`, `release`, `ready`
(the installer held open) and `worker` (the job of the one thread) are the machine;
`late` counts workers that have cleared `working` and have yet to call `notify`, which the
code does after unlocking. A thread that does not start ends as a failed check, as in
`start`. Signature, checksum, network and disk failures are one outcome of a job.

`UpdateShell` is what `ot-shell-core` does with it: the button acts on the status the view
shows, not the current one; the hourly tick; `save_settings`; `close`, which may hide the
window and start Setup; `drain`, which takes the flag in one step and reads the status in
another; and `on_update`, which finishes closing when Setup ended without closing the
program. Each handler is one step, since they all run on the host's thread.
`Raise`, on a worker's, is one step too: the flag is swapped and the waker called with nothing
between them (`lib.rs:350-355`). A drain in that gap would find the flag and be followed by a
wake with nothing to drain.

One fact about the host is assumed, in `Input`: Windows hands out posted messages before
input and timers, so a wake that was posted is drained before the next click. Only
Windows has an installation, so only there it is needed, and the second half of
`ReadyIsInstallable` (what is held is on offer) needs it.

### Timeline, Usage and Histories

A snapshot arrives at a time, an interval after the one before it. `Timeline` is one series
(every series of the code gets the same pushes): the raw ring, and the tiers
`Retention::covering` asks for, each with its closed buckets and the open one. A bucket is
its first and last sample and their number; `samples` and `since` are history variables,
the times pushed and the moment from which the current reach has been in force.

`Usage` has one total per process, the frames of each interval with what every program used
in it, the steps into which frames older than the raw part are folded, the totals of what
has passed the reach, and the lineage. The code fades every total by a factor per second;
here nothing fades, so that sums are exact: any bookkeeping error (a frame counted twice,
a step dropped without its cycles) shows whatever the factor. `ghosts` in `Observe` is the
choice of exited processes whose total is still kept, which in the code depends on how far
it has faded.

`Histories` is `App::set_snapshot` with both, the machine around it (processes start with a
parent that runs, exit, and never come back, a number with its start time being a new
process), and the setting that changes the reach. `ReplayedHistories` has the same two
fed by the frames of a recording in the order a user's seeks bring them.

### ProcessTree, Steady and ProcessTable

`ProcessTree` is `ProcessTree::rebuild` as functions on one list: which parents are known,
`resolve_depth` from each process in the order of the list, cutting a circle where the walk
meets itself, and the fold of the figures deepest first. `Steady` is the dead band: natural
numbers for figures, percent for the relative width.

`ProcessTable` is the table in its view. `order` is what the code keeps between frames: for
each place the row number in the list (`row`), its id, parent and whether it has children.
`dirty` is `order_dirty`. A snapshot replaces `snap` and the tree at once and marks the
order; `Paint` is the next frame. Inputs may come at any moment between: the pointer, a
column's header, an expander, a row, the arrow keys, a search, the pause button, the
arrangement. Each is one step, as each event is handled whole on the host's thread.
Where the code maps a place of the order to a row number of the list (`row_at`), so does
the model (`RowAt`). The list of snapshots is given: they include circles of parents that
are met from inside and from outside, a process that exits, and figures that differ by
less and by more than the band.

### Handover

Several processes, each in its own place of `main`, `raise_existing`, `run` and the window
procedure. They share the mutex (`Marked`: every process from its mark to its end), the
window class (`window`: none, hidden or visible to `IsWindowVisible`) and messages
(`inbox`). `FindWindowW` may give any window of the class. Each of the calls of a stand-in
is a step, so a window may go between the look and the message, and the message may be
handled after the stand-in gave up on it. `Patience` is how many looks it has. A window
may be slow, closing or hung at any point: nothing is assumed of open windows. A message
that arrives while the window's thread is inside a handler gets default handling
(`window.rs:672-679`), whose answer is not 1: no action stands for it, since to the stand-in
it is `TimeOut`, and a window that never handles the message left behind is in the model.

## 3. What is checked

The instances are small because the hazards need few actors: two recordings for a hand-over,
a queue that is full at one, one frame that cannot be read between two that can, one circle
of parents, two overlapping presses of a key.

| Run | Instance, distinct states | What it shows |
|---|---|---|
| `sampler_safety` | 2 recordings, queue of 1, 3 passes, 1 failed pass; 209 thousand states | `StatsAccountForEveryPass`: frames plus dropped is the number of passes from the first offered to the last. `FileInTickOrder`: nothing twice, nothing out of order, whoever offers to whom. `RecordsCountedGaps`: each recording implements `RecordingLog`. With only the sampler sure to run, every offer completes (`SamplerNeverWaitsForDisk`); with the others running too, every call returns (`CallsReturn`): neither join deadlocks. Three passes fill a queue of one, overflow it and leave one for the second recording |
| `replay_safety` | 3 frames, any but the first unreadable, 3 calls; 133 thousand states | `LatestRequestWins`, `AnchorDescribesPlayback` (the clock of playback is never one from before a seek), `SettledViewIsCurrent`; `AskedIsShown` and `PlaybackEnds` under fairness. Three frames have a first, a middle and a last one; three calls put one request before, one during and one after a decode |
| `record_file_safety` | 2 processes, counters of 2 values, keyframe every 3, 4 frames; 1.3 million states | `ReadsWhatWasWritten`, `ListsEveryWholeFrame`, and in `TypeOK` that no read decodes more than the keyframe interval, over every cut of the file and every order of reads. Four frames cross one keyframe interval |
| `tables_safety` | 2 owners, 3 addresses, sweep every 2, queue of 1, 4 allocations, 4 frames; 4.2 million states | `ValuesReadBack`, `IdentityIsKept`, `TableIsRecent` (the table holds nothing but what a frame since the last sweep referred to, or a view held at that sweep; without the views it is violated by an owner that ends while a view shows it). Four allocations at three addresses force reuse; four frames have a sweep before and after one |
| `updater_safety` | build 1, versions 1 and 2, 2 workers that have not told, 1 day, all settings, installed or not; 347 thousand states | `ReadyIsInstallable` (Ready means an install goes ahead; an installer that is held is on offer), `SettledViewIsCurrent`; `HiddenCloses` and `ButtonComesBack` under fairness. A feed may go back to an older version, or name one with no installer |
| `histories_safety` | 3 processes of 2 programs, 5 snapshots 1 or 4 apart, tiers of 2 and 3 wide, rings of 1 raw sample, reaches of 3 and 6, one change; 104 thousand states | `EachSampleOnce`, `HistoryIsWhole`, `FramesTile`, `ChartComesToTotals`, `LineageIsWhole`. Intervals of 4 pass a whole bucket and a whole reach; five snapshots are enough to evict from every ring and to close, fold and drop a step; a change of reach adds or removes a tier, or changes the width of steps |
| `process_table_safety` | 5 processes, 4 possible snapshots, 3 of them shown, 3 inputs; 301 thousand states | `OrderIsCurrent`, `EveryoneIsListed`, `TreeIsRepaired`, `DisorderIsBounded`, `SelectionIsRevealed`, `HeldRowsStay`. Three snapshots move a key twice; three inputs hold, search and fold, or fold, select and rearrange |
| `handover_safety` | 3 processes, 2 of them stand-ins, patience of 1; 101 thousand states | `OnePressOneWindow`: overlapping presses open one window between them unless some window hid, closed, failed or hung. `EveryPressIsAnswered` under fairness: a press ends with a window in front |

In `updater_safety`, `updater_turned_on` and `handover_safety` processes may end, and in
`replayed_histories_seek` the frames shown are bounded, so deadlock is not checked there; in
the others the end is an explicit stuttering action and deadlock is checked, or the
specification never stops on its own (`Tables`).

Bounds: `MaxTick`, `MaxErrors` (passes), `MaxCalls` (calls of the replay bar), `MaxFrames`
(frames), `MaxAllocs` (allocations), `MaxLate` (finished workers that owe a call), `MaxDays`
(days), `MaxSnapshots`, `MaxChoices` (changes of the reach), `MaxInputs`, `MaxShown` (frames
shown). Each is a guard of the action that would count on. The proofs hold for all of them.
A process of `Handover` is launched at most once, which bounds it without a counter.

### Fairness

- `Sampler`: weak fairness of the sampler thread alone for `SamplerNeverWaitsForDisk`, so
  the disk may hang for ever. `CallsReturn` adds weak fairness of the owner's steps and of
  each writer thread: a thread that can run does. Nothing makes the owner call.
- `Replay`: threads run, and a press that began is carried out. Strong fairness of "the
  next frame is due": `wait_timeout` gets a finite time, but a wake-up may come first,
  any number of times. Nobody has to press anything.
- `UpdateShell`: the host drains and reads; strong fairness of closing, because the host
  takes messages in the order they were posted, so a posted close is not put off by
  wake-ups for ever. Weak fairness of a job's end: every fetch has a timeout, and Setup is
  run without a wizard. Nothing makes a user click, a day pass or a feed name a release.
- `Handover`: weak fairness of a stand-in's own steps (its loop, its call, which ends with
  an answer or at its timeout) and of a start-up, which shows a window or fails. Nothing is
  assumed of a window that is open: it may never handle its messages.

## 4. What the code does not do

Four runs check something the repository says and find a counterexample.

- `record_file_torn_table` (`AlwaysOpens`). `recording.rs:53`: a file without its
  index "opens fine, with every complete frame". A write that fails inside a table record,
  followed by a `finish` that succeeds, leaves an index that names the torn record; the
  scan that is tried instead takes the index's bytes for the table's, fails to decompress
  them, and passes the error on. The frames before it are whole and cannot be reached.
- `updater_turned_on` (`DownloadStartsWhenTurnedOn`). "Downloading was just turned on with
  a release waiting: start now" (`ot-shell-core/src/lib.rs:828`): while the daily check runs
  the request is refused in silence, and nothing downloads until the next check or a click.
- `replayed_histories_seek` (`NoStretchTwice`). `usage.rs:793` says of the history "No
  stretch is covered twice". The view keeps one `Usage` through a replay and nothing resets
  it on a seek: played back and on again, a stretch is in the history twice, and its cycles
  in the sums.
- `process_table_click` (`ClickSelectsWhatIsShown`). `view.rs:2012`: "Select the row under
  `at`". The order holds row numbers of the list it was built for; a snapshot replaces the
  list at once and the order at the next frame. A click in between selects the process with
  that number in the new list, which the context menu then acts on, or indexes past its end.

Remarks met while modelling, without a run:

- Two presses of *step* before the thread has published the first move one frame: `step`
  takes its base from the published position (`player.rs:212`), while `ot-ui/replay.rs:39`
  says "move this many frames".
- Playback that ends at the last frame, or at one that cannot be read, clears `playing` with
  no notification (`player.rs:295`, `337`): the bar shows a pause button until the next press.
- A play pressed while the thread decodes a frame that turns out unreadable is cancelled with
  the playback that failed (`player.rs:337`): the thread has only `playing` to go by.
- A pass that loaded the empty sink before `record_to` stored the new one publishes after
  `record_to` returned, and that snapshot is neither written nor counted (`sampler.rs:251`,
  `254`, against the comment at 131). At most one per recording.
- A frame that was due when `pause` came is still published after `pause` returned.
- A quiet check whose thread does not start shows as a failed check, though `updater.rs:11`
  says that checks nobody asked for fail without a word.
- The repository's `README.md:403` says that Ctrl+Shift+Esc brings an open window forward.
  One hidden in the tray ("Hide when minimized") fails `IsWindowVisible`, so the stand-in
  waits out its patience and opens a window of its own.
- While the display is paused, the pointer leaving the table lets go of the keys without
  folding values in (`view.rs:1224`); they follow with the next snapshot shown. Likewise
  `set_sort` takes no new keys, so the first snapshot after it may move rows under a pointer
  that holds them (`HeldRowsStay` is about one basis).
- `trim_lineage` forgets a process last seen before the horizon while a coarse step that
  contains its last moments is still within the reach, so `seen_in` may name one process
  fewer than the oldest step was made of.
- A late sample that is older than the open bucket of a tier closes it and opens another
  (`timeline.rs:164`), though the comment at 268 has it folded into whichever is open;
  snapshots of one sampler are in order, so only a replay can do it.

## 5. What is proved

For every value of the constants, from the `ASSUME`s in the modules alone: every safety
invariant and every action property of every passing run. (The two specifications a run states
with fairness imply the ones the theorems speak of.)

`Sampler_proofs` (any set of recordings, any queue of at least one, any number of passes):
`TypeCorrect`, `StatsExact`, `OneWriter`. `StatsAccountForEveryPass` speaks of a report made at
the end; to get there `Inv` adds, for each recording: what a recording that was never started
looks like (`UnusedInv`); that only a recording the owner holds is open or has a running writer
(`HeldInv`); where its writer is and what that says of its channel (`WriterInv`: a writer that
finishes has a closed, empty channel); that every offered tick is in the file, held, queued or
counted (`CountInv`); and that the ticks offered are consecutive (`OrderInv`). The last is the
subtle one: a pass that loaded a sink and was overtaken offers to it one tick after the last,
so the invariant ties the last offered tick to the sampler's place and to whether the sink is
still the one it will load.

The second half of `Sampler_proofs` proves `FileOrdered` and `Implements`, that every recording
is a `RecordingLog`. `AcceptedInv` speaks of file, writer's hand and channel as one sequence,
which a receive and a write leave as it is: it rises, and ends no later than the last tick
offered, so that what `OrderInv` says of an overtaken pass keeps the next tick above all
before. `FreshInv` adds that a recording the owner still holds was not reported. Then a spawn
is the log's start, an offer to an open sink keeps, loses or (after a failure) lets vanish one
tick, a failed write breaks the log down to the file, closing and joining close and report it,
and every other step stutters.

`Tables_proofs` (any finite set of owners, any addresses, any sweep interval and queue):
`TypeCorrect`, `SharedValuesReadBack`, `SharedIdentityIsKept`. `IInv` adds that an address in
the table still holds the value it was numbered for, because the table's clone keeps it from
being freed, and that an address anybody holds and the table does not holds a value that was
never numbered. Without the second, a sweep that drops a value somebody can still bring would
give one allocation two numbers.

Its second half proves `TableStaysRecent`. A sweep asks who holds a value, not whether a frame
referred to it, so what it keeps must be shown recent. The views keep what they like, which
the history variable `kept` records. The other holders stand in a line by age: the recorder's
frame, the queue, the published snapshot, the probe. A value is held by a stretch of
that line without a gap (`Gapless`), since an address is not given out again while anyone holds
it, and a numbered value that the line holds is held from the recorder's end (`NumberedInv`). So
whatever a sweep keeps is in the frame just written, or held by a view.

`Updater_proofs` (any build and versions, any number of days and of workers that have not
told): `TypeCorrect`, `ReadyIsTrue`, `BusyHasWorker` (a busy status has a worker behind it),
`NoLostUpdate`, `HiddenIsNotForgotten` (a window hidden for Setup has something on its way that
ends it). `IInv` pairs each job with its status (`JobInv`: a quiet check never started from
Ready or from a busy status, so what it puts back on failure is neither), makes "held" and
"Ready" the same thing (`ReadyInv`), and says how old the view may be (`ViewInv`: once a
download or Setup runs, and while Ready shows, the view is on one of these three or a message
is pending). `ViewInv` is why a click cannot check again over an installer that waits.

`Replay_proofs` (a recording of any length, the empty one included, any set of unreadable
frames, any number of calls): `TypeCorrect`, `LatestWins`, `AnchorIsFresh`, `NoLostFrame`. The
properties speak of a thread that waits; `IInv` follows a request from there backwards: pending
in `seek`, taken and being decoded, published in one of its two stores (`PublishInv`), or on
show (`RequestInv`). `ViewInv` does the same for what the view reads after it cleared the flag.
`AnchorDescribesPlayback` is inductive given these.

`Handover_proofs` (any number of processes, any of them stand-ins, any patience): `TypeCorrect`
and `OneWindow`. `OnePressOneWindow` is inductive with the types and one fact more
(`NoneCloses`): while nothing untoward has happened no window is closing, so none refuses a
stand-in. The steps that end `calm` are set apart (`CalmStep`); of the others only a press of
the first stand-in leads to a window, and its mark, which lasts to the end of its process,
makes every later one wait.

`RecordFile_proofs` (any processes, any width of a counter, any keyframe interval, any number
of snapshots): `TypeCorrect`, with the bound on what a seek decodes; `ReadsAreTrue`;
`OpenListsAll`. The invariant follows the data. In the stream, the index names the frames and
nothing else, each written against the one before (`FramesAreIndexed`), a keyframe is never far
back (`KeysAreNear`), the tables a frame needs stand before it (`TablesComeBefore`), and only
the last record before the index can be torn (`EndsOnce`). So what `open` lists, by the index
or by the scan, is a first part of what was written, all that is whole on the disk, and at most
a torn frame after it (`OpenedWell`); so a read, from a keyframe on or from the frame kept,
decodes each snapshot on the one it was encoded against (`ReadWell`). A difference that wraps
is undone by a sum that wraps, whatever the width (`ApplyTakesDifferenceBack`).

`ProcessTable_proofs` (any processes, any snapshots, circles of parents included, any searches,
any dead band):

- Of the tree, for any list and parents: `TreeIsAlwaysRepaired`. `resolve_depth` from one
  process follows parents to the end of the chain or to where the walk meets itself, and cuts
  there; by induction on the list, after each call whoever is resolved stands in a forest, and
  a cut link was on a circle, one to each (`ResolveDepthRepairs`). The fold deepest first then
  gives every process the sum over those below it (`RollupsAre`): the order by depth is what
  makes each figure complete before it is added to its parent's.
- Of the order: `OrderIsAlwaysCurrent`, `EveryoneIsAlwaysListed` (the walk over the tree is a
  list of all it reaches, each once, after its parent, and whatever the search lets through is
  reached unless it is below a folded row, because the search lets parents through with their
  children, `PropagateUpCloses`), `SelectionIsAlwaysRevealed`, `TypeCorrect`.
- Of the dead band: `OutOfOrderIsWithinBands`, the claim of `steady.rs` about two rows;
  `UpdateBoundsDisorder`, that `Steady::update` with the pointer away establishes its premise
  for all rows, whatever the keys were; `DisorderIsAlwaysBounded` and `HeldRowsAlwaysStay`, of
  the table with both. Neither end of a band moves down as its key rises (`BandsMoveUp`), which
  needs the relative width to be at most the key itself.

`TableInv` holds them together: tree and figures are those of the snapshot on screen
(`Displayed`), nothing waits unless the display is paused (`Settings`), the keys are of the
rows listed and, unless frozen, in whose band the figures are (`KeysFit`), the order is the one
that would be built or is marked (`OrderIsCurrent`), and what the search lets through is that
of this list and tree (`Filtered`).

`Histories_proofs` (any processes and programs, any capacities and widths, any intervals and
reaches, any changes of the reach):

- `LineageIsAlwaysWhole`: what is remembered is closed under parents (`Lineage`): a snapshot
  adds whom it lists with the parents it gives them, and trimming keeps whoever is recent with
  all its ancestors, which the recursion that gathers them does find.
- `FramesAlwaysTile`, `ChartAlwaysComesToTotals`. A *mark* is a time with the totals at it. The
  invariant (`Framed`) says that from the mark of what has faded out, the coarse steps, the
  open one and the raw frames lead mark by mark to now and to all cycles watched. Observing
  appends a frame, folding moves frames into the open step, closing and dropping move the ends:
  each keeps the chain of marks, and both properties read off its ends. `Accounts` ties the
  totals kept by process to the cycles the machine used.
- `SamplesAreAlwaysCountedOnce`, `HistoryIsAlwaysWhole`. For each tier (`IsTier`), its buckets
  are in order, one to a window, each counts exactly the samples between its ends, and nothing
  since the first is missing (`Tells`); and it holds every sample as far back as its span, as
  long as the current reach has been in force. A change of the reach keeps the buckets of a
  tier whose width stays, and one that is new fills from there on (`since`). Reading appends
  the buckets of a coarser source that end before what was yielded so far begins; the seam is
  narrower than the coarser bucket because both tell of the same samples.
- `TypeCorrect`, which needs that nothing was seen later than now (`Dates`).

### How recursions are proved

`FoldFunctionOnSet`, `FoldLeft` and the recursive functions of the modules are defined on sets
or naturals that need an induction. The induction theorems of the library take an operator;
here induction is a lemma about *sets* of naturals (`NatSetInduction`, from the
well-foundedness of `<`), the induction hypothesis a set by comprehension, and each fold is
first shown to have the run of values `FoldUpTo` or `RunUpTo` constructs, after which a proof
speaks of the run step by step.

### What the assumptions on constants say of the code

They say what the code's types and constants give: rings have room for something and the fine
tier's window is narrower than the coarse one's (`RetentionAssumption`), a reach is at least
one step wide and the first sample comes at a time later than an interval
(`HistoriesAssumption`: times are milliseconds since 1970), a snapshot lists each process once
with a figure and a parent or none, the relative band is at most the whole key
(`BandAssumption`), keyframe interval and sweep interval are not zero, and process sets are
finite where they are counted.

### Only model-checked

Liveness (`CallsReturn`, `SamplerNeverWaitsForDisk`, `AskedIsShown`, `PlaybackEnds`,
`HiddenCloses`, `ButtonComesBack`, `EveryPressIsAnswered`): the prover reasons about neither
fairness nor `ENABLED`. The properties of section 4 are false, so there is nothing to prove.

## 6. Plan

Done, in this order: `Sampler` with `RecordingLog`; `Player` and `Replay`; `RecordFile`;
`Tables`; `Updater` and `UpdateShell`; `Timeline`, `Usage` and `Histories`; the process
table; `Handover`; and for each a module of proofs, of all its runs' safety.

What would come next, in order of what can go wrong:

1. **The shell's inbox and recording**: the queue of answers from worker threads, stale
   answers to questions no longer asked, confirmations, and the record button, whose
   `Recorder::create` truncates its file before the recording in progress is finished
   (composes with `Sampler`'s `record_to`).
2. **Rows under a process** (services, threads, samples) and scrolling, in `ProcessTable`.
3. **Versions**: the order on versions, pre-releases included.
4. **Damage** of a display list: what is redrawn covers what differs.

Abstract specifications worth adding: a replay as "the frame last asked for, or the next
one", implemented by `Player`; a recording file as "a prefix of what was written, all of it
once finished", implemented by `RecordFile`.

Proofs: of those two refinements, which `LatestWins`, `ReadsAreTrue` and `OpenListsAll` are
the greater part of.

The instances are to stay as few as the questions are: a later component joins an existing
instance where it composes with it.

## 7. What is not modelled, and why

Rendering, layout, charts, treemaps and text are geometry over real numbers. Probes are
system calls; what they answer is data to the rest. The transports of the updater, Direct2D,
GTK and Qt are I/O without state the properties speak of. The bytes inside a record
(compression, variable-length integers, string tables) are one record each; what a torn
record does to a reader is modelled, how its bytes are laid out is not. Time is abstracted
where only its order matters: a sleep ends, a frame is due, a day passes; `Histories` counts
it in whole units. In the process table the choice of a tile of the Map or a band of the
History is left out: it sets the selection, as a click on a row does.
