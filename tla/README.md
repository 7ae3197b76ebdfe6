# A verification of wmrm

wmrm removes a watermark from a video.  It is a command (`wmrm run`) that takes
hours on a GPU, and a server (`wmrm serve`) that runs that command for a control
plane on a rented machine, a *pod*.  This directory holds TLA+ models of the
parts of it that keep state across interleavings, crashes and restarts, the TLC
configurations that check them, and proofs about them.

Paths are relative to the root of the repository, which the tools find under
`src/` next to this directory: `src/wmrm/lock.py` is `src/src/wmrm/lock.py`.

## 1. The system

| component | source | state it keeps | operations |
| --- | --- | --- | --- |
| HTTP handlers and startup | `server/app.py` | the sweeper task | submit, cancel, delete, the startup hook |
| runner | `server/runner.py` | `_records`, `_procs`, one coroutine and one child per job | `_run`, `cancel`, `_kill`, `_heartbeat`, `_fail`, `_reclaim` |
| records | `server/store.py` | one JSON document per job | create, save, delete, `adopt_orphans` |
| events | `server/hooks.py` | none | heartbeat and terminal events to the control plane |
| reclaim | `server/reclaim.py` | none of its own; removes files of finished jobs | after a delivery, and in a sweep every 15 minutes, at start, and when a submission finds the volume too full |
| R2 transfers | `r2.py` | `.part` files and a state file listing finished chunks; multipart uploads on R2 | ranged download, multipart upload, abort |
| URL download | `server/transfer.py` | a `.part` file | resume a ranged GET |
| output lock | `lock.py` | an `flock` on a hidden sibling of the output | take, refuse, release |
| parts directory | `video.py` | `manifest.json`, `part-NNNNNN.mp4` | resume, composite, join, publish |
| ProPainter pipeline | `video.py` | two bounded queues, three threads, two ffmpegs | decode, inpaint, composite, flush |
| planning | `video.py` | none (pure) | segment plan, automatic segment size, retry on lack of memory |
| other engines | `pipeline.py` | a staged output | decode, process, encode |
| report | `report.py`, `errors.py` | the facts of a run, one JSON file | collect, finish once, flush |
| coverage and verification | `coverage.py`, `verify.py` | none | verdicts on a box and on an output |
| command line | `cli.py` | none | run, batch, pull, serve and others |
| region and engines | `region.py`, `backends.py` | the last patch of a cache; a fitted map | carry a box to another size, cut the tile, repair a frame |
| detection, un-blend, picker | `detect.py`, `unblend.py`, `pick.py` | none | numerical image processing |
| configuration, probe, auth, request models | `server/config.py`, `server/probe.py`, `server/auth.py`, `server/models.py`, `probe.py` | none | read-only |

How they interact.  The control plane calls the handlers; a submission creates
a record on disk, an in-memory instance of it, and a coroutine that stages the
input (transfers), starts `wmrm run` in a process group of its own, waits for it
in a thread, reads the report it left, publishes the output (transfers), writes
the terminal state, posts it (events) and frees the space (reclaim).  A cancel
works on the same in-memory record and signals the child.  The child takes the
output lock, runs an engine over the parts directory, and writes its report.

What is hard about it:

* one event loop, so no two handlers run at once -- but each `await` lets any of
  the others in, and a check before an `await` says nothing after it;
* the slots are counted from documents on disk, which cancels, sweeps, restarts
  and the coroutines all write;
* the server may die between any two writes, and its children may outlive it;
* a run of hours may be killed anywhere, and the next one must use what it left
  without ever shipping a video with a hole in it;
* everything outside answers late, twice, or never.

What makes each component correct, and which property says so:

| component | correct when | properties |
| --- | --- | --- |
| server, runner, records | no more wanted runs than slots, where no submission waits for a sweep; slots come back | `SlotsRespected`, `SlotsComeBack` |
| | one record per driven job, whoever holds it | `OneRecord` |
| | a cancel is neither lost nor retried, and stops the child | `CancelNotRetried`, `CancelStops` |
| | a job goes through its phases in order, ends once, and is told as it is on record | `LivesOnce` |
| | an end is recorded, and heard as it is | `RecordsSettle`, `HeardIsDisk` |
| | a save that fails still gives the slot back | `SlotsComeBack` in `rv_stuck`, refuted |
| events | what the poster is told of an event is true | `KeepsPromise` |
| | nothing is said after the end, and a person hears of it whatever the control plane answers | `BeatsStop`, `PersonToo` |
| reclaim | nothing a live job needs is removed | `LiveFilesKept`, `NewDirKept` |
| | the only copy of a result goes last | `OnlyCopyKept` |
| URL download, space check | never the wrong bytes; no bytes lost; a call that has not given up brings the file; a job that is let pass and not squeezed in beside another fits | `Implements`, `UrlPublishedWhole`, `BytesKept`, `Staged`, `AdmittedFits` |
| region | the whole mark is repaired and no seam is left, at every size, unless the tile is cut back at the end of the frame | `Repaired`: `MarkRepaired`, `BoxRepaired`, `FadesOut` |
| engines | a patch and a map are applied where they belong | `OwnMemory`: `PatchFits`, `MapFits` |
| output lock | one writer, no refusal without one | `OneWriter`, `RefusedForCause`, `PromiseKept` |
| parts directory | what is published is the whole video, as long as no decoder dies, and made one way | `WholeVideo`, `OneMaking`, `Described` |
| | work that is done is not thrown away, and the run ends | `ResumeKeeps`, `Finishes` |
| ProPainter pipeline | every frame once, in order, with the same context on every run | `InOrder`, `SameBlocks`, `Delivered` |
| | failures of threads and ffmpegs do not become a hang, but for one that lingers on a part that is dropped; a part has one writer | `Ends`, `SinkAlone` |
| segment plan | it covers the video and no segment sees two shots | `PlanSound`: `PlanCovers`, `OneShot` |
| R2 download | never the wrong bytes; nothing is fetched twice; a call that has not given up brings the file | `PublishedWhole`, `RecordedIsWritten`, `ProgressKept`, `Staged` |
| R2 upload | the object has the parts of its file; nothing is left behind | `RightLengths`, `NothingLeft` |
| coverage loop, gate | the box that is processed is the one that was judged | `Judged` |
| engines, staging | nothing incomplete under the final name | `WholeOutputs` |
| report, exit codes | true, on every exit path where it can be written; every video of a batch accounted for | `ReportTrue`, `Reported`, `Accounted` |

Those that no run checks by itself (`TerminalIsFinal`, which is a
part of `LivesOnce`; `OneWriter`, `Described`, `RecordedIsWritten`, `BytesKept`,
`UrlPublishedWhole`) are proved (section 4).  The hazards, each at its line, are in
`PROJECT.json`.

## 2. The modules

| module | what it is |
| --- | --- |
| `JobServer` | the job server of a pod: handlers, runner, records, events, reclaim, crashes; implements `JobLife` |
| `JobLife` | the life of a job as its record and the events tell it: what the server promises |
| `ExclusiveWriter` | what `lock.py` promises: one writer at a time |
| `OutputLock` | how it is kept with `flock`; implements `ExclusiveWriter` |
| `PartsDir` | the parts directory of a ProPainter run through kills and resumes |
| `SegmentPlan` | `_segment_plan` and the halving of a block: functions on sequences |
| `VideoPipeline` | the three threads and two queues of a ProPainter run, over `SegmentPlan` |
| `Download` | the constants the two downloads share |
| `R2Download` | the resumable download from the bucket |
| `R2Upload` | the multipart upload by several clients of one key |
| `RunCommand` | `wmrm run` and `wmrm batch`: gate, engine, staged output, verification, report |
| `UrlDownload` | the resumable download from a presigned URL; implements `Published` |
| `Published` | what a download promises whoever waits for the file |
| `StageInput` | `_stage_input`: composes `R2Download` and `UrlDownload` |
| `WorkDirs` | the disk of a pod: job directories, the floor, the sweep, refusals |
| `EventDelivery` | the requests behind one event, and the chat channel; implements `Reported` |
| `Reported` | what posting an event promises whoever posts it |
| `RecordSaves` | the job server when saving a record fails |
| `TileRegion` | boxes, presets, tiles and holes: functions |
| `PatchEngine` | the engines over the frames and videos of a command, over `TileRegion` |
| `MC...` | these for TLC: constants a cfg cannot write, and symmetry |
| `..._proofs` | theorems, a module for each of `JobServer`, `PartsDir`, `VideoPipeline` (with `SegmentPlan`), `StageInput` (with `R2Download` and `UrlDownload`), `RunCommand` (with `OutputLock`), `WorkDirs` and `PatchEngine` (with `TileRegion`); `Outbound_proofs` is about `R2Upload` and `EventDelivery` |

Each module abstracts the ones below it and says so: JobServer sees a transfer
succeed or fail and a child leave one of a few reports; RunCommand sees one
command at a time, which OutputLock justifies for those that lock, and leaves the
ProPainter engine to VideoPipeline; VideoPipeline sees which frames finished
parts already hold, which PartsDir is about.

### JobServer

The server is one asyncio loop, so an action is the code between two awaits.
What interleaves with those actions are the children, the worker threads and a
crash.  `mid` marks the one place where a crash between two writes of a single
handler matters and is modelled: the flag and the state of a cancel.

A *run* is one accepted submission: a coroutine (`pc`), its own record instance
(`mem`), its heartbeat (`hb`), its child (`child`), and the cancel waiting for
that child in `_kill` (`killer`).  Runs share, by job id, the maps `_records`
(`recOf`) and `_procs` (`procOf`), the document on disk (`disk`), and the work
directory (`work`).  `heard` is what the control plane was told last, `stale`
the record a sweep has read and not yet used, `asked` a history variable.

`pc` follows `_run`: `weighing` is the low-disk sweep of POST /jobs, `accepted`,
`sizing` and `pulling` are `_stage_input`, `watching` is the wait for the child,
`uploading` and `aborting` are `_deliver_output` and `_abort_upload`, `telling`
is `Notifier.terminal`, `reclaiming` and `noting` are the two halves of
`after_delivery`, and `telling_failure` is the event of `_fail`.

What the environment may do is the constant `Env`, so that a run can ask a
question about crashes alone or about deletions alone.  Abstractions, by name:

* a report is one of a few outcomes; `error` stands for every one that becomes `failed`,
  `short` for `ok` with a negative coverage verdict;
* a report that says `ok` may be about an output that is gone when the server looks for
  it (`vanish`), which `_deliver_output` checks;
* a record is its state, its cancel flag and whether it has an output key;
* a transfer or a post with its bounded retries is one step, whose result may be any of
  those the code can see;
* `output.kind = "local"` and the `detecting` state, which no code of the server sets,
  are left out; saves succeed (RecordSaves has those that fail); one cancel at a time
  waits in `_kill`;
* children die with the server unless `Env` has `survivor`;
* a child of the same output as another one that still runs would be refused by the
  output lock and report it; that is within what `ChildEnds` may do.

`JobLife` is what is left of this for the control plane: three functions of the job id,
the state on record, whether a cancellation is, and what was heard last.  JobServer maps
the document on disk onto the first two.  `Ends` says which ends a job may come to from
where, `Moves` the order of the phases, `Told` that only what is on record is told, and
`Rewritten` the one thing that may still happen to a record that is over.

### OutputLock and ExclusiveWriter

An flock belongs to the open file, not to its name, so the model has names,
files, descriptors and owners.  A run that dies at any point loses its
descriptor.  Some runs never lock (`Locking` is a subset of `Procs`):
`cmd_batch` and `--no-lock`.

### PartsDir

One run at a time, with one of several settings, with or without `--resume`;
between any two steps it may be killed, and while it composites it may fail.  A
part is the frame it starts at, the frames it can be read to hold, and how it was
made (the fingerprint and the shot boundaries).  `Trim` and `Clear` remove one
file each, in the code's order or the directory's; `Truncate` and `Note` are the
two halves of `write_text`; `Remove` is `shutil.rmtree(ignore_errors=True)`, which
may leave anything.  `counted` is what ffprobe says, `Actual` the frames of the
source, `until` where the pipe of this run's decoder ends: none needs to agree with
another.  A decoder may end at any frame in `Decoded`, and no exit code is read.

Left out: the segment size, which a manifest pins, and a change of the source
file between runs, which the fingerprint's size and mtime turn into different
settings.

### VideoPipeline and SegmentPlan

A frame is its number.  `dec` is the decoder thread (`pump_decode`), `pc` with
`hist`, `buf`, `read`, `pos`, `seg` the main one (`next_frame`, `emit_body`,
`emit`, the tail of the function), `enc` the compositing thread (`pump_encode`)
with the frame it holds, `sink` the `_PartSink` with the state of its ffmpeg.  A
step is what a thread does between two queue operations, so a put on a full queue
and a get on an empty one simply wait -- except where the code does not wait
(`emit` looks at the compositing thread each time a put times out).  The model is
one step that gives back one frame per frame; which numbers reach the compositor
is what the properties are about.  `Totals` are the counts probe may report,
`CutSets` the boundaries that may be detected.  Left out: retries when memory
runs out (the halving is a function in SegmentPlan), black runs, progress, audio.

### R2Download and R2Upload

R2Download: chunks are what they hold, versions, zeros or a mixture.  `from[i]` is
the version the open request for chunk i reads; `Land` is the pwrite, `Mark` the
`mark` of `_State`, which writes the state file the first time and then whenever
its timer says so (a free choice).  `Kill` keeps the disk and drops the rest.

R2Upload: R2 is an ordered list of open uploads and their parts; an ETag
identifies the content a part was cut from.  Clients run whole uploads: look for
an open one (`_find_open_upload`), list what it has (`_reusable_parts`), send the
rest, complete, and after a failure abort (the job server) or leave it (`wmrm
push`).

### RunCommand

One command at a time, over a set of videos with their outputs.  `box`, `attempt`
and `cov` are `_grow_to_cover`, whose `check_coverage` may say anything of any
box; `n` and `enc` are the staged file of `run_inpaint`; `named`, `said`,
`written` and `report` are `ReportWriter`; `failures` and `blocked` the lists of
`cmd_batch`.  A signal raises in the main thread wherever it is: in `cmd_run` it
becomes a report, in `cmd_batch`, which installs no handlers, SIGTERM ends the
process and Ctrl-C is an exception it does not catch.  The verdict of `verify` is
free.  Staged files left by an exception are not followed.

### UrlDownload and Published

A file is a sequence of blocks, each of a version and a place in it; `urlPart` is
`<dest>.part`, `urlFrom` and `pos` are the open response.  A call is up to `Attempts`
attempts, and `UrlRetry` is the one `except`.  `Ranges` says whether the server
honours a range, which it may decide per request; the object may change while
nothing of it is on disk, and with the switch `swap` at any time; with `unframed` a
body that breaks off looks complete.  `Published` sees the destination only: absent
or whole, and never taken away.

### StageInput

The two downloads side by side, with `spec.input.kind` to choose between them: a
job's source is fetched one way throughout, also after a restart, so the files of the
other one never appear.  Liveness (`Staged`) is stated here, for both, and about one
call: unless something fails yet again, a call that has not given up brings the file,
whatever it found on disk.  That a call which gave up is made again is nowhere
assumed: `POST /jobs` answers a known id without a run (`app.py:293`), and DELETE
takes the directory away (`app.py:462`).  A later call that finds the files is
possible (a directory whose record is gone, `wmrm r2`), so it is a step, not fair.  A source on
the volume needs no step; `require_space` is in WorkDirs, and R2Download's `NoSpace`
is the one of `r2.download`.

### WorkDirs

The disk has a capacity in units, a job's directory holds `heavy` of them besides
its small records, and `Free` is what is left.  Jobs, requests and `require_space`
are steps of the event loop; the sweep is a thread, and each of its steps is one
file operation that somebody can come between: reading a record (`Consider`),
removing a job's files (`Drop`), saving the note (`Note`), reading what is known
(`ReadKnown`), listing directories (`ListDirs`).  `cand` is the records it works
from.  Ages are two bits: a record past the retention window, a directory past
`ORPHAN_DIR_MIN_AGE`.  `Stuck` jobs have a file that will not go.  JobServer has the
other half of this, the coroutines that drive the jobs, two of them on one id
included.

Submissions overlap here too: `wait` is where each is that awaits its own sweep, and
what `POST /jobs` checks before the await it does not check after it (`PostAgain`).
Sweeps that overlap are taken one after the other.  A canceled job is `canceling` on
record and writes on.  `crowded` is a history variable: the jobs that ran beside
another because the record of one did not count, or because one was let in after its
sweep without regard to the slots (`Squeezed`).

### EventDelivery and Reported

One job's events: heartbeats one after the other, then the terminal one.  `wire`
is the requests the receiver has not seen; it takes one in or turns it away, and
its answer is read, lost, or too late for a send that has given up.  The receiver
is external: it knows an event it has taken in by `clientEventId`, which the module
doc of `hooks.py` relies on.  `Reported` says what is left of all this for the
runner: the control plane may hear of the end at any time, and an answer that it
has is true.

### RecordSaves

Every save of a run, each of which may fail, in the order `_run` makes them, with
the handler each failure leads to; a failure of the log file (`WMRM_RUN_LOG`) is the
switch `log`.  Staging, children, uploads and events are one step each.

### TileRegion and PatchEngine

TileRegion is `region.py` on one axis, as functions: `build_region` treats the axes
alike, and a preset is taken to meet videos of its own proportions (`scaled_px`
averages two factors that are then one).  Python's `round` takes a half to the even
neighbour.  PatchEngine runs a command over several videos.  `given` is the one box
or preset of a folder; `engine` is the engine object, with the tile its map was
fitted to and the patch `CachingBackend` holds; `box`, `knobs` and `region` belong
to the video in hand.  The pixels around the hole are one level, so that two frames
differ by a number, and a patch is the frame it was made from; `used` is a history
variable.

## 3. The runs

Passing runs.  Every property has a mutant, a plausible slip in the code of one
definition, that TLC finds violated under the same configuration.

| run | question | bounds | states |
| --- | --- | --- | --- |
| `js_crashes` | do slots, records and the life of a job survive crashes, survivors and lost events; does a sweep take live files? | 2 jobs, 2 runs, 1 slot, 2 crashes | 1,761,776 |
| `js_ends` | does the slot come back, does every record settle, does a cancel stop its child? | 1 job, 1 run, every report, a lost output, 2 crashes | 22,073 |
| `ol_exclusive` | does flock keep the promise? | 4 processes, 3 files | 320 |
| `pd_whole` | is what is published whole and made one way, is finished work kept, does it end? | 5 frames, parts of 2, 2 settings, 3 faults | 53,742 |
| `si_staged` | is a download taken up onto the right bytes, and does a call that has not given up bring the input? | 3 chunks, 2 workers; 3 blocks, 3 attempts; 2 versions, 3 faults | 29,736 |
| `ru_shared` | can two clients share a key? | 2 clients, 3 files of up to 2 parts, 2 upload ids | 347,520 |
| `vp_threads` | do three threads deliver every frame once, and stop? | 7 frames, segments and parts of 2, 3 counts, 3 sets of cuts, 2 faults | 140,809 |
| `rc_commands` | is what a command publishes and reports what it did? | 2 videos of 2 frames, 3 sizes of box, 2 rounds of growing | 223,937 |
| `wd_disk` | does a job that is let pass fit, and what does a sweep take? | 2 jobs, 3 ends, disk of 3, a job of 3, 1 slot, one may be canceled and the other leaves a file that stays | 2,747,186 |
| `hd_events` | is an event told truly, and not after the end? | 1 heartbeat, 3 attempts, 2 of the channel | 102,370 |
| `pe_repairs` | is the whole mark repaired, wherever the tile is not cut back, by an engine of its own? | boxes over 64 pixels, frames of 20, 24 and 64, 2 videos of 3 frames, 3 levels | 1,208,467 |

The bounds.  Two jobs and two runs with one slot give every conflict between two
submissions, over one id or two; two crashes let a restart itself be cut short.
`js_ends` follows one submission through everything that may happen to it, since its
properties are about one job at a time.  Five frames in parts of two make two full
parts and a short one, and three faults let a run, its repair and the repair of that
be killed.  Three files let the name of the lock stand for a new file while two old
ones are still open.  Three chunks and two workers leave one chunk waiting; three
faults are a kill, a kill of the resume and one of its resume; three blocks and three
attempts let a download break off after one, two and all of its bytes, and three
faults break every attempt of a call.  The three files of `ru_shared` are one that
needs no multipart upload and two that agree in their first part only; with two ids
an upload can be left, found and replaced.  In `vp_threads` a segment with its context
fills the queues, the cuts make a lone frame, a short shot and a merged one, and the
counts are right, too small and unknown; one fault leaves the other two threads in
every place, and two make an ffmpeg linger under a model that fails.  Two rounds of growing
have a last one and one that is not;
the areas 1, 2 and 5 with a limit of 4 are a growth that is believed and one that is
not.  In `wd_disk` a job takes the whole disk, so that the second finds room only after
a sweep; one of them may be canceled and the other cannot be emptied; three ends let a job be deleted and
submitted again under a sweep, and another come after it.  One heartbeat can be at
every place of its send when the job ends.  Frames of 20, 24 and 64 are one that is no
multiple of 8, and two between which a preset is carried, in both directions, by a
factor that is no whole number.  Three levels with a tolerance of one let frames drift
away in steps that are each within it.

The type invariants are proved (section 4), except that of RecordSaves, which TLC has
checked.  Deadlock
is checked for OutputLock, PartsDir, StageInput, R2Upload, WorkDirs and RunCommand.
The job server may stop (when every submission is used up, nothing has to happen), as
may RecordSaves, and so may VideoPipeline, EventDelivery and PatchEngine, when a run,
a call or a command is over.

One run shows a violation, `rv_stuck`, over RecordSaves: a save that fails in `_fail`
too, on a disk that is full, leaves the slot taken until a restart, which is what
`store.py:174-175` says must not happen.

### Statements that do not hold

TLC also refutes the statements below.  They are kept as definitions of their modules
but not as runs; each is had by the change of a configuration that the second column
names (and by checking the property of the third alone).

| the code | configuration | property |
| --- | --- | --- |
| two submissions of one id, both in the low-disk sweep, both start a child (`app.py:333`; 295-297 promise otherwise) | `js_crashes`, one job, no crash, `Env = {"lowdisk"}` | `OneChildPerJob` |
| two submissions pass the capacity check, wait for their sweeps and are both accepted on one slot (`app.py:313, 333, 380`; 314) | `js_crashes`, `Env = {"lowdisk"}` | `SlotsRespected` |
| a cancel is recorded, the server dies before it marks the state, and the next one calls the job interrupted, which is retried (`store.py:178-188`; `runner.py:189-190` promise otherwise) | `js_crashes`, one job and one run, `Env = {"cancel", "crash"}` | `FlagRemembered` |
| a record deleted during its reclaim is written again (`reclaim.py:181`) | `js_ends`, `Env = {"delete"}` | `DeletedStaysDeleted` |
| a sweep empties the directory of a job deleted and submitted again (`reclaim.py:316`) | `js_crashes`, one job, `Env = {"delete", "sweep"}` | `LiveFilesKept` |
| a post that raises turns a saved success into a failure (`runner.py:328`; `hooks.py:29`) | `js_ends`, `Env = {"raise"}` | `TerminalIsFinal` |
| a server that dies during a cancel leaves a record that never settles (`store.py:179`) | `js_ends`, without the disjunct about crashes | `RecordsSettle` |
| two kills, the first between the rename and the removal of the state file: zeros are published (`r2.py:336`) | `si_staged`, `Env = {"late"}` | `PublishedWhole` |
| the object is replaced while its ranges are fetched: a file of two versions (`r2.py:355`) | `si_staged`, `Env = {"swap"}` | `PublishedWhole` |
| the object is replaced and the rest of the new one appended to the old `.part` (`transfer.py:147`; 158-160) | `si_staged`, `UrlEnv = {"swap"}` | `UrlPublishedWhole` |
| a `.part` that is whole, of unknown size, is answered 416 in every attempt, and the call gives up though nothing fails (`transfer.py:163`) | `si_staged`, `Known = {FALSE}` | `Staged` |
| an ffmpeg that does not exit when its part is dropped is waited for without a limit: a model that fails and an ffmpeg that lingers hang the run (`video.py:794-795`; 749-750) | `vp_threads`, `Env = {"model", "linger"}` | `EndsAlways` |
| a compositing ffmpeg that takes no more frames and does not exit hangs the run (`video.py:794`; 749-750) | `vp_threads`, `Env = {"wedged"}` | `Ends` |
| with two slots, two jobs are let pass by the same free space (`transfer.py:111`) | `wd_disk`, `Slots = 2`, `Disk = 5`, `Floor = 1`, `Target = 2`, `Stuck = {}`, `Unwanted = {}`, `Env = {}` | `AdmittedFits` |
| with one slot, two submissions are let in after their sweeps, though the first has taken the slot (`app.py:313, 333, 380`; 314) | `wd_disk`, three jobs, `Stuck = {}`, `Unwanted = {}`, `Env = {}` | `FitsAlways` |
| with one slot, the next job is let in beside a canceled one that still writes (`runner.py:194`) | `wd_disk`, `Stuck = {}`, `Env = {}` | `FitsAlways` |
| with one slot, a sweep saves its copy of a record over that of a job deleted and submitted again, and the next job is let in beside it (`reclaim.py:181`) | `wd_disk`, `Unwanted = {}`, `Env = {"delete"}`, no submission waiting (`CONSTRAINT`) | `FitsAlways` |
| a directory without a record is taken up by a job and removed under it (`reclaim.py:239`) | `wd_disk`, `Headroom = 1`, `Floor = 1`, `Target = 2`, `Stuck = {}`, `Unwanted = {}`, `Env = {"delete", "halfway"}` | `LiveDirKept` |
| a save that fails after the child was started lets the next one run beside it (`runner.py:520`) | `rv_stuck` | `OneAtATime` |
| a tile cut back to a multiple of 8 loses the fringe of the mark (`region.py:191`) | `pe_repairs`, `Sizes = {12, 20, 30}`, `Env = {"each"}` | `FringeRepaired` |
| a preset carried to a size that is no multiple of 8: the tile is cut back and the last pixel of the mark is left (`region.py:190-192`; 182-185) | `pe_repairs`, `Sizes = {12, 24}`, `Env = {"preset"}` | `MarkRepairedAlways` |
| the same tile ends in the middle of the blend, in a hard edge (`region.py:190-192`) | `pe_repairs`, `Sizes = {12, 24}`, `Env = {"preset"}` | `FadesOutAlways` |
| one engine for a folder puts a patch of one video on the next (`cli.py:865`) | `pe_repairs`, `Sizes = {24}`, `Levels = {0, 1, 2, 3}`, `Env = {"preset"}` | `PatchFits` |
| one map for a folder, fitted before the box grows, is put on another tile (`cli.py:862-864`) | `pe_repairs`, `Sizes = {64}`, `Frames = 1`, `Hold = 1`, `Levels = {0}`, `Env = {"preset", "unblend", "grow"}` | `MapFits` |
| a ProPainter decoder that dies ends the video, and the short one is joined and published (`video.py:1594-1597, 1633, 1645`; 133, 1636) | `pd_whole`, `Decoded = {3, 5}` | `WholeVideo` |
| a decoder that dies makes a shorter video, published (`pipeline.py:167`; 7-9) | `rc_commands`, one file, `Areas = {1}`, `Env = {"short"}` | `WholeOutputs` |
| a send that raises what is no `httpx.HTTPError` skips the announcement (`hooks.py:250, 280`; 195) | `hd_events`, `Raising = TRUE` | `PersonToo` |
| a report that cannot be written is given up in silence, and a run ends without one (`report.py:277-280`; 159) | `rc_commands`, one file, `Areas = {1}`, `Env = {"unwritable"}` | `Reported` |
| a signal while the report is written leaves none (`report.py:269`; 159) | `rc_commands`, one file, `Areas = {1}`, `Env = {"signal", "late"}` | `Reported` |

### What the passing runs leave out, and why

Each switch that is missing from the `Env` of a passing run, and each bound that
excludes a case, does so because the property does not hold there: those of the
table above, and these.

* *A cancel frees the slot first.*  `cancel` marks the record, which is no longer
  counted, and then waits for the child (`runner.py:194`); a child that survives
  the server is not looked for at all.  `SlotsRespected` counts wanted runs.
* *A submission that waits for a sweep* is not checked again (`app.py:333`), neither
  for its id nor for the slots: `SlotsRespected`, `OneRecord`, `CancelNotRetried`,
  `LivesOnce` and `LiveFilesKept` are checked, and proved, without `lowdisk`.
* *`canceling` is not final and not live*, so no restart settles it.  For the same reason
  DELETE takes it for finished (`app.py:458`): a new submission of the id then has two
  coroutines, the sweep may empty its directory, and the next cancel may be lost.
  `OneRecord`, `CancelNotRetried`, `LivesOnce` and `LiveFilesKept` are checked
  without `delete`.
* *A crash loses a cancel's reason.*  The restart reads live records as
  interrupted, also when the flag was written and the state was not: `FlagRemembered`,
  of the table, is what the comment of `cancel` says.  `CancelNotRetried` is about
  servers that do not die between the two, and about the flag itself on any.
* *A cancel while the input is staged* finds nothing to signal (`runner.py:240`);
  the child is started and runs to its end.
* *An end that is not told.*  A crash after the state is saved and before it is
  posted (`runner.py:308`); nobody posts it later.
* *An interrupted job that is sent again* is not run again: its id is known
  (`app.py:293`), although `README.md:1090` says to run it again; deleting it first
  removes its parts.
* *`cmd_batch` takes no lock* (`cli.py:934`), so `OneWriter` is about those that do.
* *A frame count that ends inside a part* fails every run of that video
  (`video.py:729`), and a part cut short there may be taken for complete, which the
  join then refuses.  Such counts are in `MCCounts`; `Finishes` and `ResumeKeeps`
  leave them out (`CountFits`).
* *A torn manifest* is treated as none, so a kill while it is rewritten throws
  finished parts away.  `ResumeKeeps` is about a manifest that can be read.
* *A decoder that dies early* (`video.py:1594-1597`) is taken for the end of the
  video: its exit code is never read, and what is joined is compared with what was
  decoded (1633, 1645).  `Delivered` says no more than that; `WholeVideo` is checked
  for decoders that reach the end (`Decoded = {5}`), and refuted above for one that
  does not.
* *An ffmpeg that lingers* is killed after `STALL_LIMIT` where a part is finished
  (`video.py:755`), and waited for without a limit where it is dropped (`video.py:794`):
  `Ends` ends there (`Lingers`).  One that is `wedged` hangs the run the same way.
* *An error of the decoder thread* is recorded after its sentinel (`video.py:1333`).
* *Beyond a plan that was too short* a resumed run has no left context;
  `SameBlocks` is about planned segments.
* *An object that is put back* (R2Download's `revert`): the state file is written
  late, so an old one may still be there when the part was begun anew for another
  version, and it is believed when its own version returns.
* *Parts are reused by number and length* (`r2.py:552`), so a file of the same size
  is mixed with an older one's parts.  `RightLengths` says what is ensured.
* *A tile that is cut back.*  At an extent that is no multiple of 8, such as 540, 854
  or 1366, a tile whose margin reaches into the last piece of a block ends before it
  (`region.py:190-192`).  The box keeps its repair at every size (`BoxRepaired`); the
  rest of the mark, its soft edge and the fading do not: `MarkRepaired` and `FadesOut`
  are about the tiles that are not cut back (`Uncut`).
* *A send that raises.*  Only an `httpx.HTTPError` is caught (`hooks.py:250`).  Anything
  else, an invalid base URL for one, leaves `send` and `terminal` before the channel is
  told; the runner then reports a failure (JobServer's `TellRaises`), which raises
  again if the cause has not gone.  `PersonToo` is about posts that raise nothing else;
  the other two properties of `EventDelivery` hold with it, and are proved with it.
* *A report that cannot be written* (`report.py:277-280`): the OSError is swallowed, and
  `_written` is set, so `flush` does nothing.  A signal while it is written does the
  same.  `Reported` is about disks that take it and signals at any other moment.
* *A preview* reports `ok` and names an output it did not make (`cli.py:683`);
  `ReportTrue` is about the other commands.
* *A batch ends* at the first exception that is none of three kinds (`cli.py:935`);
  `Accounted` is about batches that end by themselves.

### Fairness

JobServer, `FairSpec`.  The steps of a coroutine and of `_kill` are strongly fair:
asyncio runs ready callbacks in FIFO order, so a coroutine whose await has completed
runs although requests keep coming, and every await is a bounded number of attempts with
a timeout (transfers, posts), a thread of finite work (reclaim), or the wait for the
child.  A restart happens and completes: the pod's entrypoint starts the server again.
A child that was not signalled ends by itself -- the assumption that a wedged
compositing ffmpeg contradicts for one kind of child; one that was sent SIGTERM need not
end, which is why `CancelStops` is worth checking.  No request, sweep, crash or progress
tick is fair.

VideoPipeline: each of the three threads is weakly fair, nothing else is.

PartsDir: a run takes its steps, and somebody runs the same command again, which is
what the message of a run that fails asks for (`video.py:1640`).  StageInput: a call
takes its steps and a request is answered or fails; no call is made again, neither by
the server nor, as far as `Staged` goes, by anybody else.  Nothing is assumed of kills
and failures but that there are at most `MaxFaults`.

EventDelivery: the coroutine goes on, since every request has a timeout and every
pause ends; of the receiver nothing is assumed, not even that it answers.
RecordSaves: coroutines go on, children end, and a server that is down is started.

## 4. The theorems

All are proved for every value of the constants, with the assumptions the
modules name (`ServerAssumption`, `LockAssumption`, `PartsAssumption`, ...),
by an inductive invariant `IInv`, which has the module's `TypeOK` as a part (in
R2Upload it is proved beside it).  Those of VideoPipeline and PartsDir were
checked by TLC, as invariants of their runs, before they were proved.

*JobServer.*  `TypeCorrect` is `TypeOK`, for any `Env`.  The safety theorems are
for servers on which nothing is deleted and no submission waits for a sweep
(`NoOverlap`): section 3 says what happens otherwise.  With crashes, survivors,
cancels, purges, sweeps, lost events and any number of jobs, runs and slots:

* `OneRecordCorrect`: the shared record, the coroutine's and the document agree;
* `SlotsRespectedCorrect`: wanted runs fit the slots (finitely many jobs);
* `TerminalIsFinalCorrect`, `HeardIsDiskCorrect`: ends are final and told as they
  are (when posting raises nothing unexpected);
* `LivesOnceCorrect`: under the same conditions the server implements JobLife, the
  initial states map to initial states and every step to a step of one job's life or to
  a stutter;
* `CancelNotRetriedCorrect`: once a cancel of a run was recorded, its flag stays on disk
  through crashes and restarts, and unless the server died before the run ended, the job
  does not end as `interrupted`, which the control plane would send again;
* `LiveFilesKeptCorrect`: no sweep, reclaim or late end of a cancel removes the finished
  file of a job that is moving and that nobody cancelled.

The properties are not inductive.  What they need: a run holds its job from
acceptance on; a coroutine that still drives is found under its id in both maps,
so that no two runs drive one job; its record is live or canceling and equals the
one on disk; a heartbeat ends with its run (`HeartbeatsEnd`); a stale copy a sweep
holds is of a terminal record that nobody will change; a server that is down or
starting drives nothing.  `SlotsRespected` follows because distinct wanted runs have
distinct live records, and a submission is accepted only below the limit.
`CancelNotRetried` needs more (`Cancels`): the flag stays in the coroutine's record
until the run ends, and the verdict that waits for an upload is never `interrupted`;
and, for what comes after (`OnRecord`), that the record on disk keeps both.
`LivesOnce` needs (`Lives`) what the record says at each place of a coroutine, so that
no state is skipped backwards or twice, and (`Blank`) that a record nobody made is not
flagged, which holds because no step of a life flags one.
`LiveFilesKept` needs (`Files`) that a record which is over, or whose cancel was
recorded, stays so, and that whoever waits in `_kill` has recorded one.

*OutputLock.*  The invariant ties descriptors to owners: a run writes only while
it owns the file it has open, and all runs that have a file open have the one the
name stands for, because the name is never removed.  Exclusion, the cause of a
refusal and the refinement follow.

*PartsDir.*  The invariant says, for each place of the run, what the parts are
made of: the run's own making once they are cleared or found to match, and the
manifest's whenever there is one.  The joined file and the published one are of
one making: `DescribedCorrect`, `OneMakingCorrect`.

`WInv` adds the frames: a part on disk begins where its number says and is no longer
than a part; the open one ends where the run is; a run that joins has reached the end;
a run that resumed with a count that fits has no part beyond the one it is at.  From
the number of frames alone, which is all that `_join_parts` compares, the contiguity of
the names and those bounds it then follows that no part is short:
`WholeVideoCorrect`, under `AllDecoded`: every decoder reaches the end of the source.
`ResumeKeepsCorrect` needs no such hypothesis.  `ResumeKeepsCorrect` is about steps: what is complete when a
matching run starts is not touched.  The frames of a video are a set in the model,
which is counted; a sum over its parts would take an induction.

*VideoPipeline.*  For any length, boundaries, parameters, depth of the queues and `Env`.
`PlanSoundCorrect` is about `_segment_plan` alone: the kept boundaries rise from 0, at
least `min_shot` apart; the segments of a shot follow one another; so do those of all
shots (`Chain`).  The conjuncts of `IInv` follow the frames through the threads: what is
in `qIn` is what was decoded and not read, with the end after it once it was told
(`Fed`); `hist` and `buf` are the frames around `pos` (`Gathered`), `pos` is where the
planned segment begins (`Placed`); `todo` is what is inferred and not sent (`Owed`);
`qOut` is what was sent and not written (`Handed`); and when which thread has ended
(`Told`, `Ended`).  From them `InOrderCorrect`, `SameBlocksCorrect`, `DeliveredCorrect`
and `TypeCorrect`, and, unless an ffmpeg may be wedged, `SinkAloneCorrect`: the main
thread closes or drops parts only when the compositing thread has ended. `HalvedWhole`
is about a block that does not fit in memory: its halves, with the context they share,
give back the frames of the block.  The induction that the kept boundaries and the
concatenated shots need is done by hand, by a least counterexample.

*R2Download* (in `StageInput_proofs`).  Under `Orderly`, that is without `swap`, `late`
and `revert` (each of which breaks the theorems, section 3): every chunk a state file or
a running download calls done holds the bytes of the version it names, a version that
was named is not newer than the object, and a run that renames has fetched everything.
`PublishedWholeCorrect`, `RecordedIsWrittenCorrect` and `ProgressKeptCorrect` follow.

*UrlDownload* (there too).  `UrlTypeCorrect` and `NothingLost` (no byte on disk is lost)
hold for any environment.  Under `UrlOrderly` -- the object is not replaced while a part
of it is on disk, its contents have one length, and the size was sent wherever an early
end would go unnoticed -- the `.part` is a beginning of the object the open response
reads, and that response goes on where the `.part` ends.  A file that is renamed is then
whole: `WholeAtDestination`, and `Refines`, that the download implements Published.

*StageInput.*  A step of it is a step of one download that leaves the other one alone, so
that what is proved of each holds of both side by side: `StagedWhole`,
`StagedProgressKept`, `StagedImplements`.

*R2Upload.*  Every part of an upload is of the length some file has there, every
ETag a client holds was checked or sent by it, and an upload is completed from
those alone, so that what other clients do to it in between does not matter:
`RightLengthsCorrect`.  When clients abort what fails and none was killed, every open
upload has a client that is at work on it or is about to abort all it finds
(`Attended`), and no id is open twice (`Apart`): `NothingLeftCorrect`.

*EventDelivery* (in `Outbound_proofs`, as R2Upload).  For any number of
heartbeats and attempts, and whatever posting raises: the receiver counts an event once (`TakenInOnce`), an answer that was read is of an event it has, and heartbeats are
over when the terminal event begins.  `KeepsPromiseCorrect` is the refinement of
`Reported`, `BeatsStopCorrect` an action property, `EventTypeCorrect` the types.

*WorkDirs.*  For any number of jobs and slots and any disk: the sweep's copy of a record
agrees with the file, or the two are about different ends (`Agree`), so that what it
takes is due by the file too, or taken for want of space: `OnlyCopyKeptCorrect`.  While
it lists directories, one made since it read the records is young (`Young`):
`NewDirKeptCorrect`.  `TypeCorrect` includes that the disk is never over its capacity,
which rests on a count of its units (`OneChanges`).  `AdmittedFitsCorrect` is for one
slot: two jobs run at a time only if one was squeezed in beside the other (`Together`),
so what a job that was not was let pass for nobody else takes.

*RunCommand.*  Under `Undisturbed`, that is without an early end of the decoder, with a
report that can be written and no signal while it is (section 3): for any number of videos,
frames, boxes and rounds, `WholeOutputsCorrect`, `JudgedCorrect`, `ReportTrueCorrect`,
`ReportedCorrect` and `AccountedCorrect`.  None of the five is inductive.  `TypeCorrect`
is a part of the same invariant.  The invariant adds which command is where and what it
holds there (`Placed`), that the verdict is about the box until the gate is passed
(`Measured`), that what a run is about to say is true and nothing is on disk before
(`Speaks`), and that whatever a batch has not got to is still on its list (`Counts`).

*PatchEngine.*  For any sizes of video, boxes, presets, levels and tolerances, and for
any `Dilate`, `Feather` and `Margin` with a margin of at least twice what the repair and
its soft edge take (`MarginAssumption`; of the code's defaults, 5, 12 and 64, that is 58).
The lemmas follow a box through `region.py`: rounding is off by a half at most
(`RoundBounds`), clamping keeps the box in the frame and alignment keeps what it must
cover (`ClampWithin`, `AlignCovers`), so the tile holds the hole and the hole the box
(`RegionAround`).  A margin that is twice as wide outgrows, at any scale, the rounding of
the three knobs (`MarginOutgrows`, `ScaledHolds`), and the repair's one pixel more than
the box makes up for the rounding of its place and end (`BoxForMarks`), as it does when
the box grows (`MarksGrow`).  The invariant says of a folder's preset that it is the box
it was given for (`Commanded`), of the box of the video in hand that it has the mark in
it up to that rounding (`Boxed`), of the region that it is of that box, size and knobs
(`Regioned`), and of an engine that it remembers patches of frames it was used on
(`Remembered`) and, where each video has its own, of this video, as many frames ago as
it was used since, with the map of this tile (`Own`).  `RepairedCorrect` and
`OwnMemoryCorrect` follow; TLC had checked the invariant before.  Of `Repaired`, the box
is covered at every size, the mark and the fading where the tile is not cut back
(`Uncut`), which `_align_span` does at sizes that are no multiple of 8.

Model-checked only: the liveness properties (`SlotsComeBack`, `RecordsSettle`,
`CancelStops`, `Finishes`, `Staged`, `Ends`, `PersonToo`), which are out of the prover's
reach.  Every other property of the passing runs is a theorem.

What the proofs brought to light in the models.  `DecideOutcome` had a CASE with
two arms that may both be true, of which TLC takes the first and a prover neither; it
is an IF now, as in the code.  And `PipelineAssumption` did not say that `NoPart`, which
stands for no part at all, is no number.  And `AdmittedFits`, without the words about a
replaced record, held in its run only because two ends of jobs were too few for what
refutes it; the other two ways were missing from the model (`FitsAlways`, section 3).
`Repaired` had been checked with a margin that leaves no room for rounding, which no
setting of the code has, and said nothing of
the relation of the three knobs; `MarginAssumption` does.

## 5. Not modelled

Image processing, detection and interactive tools (no state to interleave; of the
region and the engines what moves pixels about is modelled, the pixels are not);
configuration, authorisation and request validation (stateless); installation
scripts; the vendored model.  `PROJECT.json` gives the reason for each part.

## 6. The plan

1. *(done)* JobServer, its checks and its first invariants proved.
2. *(done)* OutputLock implementing ExclusiveWriter; PartsDir.
3. *(done)* The R2 transfers, with their theorems.
4. *(done)* The ProPainter threads and the segment plan.
5. *(done)* The commands: coverage loop, staged outputs, reports, batches.
6. *(done)* The URL download, which implements Published, and the staging of a job's
   input that composes both downloads; the retries of one event,
   which implement Reported; the disk and its sweep; saves that fail.
7. *(done)* The region arithmetic and the engines over the videos of a folder.
8. The pure algorithms left in `video.py`: automatic segment size, the retry on
   lack of memory, black runs, against reference definitions over bounded inputs.
9. *(done)* An abstract job that JobServer implements, JobLife.
10. *(done)* Proofs: JobServer, PartsDir, VideoPipeline with the segment plan, the
    transfers and their composition, EventDelivery, WorkDirs, PatchEngine.
