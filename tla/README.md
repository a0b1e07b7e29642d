# Verification of the ULS laser driver

TLA+ models of `uls-mac-driver`, the macOS driver for ULS laser cutters in `src/`:
what its programs, alone and against each other, promise about the machine they drive,
what becomes of a job's paths and of its simulation, of the settings in their file, and
of the threads of the panel and of the hotplug notification. TLC checks the models on
small instances, TLAPS proves the safety properties for every value of the constants.

    tlc -workers 2 -config LC_AnyFault.cfg MCLaserControl.tla
    tlapm LaserControlProofs.tla

`PROJECT.json` lists components, runs, mutants, hazards, findings and theorems, and
maps every definition to the lines it models.

## 1. The system

The program has three front ends over one C library.

| Component | Source | State it keeps | Operations |
|---|---|---|---|
| Control window | `src/src/ULSMainWindowController.m` | operation state (idle, running, paused), device handle and `isConnected`, progress, position and simulation timers, current job, simulation, interaction mode, design origin, settings | connect, disconnect, home, jog, preview click, start/resume, pause, stop, simulate, progress poll, import, settings |
| Preview | same file, `ULSPreviewView` | its own copies of the job pointer, the simulation pointer, the interaction mode; tool position | drawing, mouse clicks |
| Debug panel | `src/src/ULSDebugPanelController.m` | a weak copy of the device handle, a refresh timer, log rings, `_isDiagnosticsRunning` | periodic refresh, diagnostics on a background thread, hex console, traffic log |
| Application shell | `src/src/ULSAppDelegate.m`, `main.m` | none | menu items (always enabled), termination |
| Job library | `src/src/uls_job.c` | paths and images of a job, compiled data, simulation trace, printer settings | build, compile, send, run, simulate, look up a position by time, `.LAS` save and load, material presets |
| USB library | `src/src/uls_usb.c` | the open device (interface, pipes, cached state), log callback, hotplug thread | find, open, close, bulk transfers, commands, status and position queries, chunked job data, firmware upload, hotplug |
| SVG, PDF import | `ULSSVGParser.m`, `ULSPDFParser.m` | current point, subpath start, transformation, current path | path data and path operators into job paths |
| Command line tool | `src/src/uls_cli.c` | per-process printer settings | one command per process; an interactive debug loop |
| CUPS backend | `src/cups/uls_cups_backend.c` | cancel flag set by a signal | one print job per process, several copies |
| The machine | not in the repository | job buffer, execution state, head, beam | takes commands, answers queries, executes on its own |

How they interact. The window and the panel call the library directly and hold the
same `ULSDevice *` without a lock; the library sends each command as one bulk write
and each query as a write followed by a blocking read. The machine never calls back:
the window learns of the end of a job only by polling its status every 0.5 s. Timers
and main-queue blocks interleave with the user's actions between handlers. The
preview holds second copies of pointers and modes, which the controller has to keep
in step. The job library walks the same path elements in three places (compiler,
simulation, preview).

What is hard in it, with each line, is listed under "hazards" in `PROJECT.json`. In
short: timers and delayed blocks that outlive what they were made for; checks whose
result is stale when used; commands that fail half-way, or fail after delivery; the
always enabled menu; two threads on one answer pipe; three interpreters that must
agree; a process that ends while the machine goes on.

What correctness means, per component:

* Control window: its operation state and the machine's execution agree as far as the
  link permits; a job under control is always watched and its end is noticed; no
  motion, start or disconnect hits an executing machine; the machine never executes
  part of a job; job and simulation pointers are never stale; no click moves the tool
  of a running job.
* Job library: what the machine burns is what the simulation shows and the preview
  draws; rapid moves never burn; the position looked up in a trace is the right one.
* Debug panel: every query gets the answer to itself; nothing uses a closed device.
* USB library: job data arrive whole or an error is reported; no callback after the
  hotplug registration was undone, and no device missed before.
* Tool and CUPS backend: what the machine executes is one whole job, whoever sent,
  failed or ended before; every process ends and takes its temporary file with it.
* Settings: a load that succeeds gives what one process saved or one file holds; the
  controls show what is in use; no edit, command or option leaves the range.
* Parsers: positions in the job are those of the file; parsing ends (not modelled).

## 2. The modules

### LaserLink and LaserControl

`LaserLink` is the machine behind the pipes and what one transfer may come to;
`LaserControl` extends it with the window. Every handler of the window runs on the
main thread, so handlers do not interleave with each other. The machine goes on
meanwhile. All handlers but one have at most one exchange with it that matters and are
one action, with everything they call. `startJob:` has several: the status query, the
chunks of `uls_send_job_data` and START_JOB. Between any two of them the machine may end
a motion or a job, begin one it was sent, fail, or be cleared, and the process may end; so
it is one action for each, and while `starting` is not "no" no other handler begins.

| Code | Actions |
|---|---|
| `connectLaser:` | `ConnectFindsNothing`, `ConnectOpens`, `ConnectRefused` |
| `disconnectLaser:`, `homeLaser:` | `DisconnectLaser`, `HomeLaser` |
| `jogLeft:` .. `jogDown:`, `mouseDown:` | `Jog`, `PreviewClick` |
| power and speed fields | `SetPowerOrSpeed` |
| `interactionModeChanged:` | `InteractionModeChanged` |
| `startJob:`, resuming; checks and status query | `ResumeJob`, `StartJob` |
| `uls_send_job_data`, `uls_start_job` and what follows in `startJob:` | `SendChunk`, `ChunkFails`, `StartCommandFails`, `StartSucceeds` |
| `pauseJob:` | `PauseSimulation`, `PauseJob` |
| `stopJob:` | `StopJobEndsSimulation`, `StopJobStopsMachine` |
| `simulateJob:`, `updateSimulation:`, `simulationCompleted` and its block | `SimulateJob`, `SimulationCompleted`, `CleanupFires` |
| `updateJobProgress:` | `ProgressTick` |
| `importSVG:`, its completion handler, `loadJobFromFile:` | `ImportSVG`, `ImportCancelled`, `ImportLoads`, `ImportFails` |
| end of the process and a new one | `Relaunch` |
| the machine | `MachineBegins`, `MachineEnds`, `MachineMoved`, `MachineFails`, `MachineCleared` |

The variables carry the names of the fields (`_operationState` is `opState`,
`preview.interactionMode` is `previewMode`), and `cmd` records the command the last
step delivered, for the action properties. `updateUIState`, which nearly every
handler ends with, is the operator `UpdateUIState`.

Environment. `Faults` says what may go wrong: a write that reports an error with or
without having been delivered, a failing query, a status read of zero bytes (the code
then uses an uninitialised variable: any state; the same stands for an answer that is
older than what the machine now does), a machine that reports READY for a while after
START_JOB, a machine that fails, a search that finds no device.
`PausedReports` says what a paused machine answers, which the repository does not
tell. Assumed throughout: `USBDeviceOpen` is exclusive; the modelled timers do not fire
inside an alert or a handler; memory suffices; a status answer comes or its read fails.

### ToolPath

One element of a path is taken through three interpreters: `uls_job_compile`
(together with the machine that executes its commands), `uls_job_simulate`, and
`drawRect:`. Each is a single pass over immutable elements, so walking them side by
side loses nothing. Any sequence of MOVE, draw (LINE and BEZIER) and CLOSE may come,
as the parsers hand on what a file contains. The compiler keeps `laserOn` per path,
the simulation `cur` across paths and the `batch` of strokes whose times are not yet
computed, `NSBezierPath` a pen and the start of its current subpath. `Units` maps
points to the machine's grid and need not be one to one. The head is `Somewhere`
before the first positioned element: a job is not homed first. `strayed` is a history
variable: a subpath other than the path's first has been closed. A line without a
current point makes `NSBezierPath` raise, which abandons the drawing (`blank`).

### PanelQueries

The application's one place with two threads: the debug panel's diagnostics run on a
queue of their own, the window and the panel poll on the main thread, and both use one `ULSDevice`
without a lock. A query is up to three steps of its thread, between which the other may
do anything: the call with the pointer of that moment (`DiagCalls`; on the main thread
the handler's device cannot change under it), the write (`Send`) and the blocking read
(`Receive`). The machine answers in the order of the writes, and a read takes what comes
first.

| Code | Actions |
|---|---|
| `uls_get_status`, `uls_get_position`, `uls_get_firmware_version`, `uls_bulk_write`, `uls_bulk_read` | `Send`, `SendFails`, `SendToNull`, `SendToFreed`, `Receive`, `ReceiveFails`, `ReceiveOnFreed` |
| `connectLaser:` with `setDevice:`, `disconnectLaser:` | `ConnectOpens`, `ConnectRefused`, `DisconnectLaser` |
| `refreshStatus`, `updatePosition:` and the window's other queries, `sendHexCommand:` | `RefreshStatus`, `WindowQuery`, `SendHexCommand` |
| `runDiagnostics:` and its main-queue block | `RunDiagnostics`, `DiagnosticsBlock` |
| `runDiagnosticsSequence` | `DiagSearch`, `DiagCheck`, `DiagOpens`, `DiagRefused`, `DiagEndpoints`, `DiagFollowsNull`, `DiagCalls`, `DiagEnds` |

Following a freed pointer has no defined outcome: the process crashes, or the transfer
is refused or aborted. An address may be used again by the next device. The history
variables say what has happened so far: `unplugged` (a device was closed while the
diagnostics shared it), `overlapped` (a query was sent while another waited),
`desynced` (an answer was left behind or never came), `confused` (a query took
another one's answer).

### Playback

The simulation as timed trace: `uls_job_simulate` with its batches of cut points whose
times are computed when the batch is flushed, `uls_simulation_index_at_time` round by
round, and `updateSimulation:` over both. A point is known by its time only. Durations
are chosen freely up to a bound, zero among them (a stroke without length, or one whose
time is lost in the rounding of a float sum), so the trace has equal times.

| Code | Actions |
|---|---|
| `uls_job_simulate`: MOVE; LINE, BEZIER, CLOSE; end of a path; raster lines | `RapidMove`, `AddCutPoint`, `EndPath`, `RasterLine` |
| `simulateJob:` (start of the playback) | `SimulateJob` |
| `updateSimulation:` with the search it calls | `Tick`, `Halve`, `ShowPosition`, `SimulationCompleted` |

### Sessions

The programs as processes on one machine: every tool command that touches the device,
the CUPS backend and the window as far as it competes with them. It extends `LaserLink`,
as `LaserControl` does, and looks at the link more closely: job data go in chunks
(`uls_send_job_data`), so a transfer can break off in the middle, the handle is exclusive
(`USBDeviceOpen`), the device can be unplugged and plugged in again, and a process can be
ended by a signal at any step. Of the errors of a query a timeout leaves the device usable:
`cmd_debug` goes on after it, and ends after any other. `PromptAssumption` leaves out status
answers of zero bytes and the lag after START_JOB: with them a window's start can be
misread here as it can in `LaserControl`.

| Code | Actions |
|---|---|
| `main` of the tool and of the backend, `copy_stdin_to_file`, `connectLaser:` | `LaunchTool`, `LaunchPrint`, `LaunchWindow`, `CopyInput` |
| `uls_find_devices`, `uls_open_device`, `uls_close_device` | `FindDevice`, `OpenDevice`, `Close` |
| `cmd_status`, `cmd_version`, `cmd_home` .. `cmd_ppi`, `cmd_debug` | `Status`, `Version`, `SendCommand`, `DebugRound` |
| `cmd_run`, `cmd_test`, `uls_job_run` | `LoadJob`, `TestPattern`, `SendChunk`, `StartJob` |
| `process_job` from its copies loop on, `signal_handler` | `PrintJob`, `Cancel`, `Terminate` |
| `startJob:`, progress poll, `disconnectLaser:` | `WindowStarts`, `SendChunk`, `StartJob`, `WindowIdle`, `WindowDisconnects` |

In the backend every print job fails at its import: `uls_job_import_pdf` returns
`ULS_ERROR_INVALID_PARAM` whatever the file (`src/src/uls_job.c`), so the copies loop
never comes to its transfer and what follows is not modelled. `uls_job_import_svg`
makes one rectangle of any file; its job, and the test pattern's, fit in one chunk.

### SettingsFile

The settings of a window, a tool command and a print job, and the `.LAS` file between
them. `fopen` empties the file, `fclose` writes it (the structure fits in one buffer) or,
on a full medium, does not; the save reports success either way. A process can die in
between; the file can be cut short, be replaced by what is no settings file, or by a whole
one from elsewhere (`FileReplaced`, the settings in `Foreign`), at any time. A load looks
at magic number, version and length, at no value, so a file from elsewhere brings values
out of every range, which are then held, saved and used. Loading reads straight into the
settings in use, so a short file changes a part of them although the load fails; the print
job goes on with that, the window too, its controls unchanged (`torn`). The controls may
also stay behind when the load succeeds: `updatePenSettingsUI` looks a mode that is out of
range up behind the end of its array of names, and what it reads there may end the handler
at that pen (`SomeFollow`).

### Hotplug

`uls_register_hotplug_callback`, its notification thread with its run loop, the two
callouts and `uls_unregister_hotplug_callback`, with devices coming and going at every
step. The library offers it; none of the repository's programs calls it. An IOKit
iterator notifies again only after it was read to its end, and `CFRunLoopStop` stops a
loop that runs, not one that will.

### JobExecution

The abstract specification: the machine executes nothing or one whole job, and goes from
one to another only through an end. `LaserControl` implements it where READY means ready
(`OneWholeJob`, with `executing` the job in execution); `Sessions`, where other processes
share the machine, does not (`SE_V_Run`). What still holds there for the window is `WindowStartsOwnJob`.

## 3. What the runs check

| Run | Instance | Question |
|---|---|---|
| `LC_AnyFault` | two jobs, all faults, one relaunch, one orphan timer, two connects, two clean-up blocks | what the window keeps to whatever the link and the machine do |
| `LC_Sound` | the same without relaunch; writes arrive, answers are true; the machine and searches may fail; fair timers | the window's idea of the job agrees with the machine; ends, errors and old traces are noticed |
| `LC_LostWrites` | two jobs of three chunks, one relaunch; writes and queries fail or are wrongly reported; answers are whole, a paused machine says BUSY | `startJob:` against a machine that goes on: one whole job at a time |
| `LC_V_Stop` | no faults at all | a statement of the source the code does not keep |
| `TP` | three points on two grid positions, six elements | the three interpreters agree |
| `TP_V_Close` | the same | where they do not |
| `PQ` | two addresses, one fault, fair threads | who holds which device and reads whose answer |
| `PB` | seven points, durations and ticks up to 3, fair timer | the search finds the present, the playback ends |
| `SE` | two processes of any kind, two chunks, failing writes and queries, a failing machine that reports at once and whose answers are whole, unplugging, fair processes | what survives competition, signals and unplugging |
| `SE_V_Run` | three processes, writes may fail | `JobExecution` against several processes |
| `SF` | two parts, one of them a pen, values 0 and 1, one foreign file with a 2, two settings saved | settings through an unreliable file |
| `HP` | four devices that come or go, fair threads | registration and the notification thread |

Bounds. One orphan timer suffices, as each does exactly the same and reads only shared
state; two connects are the least for a position timer to accumulate (the second comes
after a disconnect); two clean-up blocks are the least for one to meet the next
simulation; two jobs are the least for an import to replace one, and are symmetric. Two
chunks are the least for the machine to take one and not the other; three, in
`LC_LostWrites`, let it miss the one in the middle (a transfer of any length is proved
about). A relaunch lets a new process find what an old one left; `LC_Sound` has none, as a
window that was just started knows nothing of a job in the machine.
Six elements allow two closed subpaths in one path, or three paths. Three points on
two positions allow strokes with a length, without one on the grid only, and without
one at all. `TP` and the `LC` runs are checked for deadlock and have none. In `PQ` two
addresses let a freed one be used again or not; one fault is one failed transfer or one
console command without an answer, after which every answer is off by one; an aborted
read may leave two answers behind (`MaxAborted`), so that the pipe stays finite. `PQ`
is not checked for deadlock: a crash ends everything, and so does a read on both
threads with no answer to come, which `QueriesReturn` and `DiagnosticsEnd` speak about.
Seven points let the search halve three times and two batches stand between rapid moves;
durations of 0 to 3 against ticks of 1 to 3 make times equal, hit and jumped over. Two
processes are the least to compete, two chunks the least to break between; a third
process, which `SE_V_Run` needs, adds nothing to the safety properties of `SE`, which are
proved for any number. Two parts are the least for a file to be cut between them, and two
values for a mixture to be told from what was saved; the foreign file has one value out of
range and one in it, and the requests out of range go beyond both ends. Two different
settings that are saved (`MaxSaved`) are the least for two savers to disagree. Four
devices are enough for one to come at each stage of a callback. `SE`, `PB`, `PQ` and `HP` are not checked for
deadlock, as processes end, a playback ends, the bound on devices is reached, and an
unregistration that comes too early does not return.

Safety whatever happens (`LC_AnyFault`): `MonitoredWhileOperating`,
`ClicksInertWhileOperating`, `SimulationPointersAgree`, `PreviewShowsCurrentJob`.

Safety with a sound link (`LC_Sound`): `IdleMeansStopped`, `NoMotionDuringJob`,
`StartOnlyWhenReady`, `DisconnectOnlyWhenStopped`. These need the sound link: after a
STOP_JOB that failed the window is idle all the same. They need a machine without the
READY lag: `updateJobProgress:` takes the first READY as the end of the job. They say
nothing of a handle that a second connect lost.

One whole job (`LC_LostWrites`): the refinement `OneWholeJob` relates the window's error
handling to the machine's buffer through broken transfers, repeated starts, imports and
restarts of the process, with the machine going on between the transfers. It does not hold
in the environment of `LC_AnyFault`. A status answer of zero bytes, or one of before the
last command took effect, reads READY while a home moves the machine; the machine takes no
chunk until the motion ends; START_JOB, which comes after that, executes what an earlier,
broken transfer left. Theorem `OnlyMisreadsMix` says that this is the only way.

Liveness (`LC_Sound`). Fairness is only on what the run loop and the machine do by
themselves: weak on the repeating progress timer, on the next transfer of a `startJob:`
under way (each write returns) and on the machine's own steps; strong on the delayed
clean-up block, which waits in the main queue whenever a `startJob:` holds the main thread,
and runs when it is let go. Nothing is assumed of the user. A leads-to is left as soon as
the user takes over.

`TP`: `BeamFollowsFlag` and `MovesStayDark` (no rapid move burns, also from one path to
the next), `SimulationFollowsHead`, `CutsAreSimulated` (the playback hides no cut,
through batches and rounding), `SimpleCutsAreDrawn`.

`PQ`: `HandlesAccounted` (no device is used after its close or left open without a
holder, whichever thread opened it), `CrashNeedsUnplugging`, `OneAnswerPerRead`,
`OwnAnswers`, `TestDeviceAlone`: together they say that the missing lock is harmless
except in three situations, and name them: a disconnect while the diagnostics share the
device, overlapping queries on it, and an answer left in the pipe. That these three do
occur and do harm is seen in the run: their history variables become true, and with
them `crashed` and `confused`. `QueriesReturn` and `DiagnosticsEnd` are its liveness
properties, under weak fairness of each thread's transfers and of the diagnostics
(threads are scheduled, and an answer that is there is delivered) and strong fairness
of the main-queue block, as the main thread comes back to its queue between any two
handlers but may be busy again and again. Both except what blocks a read for ever: the
read has no timeout.

`PB`: `PresentIsShown` says that the search, on every trace the simulation can build,
returns the last point that is not in the future, with equal times and exact hits;
`TypeOK` that neither the flushing nor the search leaves the arrays; `PlaybackEnds`, under
weak fairness of the timer, that the search and the playback end.

`SE`: `WindowStartsOwnJob` (what begins at the window's command is the window's own
whole job, although other processes may have left data behind, and although its own
transfer may have broken off and been repeated), `TempFilesRemoved` and `SessionsEnd`,
under weak fairness of each process: the operating system runs it, and a query on a
device that is there is answered or fails (that it may wait for ever otherwise is the
subject of `PQ`).

`SF`: `LoadedWhole` (a load that says it succeeded gives what one process saved, or one
file from elsewhere holds, never a mixture), `PanelShowsPens`, and in `TypeOK` where a value
out of range can come from: edits clamp it, commands refuse it, options are passed over, so
that only a foreign file's value, at its own part, is ever held, shown or stored, through
whatever chain of loads, saves and cut files.

`HP`: `QuietWhenUnregistered`, `EventsHandled`, and `UnregisterReturns` for an
unregistration that finds the run loop running; weak fairness of the notification thread
(it is scheduled, and the client's callback returns) and of the joining client.

The violation runs, under "findings" in `PROJECT.json`: Stop ends only a finished
simulation while a job runs (`LC_V_Stop`); a second closed subpath is cut across from end
to start (`TP_V_Close`); the tool's `run` starts what another process left in the machine
(`SE_V_Run`). The last rests on two assumptions about the machine, which has no
description in the repository: it takes job data only when ready, and it keeps them until
the next job header or the end of a job.

Other departures met while modelling, which are part of the models' behaviour but have no
run of their own:

* an import sheet answered during a job frees the job in use (`ULSMainWindowController.m:1722`);
* the clean-up block of an ended simulation destroys a later one that is paused (`:1623`);
* after a failed STOP_JOB the window moves a machine that still executes (`:1505`);
* a second connect during a job replaces the handle by NULL (`:1348`), and the next poll
  takes the job for finished;
* a status answer of zero bytes is an uninitialised state (`:1421`), with which a start can
  execute part of an earlier transfer (`OnlyMisreadsMix`);
* loading settings checks no value (`uls_job.c:1482`);
* at the end of a playback the preview keeps the index of the last tick (`:1559`): the end
  of the trace is not drawn;
* a CLOSE with the beam off is a dark move of the machine and a cut in the simulation
  (`uls_job.c:555`), the only one it invents (`NoInventedCut`);
* saving settings reports success on a full medium (`uls_job.c:1450`);
* unregistering hotplug before the notification thread is in its run loop never returns
  (`uls_usb.c:945`, `MissedStopHangs`);
* a print job cancelled while it cannot have the device is reported as to be retried
  (`uls_cups_backend.c:319`).

## 4. What is proved

Every safety property of the passing runs is a theorem, for every value of the
constants. Beyond them the theorems do three things: they name *all* the ways in which a
property that the code does not keep unconditionally can fail, they give the part of each
liveness property that needs no fairness, and they implement or complete an abstract
statement. Theorems of the form `Spec /\ [][~A]_vars => P` say that no behaviour without
a step of kind `A` violates `P`; TLC shows that such steps do occur and break `P`, in the
runs named.

**Window and machine** (`LaserControlProofs`), for all jobs, bounds, faults and reports.
`TypeOK`, `MonitoredWhileOperating`, `SimulationPointersAgree` and `PreviewShowsCurrentJob`
are inductive with the type invariant. `ClicksInertWhileOperating` rests on
`MonitoredWhileOperating` and on `updateUIState` having the last word in every handler
that may restore the mode.

`OnlyMisreadsMix` holds in every environment: as long as no start is misread (`StartMisread`:
`startJob:` goes on although the machine is not ready), START_JOB reaches only a ready
machine (`StartOnlyWhenReady`) and every step of window, link and machine is a `Begin`, an
`End` or a stutter of `JobExecution` (`OneWholeJob`), whatever is lost, wrongly reported or
restarted on the way. The invariant, `StartsWhole`, says that from the true READY on the
machine stays ready, as nothing but the window's own commands moves it, that it therefore
takes every chunk, and holds the whole job when START_JOB is sent. `NoStartMisread` shows
that no start is misread in two environments: where READY means ready (whole answers, no
lag, a paused machine says BUSY; writes may be lost or wrongly reported), and where the link
keeps its word, whatever a paused machine says. `StartSafe` and `ExecutesOneWholeJob` are
the two properties there. With answers of zero bytes or a lag a start can be misread, and
neither property holds: nothing else is claimed.

`IdleMeansStopped`, `NoMotionDuringJob` and `DisconnectOnlyWhenStopped` are proved twice.
Under the assumption that no write fails, status answers are neither short nor lagging and
the process is not relaunched (`IdleStopped`, `MotionSpared`, `DisconnectSafe`), and, with
no assumption on the environment at all, for behaviours in which no job slips
(`OnlySlipsForget`). There they are proved of a window without a handle, too: idle controls
mean a machine that executes nothing (`IdleControlsIdleMachine`). A job slips in one of five
steps: a stop counted as done that did not arrive, a start reported as failed that did, an
answer that is taken for the end of a job still in execution, the end of the process during
a job, and a second connect that loses the handle during a job (`HandleLost`; the next poll,
without a handle, completes the job). `SoundLinkNeverSlips` joins the two: the assumption
excludes the first four, although searches, queries and the machine may still fail. The
fifth is the user's doing and no environment excludes it.

`StopMisses` is the exact reach of the finding of `LC_V_Stop`, in every environment: "Stop
Job" leaves a job in operation alone only if the job was started while a simulation was on
the screen, if its STOP_JOB does not reach the machine, or if a second connect lost the
handle, after which the press does nothing; otherwise `StopReaches` holds and every press
leaves a machine that executes nothing. `ChecksStillHold` says that what `startJob:` checked
of the window's own state is still so when START_JOB is sent. `CleanupStaysDue` is the
safety half of `TraceCleared`; that of `FinishNoticed` and `ErrorNoticed` is
`MonitoredWhileOperating`.

**Paths** (`ToolPathProofs`), for jobs of any length, any set of points and any rounding:
all six properties of `TP`. The invariant, `InterpretersAgree`, adds to them what links the
interpreters: inside a path the first point is the same for compiler and simulation, the
pen is where the simulation is unless the preview is blank or has strayed, and a stroke
still in the batch is kept until it is flushed. `OnlyStrayClosesHideCuts` is the reach of
the finding of `TP_V_Close`. `NoInventedCut` is the converse of `CutsAreSimulated`: every
stroke of the simulation that has a length is burned, unless a subpath is closed before
anything of it was cut (`CloseInTheDark`: M a, M b, Z). A job that draws before it moves
burns from wherever the head was, and the simulation from the corner; the statement says so.

**Debug panel** (`PanelQueriesProofs`), for any addresses and any number of faults: all six
safety properties of `PQ`. The handles need the strengthening `HandleInvariant`: the
diagnostics' own device excludes the panel's; what the main thread queries is always the
panel's open device; what the diagnostics query is open unless it was closed under them.
`OwnAnswers` needs `PipePaired`: without an overlap and a stray answer the pipe is empty or
holds just the answer the one waiting thread expects. `PanelReaders`, the safety half of
`QueriesReturn`: without a stray answer or a crash whoever reads has an answer in the pipe.
`PanelDiagAdvances`, that of `DiagnosticsEnd`: every step of the diagnostics lowers the rank
`DiagLeft`, which is at most 13 and which nothing on the main thread but a new start touches.

**Playback** (`PlaybackProofs`), for traces of any length and any times: `TypeOK` and
`PresentIsShown`. The invariant says that the times in the trace never decrease and end at
its clock, that those of the batch never decrease and are there when it has a length, and
the loop invariant of the search: the point at `lo` is past, those after `hi` are not.
From it follow `TraceOrdered` (what a binary search by time presupposes), `SearchEnds`
(each round at least halves the range) and `PlaysForward` (the drawn part never shrinks):
the safety half of `PlaybackEnds`. `TraceOnlyGrows` says that a point, once in the trace,
keeps its place and time.

**Processes** (`SessionsProofs`), for any number of processes and chunks and every
combination of the faults `Sessions` admits, which are all but short answers and the lag
(`PromptAssumption`): `TypeOK`, `TempFilesRemoved` and
`WindowStartsOwnJob`. The last needs that the window's handle is its own while it sends,
that the machine stays ready from the READY answer to START_JOB, and that the chunks in the
buffer are those sent so far. `OnlyToolsStartParts` is the reach of the finding of
`SE_V_Run`: unless a START_JOB of the tool's `run` or `test` sets the machine going on an
interrupted transfer, the processes together implement `JobExecution`; windows, print jobs
and all other commands are safe in any number. Without `PromptAssumption` a window can
misread a start and do the same (`OnlyMisreadsMix`). `SessionsAdvance`, the safety half of
`SessionsEnd`: no process but the window ever goes back, and each of its own steps but a
round of `debug` takes it further. `DeviceGivenBack`: only a process between opening and
closing has the device, so one that ended in whatever way leaves it to the next.

**Settings** (`SettingsFileProofs`), for any number of parts, any range and any foreign
files: `TypeOK`, `LoadedWhole` and `PanelShowsPens`. The second needs that a complete file
holds settings that were saved or came whole from elsewhere, and that a process that has the
file open has not changed its own meanwhile. `LoadsStitchOnce` says what a load leaves that
fails in the middle: the beginning of one such setting on top of the holder's own, never a
mixture of files.

**Hotplug** (`HotplugProofs`), for any number of devices: `TypeOK`, `QuietWhenUnregistered`,
`ResourcesOutliveThread` (port, run loop and callbacks last as long as the thread uses
them) and `NoLostWakeup`, the safety half of `EventsHandled`: a device that comes or goes
has a notification waiting or a callout reading its iterator, at whichever step it comes.
`MissedStopHangs` is about the stop that comes before the run loop: it is never made good.
`UnregisterAdvances` is about the others, the safety half of `UnregisterReturns`: each step
of the thread lowers the measure `StopLeft`, and no device that comes or goes raises it.

Assumed by the proofs: the named assumptions on constants in the modules (names differ,
bounds are natural numbers, the machine of `Sessions` reports at once and never with an
empty answer), and nothing else; what a single theorem assumes in addition stands in its
statement.

Only model-checked: the nine liveness properties (fairness and ENABLED are outside the
prover's reach; TLC checks them on the instances of `LC_Sound`, `PQ`, `PB`, `SE` and `HP`).
The ranks and wakeup invariants above leave to TLC that the next step can always be taken
and, being fair, is taken. Nothing in the models is defined by recursion.

## 5. Plan

Done: everything planned but the parsers and the firmware upload. What would add most:

1. `run` and `print` of `Sessions` together with the debug panel's second thread
   (`PanelQueries`), so that a blocked read also blocks another process.
2. Raster lines in `ToolPath`: the beam across a raster image and its trace.
3. The firmware upload's buffer, if a program comes to call it.

Of the proofs: which unregistrations are heard (`MissedStopHangs` and `UnregisterAdvances`
treat the two cases after the fact), and an abstract specification of the preview that
`Playback` and `ToolPath` both implement.

## 6. Not modelled

* The SVG and PDF parsers: interpreters of one string, or callbacks of CoreGraphics'
  scanner, inside one handler. Their outcomes, elements in any order or an error, are the
  inputs of `ToolPath` and `LaserControl`.
* What follows a successful PDF import in the backend (options, transfer, copies), as no
  import succeeds.
* Firmware upload and control transfers, which nothing calls; the traffic log and the
  parsing of console input.
* Durations of strokes, interpolation, estimates; a float sum that stalls enters `Playback`
  as strokes of no duration.
* Running out of memory; a hotplug callback that unregisters itself.
* View construction, text and colours, IOKit and CoreFoundation behind the library (their
  behaviour is the environment described above), packaging, the unit tests.
