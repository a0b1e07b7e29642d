---------------------------- MODULE LaserControl ----------------------------
(***************************************************************************)
(* The control window of the application (ULSMainWindowController.m) and   *)
(* the laser machine it drives: connection, job control, progress polling, *)
(* simulation playback and import.                                         *)
(*                                                                         *)
(* Every handler runs on the main thread, so handlers do not interleave    *)
(* with each other: each is one action with at most one exchange with the  *)
(* machine that matters.  Only startJob has several (the status query, the *)
(* chunks of the job, START_JOB), between which the machine goes on and    *)
(* the process may end: it is one action for each.  The modal alerts stop  *)
(* the default-mode timers, and the main-queue blocks that may run inside  *)
(* an alert commute with what the handler still does.                      *)
(* What interleaves is: window controls, menu items (always enabled: they  *)
(* have an explicit target and nothing validates them), the repeating      *)
(* timers, the 2 s clean-up blocks, the import sheet's completion handler, *)
(* the end of the process, and the machine.                                *)
(*                                                                         *)
(* Left out: text, colours, progress bar, page layout; the coordinates of  *)
(* a move; the content of a job (one value of Jobs stands for a job object *)
(* and its compiled data); failing memory allocation.                      *)
(***************************************************************************)
EXTENDS LaserLink

CONSTANTS
  JobChunks,     \* bulk writes that carry one job
  MaxOrphans,    \* bound: progress timers nobody can invalidate any more
  MaxConnects,   \* bound: successful connects of one process
  MaxCleanups,   \* bound: clean-up blocks waiting at once
  MaxRelaunches  \* bound: times the process ends and is started again

ASSUME ChunksAssumption == JobChunks \in Nat \ {0}

ASSUME BoundsAssumption ==
  /\ MaxOrphans \in Nat
  /\ MaxConnects \in Nat
  /\ MaxCleanups \in Nat
  /\ MaxRelaunches \in Nat

VARIABLES
  opState,         \* _operationState
  progressTimer,   \* _progressTimer # nil: the timer a handler can invalidate
  orphanTimers,    \* live progress timers that _progressTimer no longer names
  device,          \* self.device: "null" or "open"
  isConnected,     \* self.isConnected
  leaked,          \* an open handle was overwritten; it holds the device open
  posTimers,       \* live repeating updatePosition timers
  currentJob,      \* self.currentJob
  previewJob,      \* preview.currentJob
  importSheet,     \* the open panel is attached to the window
  starting,        \* where startJob is: not in it, "send"ing the job or at "start"
  sent,            \* chunks sent (uls_send_job_data's offset)
  kept,            \* the machine took every chunk of this transfer
  simTimer,        \* _simTimer # nil
  simulation,      \* _simulation: "none", "open", or "ended" (_simTime = totalTime)
  previewSim,      \* preview.simulating and preview.simulation # NULL
  cleanups,        \* dispatch_after blocks not yet run
  interactionMode, \* _interactionMode
  previewMode,     \* preview.interactionMode
  machine,         \* the machine's own state
  loaded,          \* the job in the machine's buffer
  cmd,             \* the command the last step delivered to the machine
  relaunches       \* times the process was started again

opVars    == <<opState, progressTimer, orphanTimers>>
linkVars  == <<device, isConnected, leaked, posTimers>>
jobVars   == <<currentJob, previewJob, importSheet>>
startVars == <<starting, sent, kept>>
simVars   == <<simTimer, simulation, previewSim, cleanups>>
modeVars  == <<interactionMode, previewMode>>
wireVars  == <<machine, loaded, cmd>>
vars == <<opVars, linkVars, jobVars, startVars, simVars, modeVars, wireVars, relaunches>>

Modes == {"Design", "Jog"}

OpOK ==
  /\ opState \in {"Idle", "Running", "Paused"}
  /\ progressTimer \in BOOLEAN
  /\ orphanTimers \in 0..MaxOrphans

LinkOK ==
  /\ device \in {"null", "open"}
  /\ isConnected \in BOOLEAN
  /\ leaked \in BOOLEAN
  /\ posTimers \in 0..MaxConnects

JobOK ==
  /\ currentJob \in Jobs \cup {NoJob}
  /\ previewJob \in Jobs \cup {NoJob}
  /\ importSheet \in BOOLEAN

StartOK ==
  /\ starting \in {"no", "send", "start"}
  /\ sent \in 0..(JobChunks - 1)
  /\ kept \in BOOLEAN

SimOK ==
  /\ simTimer \in BOOLEAN
  /\ simulation \in {"none", "open", "ended"}
  /\ previewSim \in BOOLEAN
  /\ cleanups \in 0..MaxCleanups

ModeOK ==
  /\ interactionMode \in Modes
  /\ previewMode \in Modes

WireOK ==
  /\ machine \in MachineStates
  /\ loaded \in Buffers
  /\ cmd \in Commands \cup {"none"}

TypeOK ==
  /\ OpOK /\ LinkOK /\ JobOK /\ StartOK /\ SimOK /\ ModeOK /\ WireOK
  /\ relaunches \in 0..MaxRelaunches

\* A new process: the window controller's init, and the machine as it idles.
Init ==
  /\ opState = "Idle"
  /\ progressTimer = FALSE
  /\ orphanTimers = 0
  /\ device = "null"
  /\ isConnected = FALSE
  /\ leaked = FALSE
  /\ posTimers = 0
  /\ currentJob = NoJob
  /\ previewJob = NoJob
  /\ importSheet = FALSE
  /\ starting = "no"
  /\ sent = 0
  /\ kept = TRUE
  /\ simTimer = FALSE
  /\ simulation = "none"
  /\ previewSim = FALSE
  /\ cleanups = 0
  /\ interactionMode = "Jog"
  /\ previewMode = "Jog"
  /\ machine = "ready"
  /\ loaded = NoJob
  /\ cmd = "none"
  /\ relaunches = 0

-----------------------------------------------------------------------------
(* One bulk write of a command, as the machine sees it.                    *)

Silent == cmd' = "none" /\ UNCHANGED <<machine, loaded>>

Deliver(c) ==
  /\ Accept(c, machine, loaded, machine', loaded')
  /\ cmd' = c

Succeeds(c) == Deliver(c)
Fails(c)    == "write" \in Faults /\ (Deliver(c) \/ Silent)

(* What the end of updateUIState does to the preview.                      *)
UpdateUIState(op, simulating, mode) ==
  IF op # "Idle" \/ simulating THEN "Design" ELSE mode

\* A handler begins when the main thread is not inside startJob.
Handler == starting = "no" /\ UNCHANGED startVars

\* Controls of the window are unreachable while the import sheet covers it.
WindowFree == ~importSheet

-----------------------------------------------------------------------------
(* Connection.                                                             *)

\* uls_find_devices: no USB device has the vendor's id and a supported product id.
NoDeviceFound == "absent" \in Faults

\* uls_open_device opens the device exclusively, and a process that still holds
\* it, by its handle or by one it has lost, is refused like any other.
HeldByProcess == device = "open" \/ leaked

\* connectLaser, the search finds nothing (or only a device that another process
\* holds, with no handle here to lose): then updateUIState.
ConnectFindsNothing ==
  /\ Handler
  /\ NoDeviceFound
  /\ previewMode' = UpdateUIState(opState, simTimer, previewMode)
  /\ Silent
  /\ UNCHANGED <<opVars, linkVars, jobVars, simVars, interactionMode, relaunches>>

\* connectLaser, uls_open_device succeeds: nobody holds the device open.
ConnectOpens ==
  /\ Handler
  /\ ~HeldByProcess
  /\ posTimers < MaxConnects
  /\ device' = "open"
  /\ isConnected' = TRUE
  /\ posTimers' = posTimers + 1
  /\ previewMode' = UpdateUIState(opState, simTimer, previewMode)
  /\ Silent
  /\ UNCHANGED <<opVars, leaked, jobVars, simVars, interactionMode, relaunches>>

\* connectLaser while this process already holds the device: USBDeviceOpen
\* refuses, and the NULL it returns overwrites the handle in use.
ConnectRefused ==
  /\ Handler
  /\ HeldByProcess
  /\ device' = "null"
  /\ leaked' = TRUE
  /\ previewMode' = UpdateUIState(opState, simTimer, previewMode)
  /\ Silent
  /\ UNCHANGED <<opVars, isConnected, posTimers, jobVars, simVars, interactionMode, relaunches>>

\* Mutant of MayDisconnect: the check for a running operation is dropped.
MayDisconnectAlways == TRUE

MayDisconnect == opState = "Idle"

\* disconnectLaser; not idle, it only shows an alert.
DisconnectLaser ==
  /\ Handler
  /\ MayDisconnect
  /\ device' = "null"
  /\ isConnected' = IF device = "open" THEN FALSE ELSE isConnected
  /\ previewMode' = UpdateUIState(opState, simTimer, previewMode)
  /\ Silent
  /\ UNCHANGED <<opVars, leaked, posTimers, jobVars, simVars, interactionMode, relaunches>>

-----------------------------------------------------------------------------
(* Motion and laser parameters.                                            *)

\* Mutant of MayMove: the operation state is not asked.
MayMoveAlways == device = "open"

\* The check every jog handler and homeLaser begins with.
MayMove == device = "open" /\ opState = "Idle"

\* homeLaser, from the menu item or the button.
HomeLaser ==
  /\ Handler
  /\ MayMove
  /\ Succeeds("HOME") \/ Fails("HOME")
  /\ UNCHANGED <<opVars, linkVars, jobVars, simVars, modeVars, relaunches>>

\* jogLeft, jogRight, jogUp, jogDown: the buttons are enabled only when
\* connected, idle and not simulating; a failed position query is ignored.
Jog ==
  /\ Handler
  /\ WindowFree /\ isConnected /\ ~simTimer
  /\ MayMove
  /\ Succeeds("MOVE") \/ Fails("MOVE")
  /\ UNCHANGED <<opVars, linkVars, jobVars, simVars, modeVars, relaunches>>

\* mouseDown in the preview: in jog mode it becomes moveToolToX.
PreviewClick ==
  /\ Handler
  /\ WindowFree /\ previewMode = "Jog"
  /\ MayMove /\ isConnected
  /\ Succeeds("MOVE") \/ Fails("MOVE")
  /\ UNCHANGED <<opVars, linkVars, jobVars, simVars, modeVars, relaunches>>

\* powerFieldChanged, speedFieldChanged: the fields are never disabled.
\* (The sliders and the material menu send the same from idle only.)
SetPowerOrSpeed ==
  /\ Handler
  /\ WindowFree /\ device = "open"
  /\ Succeeds("SET") \/ Fails("SET")
  /\ UNCHANGED <<opVars, linkVars, jobVars, simVars, modeVars, relaunches>>

InteractionModeChanged ==
  /\ Handler
  /\ WindowFree /\ opState = "Idle" /\ ~simTimer
  /\ \E mode \in Modes : interactionMode' = mode /\ previewMode' = mode
  /\ Silent
  /\ UNCHANGED <<opVars, linkVars, jobVars, simVars, relaunches>>

-----------------------------------------------------------------------------
(* Job control.                                                            *)

\* jobCompleted: updateUIState, then the preview's mode is restored.
JobCompleted ==
  /\ opState' = "Idle"
  /\ progressTimer' = FALSE
  /\ previewMode' = interactionMode

\* Mutant of JobError: the timer goes, the operation state stays.
JobErrorKeepsState ==
  /\ progressTimer' = FALSE
  /\ UNCHANGED opState
  /\ previewMode' = UpdateUIState(opState, simTimer, previewMode)

\* jobError: like jobCompleted, but the preview's mode stays as it is.
JobError ==
  /\ opState' = "Idle"
  /\ progressTimer' = FALSE
  /\ previewMode' = UpdateUIState("Idle", simTimer, previewMode)

\* startJob on a paused job resumes it.
ResumeJob ==
  /\ Handler
  /\ device = "open" /\ currentJob # NoJob
  /\ opState = "Paused"
  /\ \/ /\ Succeeds("RESUME")
        /\ opState' = "Running"
        /\ previewMode' = UpdateUIState("Running", simTimer, previewMode)
     \/ /\ Fails("RESUME")
        /\ UNCHANGED <<opState, previewMode>>
  /\ UNCHANGED <<progressTimer, orphanTimers, linkVars, jobVars, simVars,
                 interactionMode, relaunches>>

\* Mutant of CanStart: the device's answer is not looked at.
CanStartUnchecked ==
  /\ device = "open" /\ currentJob # NoJob
  /\ opState # "Paused"

\* startJob otherwise: nothing is sent unless the status query says READY.
\* It does not ask whether a job is already running.
CanStart ==
  /\ device = "open" /\ currentJob # NoJob
  /\ opState # "Paused"
  /\ "READY" \in StatusResults(machine)

\* startJob asks for the status and compiles; from here to its end no other
\* handler runs, but the machine goes on.
StartJob ==
  /\ starting = "no"
  /\ CanStart
  /\ progressTimer => orphanTimers < MaxOrphans
  /\ starting' = "send"
  /\ Silent
  /\ UNCHANGED <<opVars, linkVars, jobVars, sent, kept, simVars, modeVars, relaunches>>

\* What the machine's buffer is to hold after the next chunk.
NextData == IF kept /\ sent + 1 = JobChunks THEN currentJob ELSE PartialJob

StartEnds == starting' = "no" /\ sent' = 0 /\ kept' = TRUE

\* The next chunk of uls_send_job_data reaches the machine.
SendChunk ==
  /\ starting = "send"
  /\ loaded' = AfterData(machine, loaded, NextData)
  /\ IF sent + 1 = JobChunks
     THEN starting' = "start" /\ sent' = 0 /\ kept' = TRUE
     ELSE starting' = "send" /\ sent' = sent + 1 /\ kept' = (kept /\ machine = "ready")
  /\ cmd' = "none" /\ UNCHANGED machine
  /\ UNCHANGED <<opVars, linkVars, jobVars, simVars, modeVars, relaunches>>

\* Mutant of TransferFailed: START_JOB follows although the transfer failed.
StartedAnyway == starting' = "start" /\ sent' = 0 /\ kept' = TRUE

\* startJob returns as soon as uls_job_send reports an error.
TransferFailed == StartEnds

\* The write of a chunk reports an error: none, some or all of it arrived.
ChunkFails ==
  /\ starting = "send"
  /\ "write" \in Faults
  /\ loaded' \in {loaded} \cup {AfterData(machine, loaded, data) : data \in {PartialJob, NextData}}
  /\ TransferFailed
  /\ cmd' = "none" /\ UNCHANGED machine
  /\ UNCHANGED <<opVars, linkVars, jobVars, simVars, modeVars, relaunches>>

\* uls_start_job reports an error: the controls stay as they were, whether
\* or not the machine got the command.
StartCommandFails ==
  /\ starting = "start"
  /\ Fails("START")
  /\ StartEnds
  /\ UNCHANGED <<opVars, linkVars, jobVars, simVars, modeVars, relaunches>>

\* The job runs; a timer of an earlier run still in _progressTimer is
\* overwritten, not invalidated.
StartSucceeds ==
  /\ starting = "start"
  /\ Succeeds("START")
  /\ StartEnds
  /\ opState' = "Running"
  /\ progressTimer' = TRUE
  /\ orphanTimers' = IF progressTimer THEN orphanTimers + 1 ELSE orphanTimers
  /\ previewMode' = UpdateUIState("Running", simTimer, previewMode)
  /\ UNCHANGED <<linkVars, jobVars, simVars, interactionMode, relaunches>>

StartStep == SendChunk \/ ChunkFails \/ StartCommandFails \/ StartSucceeds

\* pauseJob while a simulation plays pauses only the simulation.
PauseSimulation ==
  /\ Handler
  /\ simTimer
  /\ simTimer' = FALSE
  /\ previewMode' = UpdateUIState(opState, FALSE, previewMode)
  /\ Silent
  /\ UNCHANGED <<opVars, linkVars, jobVars, simulation, previewSim, cleanups,
                 interactionMode, relaunches>>

PauseJob ==
  /\ Handler
  /\ ~simTimer
  /\ device = "open" /\ opState = "Running"
  /\ \/ /\ Succeeds("PAUSE")
        /\ opState' = "Paused"
        /\ previewMode' = UpdateUIState("Paused", simTimer, previewMode)
     \/ /\ Fails("PAUSE")
        /\ UNCHANGED <<opState, previewMode>>
  /\ UNCHANGED <<progressTimer, orphanTimers, linkVars, jobVars, simVars,
                 interactionMode, relaunches>>

-----------------------------------------------------------------------------
(* Simulation playback.                                                    *)

\* Mutants of PreviewLeavesSimulation: updateUIState runs before the mode is
\* restored; the preview keeps its pointer to the simulation.
PreviewModeRestoredLast == previewSim' = FALSE /\ previewMode' = interactionMode

PreviewKeepsSimulation ==
  /\ UNCHANGED previewSim
  /\ previewMode' = UpdateUIState(opState, FALSE, interactionMode)

\* The preview's mode is restored first, updateUIState has the last word.
PreviewLeavesSimulation ==
  /\ previewSim' = FALSE
  /\ previewMode' = UpdateUIState(opState, FALSE, interactionMode)

StopSimulation ==
  /\ simTimer' = FALSE
  /\ simulation' = "none"
  /\ PreviewLeavesSimulation

\* stopJob: whatever is left of a simulation goes first, and nothing else.
StopJobEndsSimulation ==
  /\ Handler
  /\ simTimer \/ simulation # "none"
  /\ StopSimulation
  /\ Silent
  /\ UNCHANGED <<opVars, linkVars, jobVars, cleanups, interactionMode, relaunches>>

\* Mutant of StopSent: the controls are reset, the machine is not told.
StopNotSent == Silent

StopSent == Succeeds("STOP") \/ Fails("STOP")

\* Otherwise STOP_JOB is sent, and the job counts as completed even when the
\* write failed.
StopJobStopsMachine ==
  /\ Handler
  /\ ~simTimer /\ simulation = "none"
  /\ device = "open" /\ opState \in {"Running", "Paused"}
  /\ StopSent
  /\ JobCompleted
  /\ UNCHANGED <<orphanTimers, linkVars, jobVars, simVars, interactionMode, relaunches>>

StopJob == StopJobEndsSimulation \/ StopJobStopsMachine

\* simulateJob: only its button starts it, so only from idle.
SimulateJob ==
  /\ Handler
  /\ WindowFree /\ opState = "Idle"
  /\ currentJob # NoJob /\ ~simTimer
  /\ simTimer' = TRUE
  /\ simulation' = "open"
  /\ previewSim' = TRUE
  /\ previewMode' = UpdateUIState(opState, TRUE, previewMode)
  /\ Silent
  /\ UNCHANGED <<opVars, linkVars, jobVars, cleanups, interactionMode, relaunches>>

\* Mutant of CleanupScheduled: the ended simulation is left as it is.
CleanupForgotten == UNCHANGED cleanups

CleanupScheduled == cleanups < MaxCleanups /\ cleanups' = cleanups + 1

\* updateSimulation reaches the end: simulationCompleted keeps the trace and
\* schedules a clean-up block.  (Its other ticks move the crosshair only.)
SimulationCompleted ==
  /\ Handler
  /\ simTimer
  /\ simTimer' = FALSE
  /\ simulation' = "ended"
  /\ CleanupScheduled
  /\ previewMode' = UpdateUIState(opState, FALSE, previewMode)
  /\ Silent
  /\ UNCHANGED <<opVars, linkVars, jobVars, previewSim, interactionMode, relaunches>>

\* Mutant of CleanupDue: a block runs that was not scheduled.
CleanupAnyTime == cleanups >= 0

CleanupDue == cleanups > 0

\* The clean-up block runs, 2 s after the end of the simulation it belongs to.
CleanupFires ==
  /\ Handler
  /\ CleanupDue
  /\ cleanups' = cleanups - 1
  /\ IF simTimer THEN UNCHANGED <<simTimer, simulation, previewSim, previewMode>>
                 ELSE StopSimulation
  /\ Silent
  /\ UNCHANGED <<opVars, linkVars, jobVars, interactionMode, relaunches>>

-----------------------------------------------------------------------------
(* updateJobProgress: every 0.5 s, for each live progress timer.           *)

ProgressDue == progressTimer \/ orphanTimers > 0

NothingToWatch == device = "null" \/ ~isConnected \/ opState = "Idle"

\* Mutants of Polled: completion is never concluded; errors count only while the
\* job is not paused.
PolledNeverDone(state) ==
  \/ state = "ERROR" /\ JobError
  \/ state # "ERROR" /\ UNCHANGED <<opState, progressTimer, previewMode>>

PolledErrorsWhileRunning(state) ==
  \/ state = "READY" /\ opState = "Running" /\ JobCompleted
  \/ state = "ERROR" /\ opState = "Running" /\ JobError
  \/ /\ state \in {"BUSY", "FAILED"} \/ opState = "Paused"
     /\ UNCHANGED <<opState, progressTimer, previewMode>>

\* What the handler makes of the answer; a failed query is ignored.
Polled(state) ==
  \/ state = "READY" /\ opState = "Running" /\ JobCompleted
  \/ state = "ERROR" /\ JobError
  \/ /\ state \in {"BUSY", "FAILED"} \/ (state = "READY" /\ opState = "Paused")
     /\ UNCHANGED <<opState, progressTimer, previewMode>>

ProgressTick ==
  /\ Handler
  /\ ProgressDue
  /\ \/ NothingToWatch /\ JobCompleted
     \/ ~NothingToWatch /\ \E state \in StatusResults(machine) : Polled(state)
  /\ Silent
  /\ UNCHANGED <<orphanTimers, linkVars, jobVars, simVars, interactionMode, relaunches>>

-----------------------------------------------------------------------------
(* Import.                                                                 *)

\* importSVG: only from idle; the sheet stays until the user answers it.
ImportSVG ==
  /\ Handler
  /\ opState = "Idle" /\ ~importSheet
  /\ importSheet' = TRUE
  /\ Silent
  /\ UNCHANGED <<opVars, linkVars, currentJob, previewJob, simVars, modeVars, relaunches>>

ImportCancelled ==
  /\ Handler
  /\ importSheet
  /\ importSheet' = FALSE
  /\ Silent
  /\ UNCHANGED <<opVars, linkVars, currentJob, previewJob, simVars, modeVars, relaunches>>

\* Mutant of UpdatePreview: the preview goes on drawing what it has.
PreviewNotUpdated == UNCHANGED previewJob

UpdatePreview == previewJob' = currentJob'

\* loadJobFromFile: the old job is freed, whatever it is being used for.
ImportLoads ==
  /\ Handler
  /\ importSheet
  /\ importSheet' = FALSE
  /\ currentJob' \in Jobs \ {currentJob}
  /\ UpdatePreview
  /\ previewMode' = UpdateUIState(opState, simTimer, previewMode)
  /\ Silent
  /\ UNCHANGED <<opVars, linkVars, simVars, interactionMode, relaunches>>

\* loadJobFromFile on a file that does not parse: the preview is not told.
ImportFails ==
  /\ Handler
  /\ importSheet
  /\ importSheet' = FALSE
  /\ currentJob' = NoJob
  /\ previewMode' = UpdateUIState(opState, simTimer, previewMode)
  /\ Silent
  /\ UNCHANGED <<opVars, linkVars, previewJob, simVars, interactionMode, relaunches>>

-----------------------------------------------------------------------------
(* The process ends (Quit, closing the window, a crash) and is started     *)
(* again: applicationWillTerminate disconnects only when idle, and the     *)
(* machine is told nothing.                                                *)

Relaunch ==
  /\ relaunches < MaxRelaunches
  /\ relaunches' = relaunches + 1
  /\ opState' = "Idle"
  /\ progressTimer' = FALSE
  /\ orphanTimers' = 0
  /\ device' = "null"
  /\ isConnected' = FALSE
  /\ leaked' = FALSE
  /\ posTimers' = 0
  /\ currentJob' = NoJob
  /\ previewJob' = NoJob
  /\ importSheet' = FALSE
  /\ StartEnds
  /\ simTimer' = FALSE
  /\ simulation' = "none"
  /\ previewSim' = FALSE
  /\ cleanups' = 0
  /\ interactionMode' = "Jog"
  /\ previewMode' = "Jog"
  /\ Silent

-----------------------------------------------------------------------------
(* The machine on its own.                                                 *)

MachineStep(from, to, buffer) ==
  /\ machine \in from
  /\ machine' = to
  /\ loaded' = buffer
  /\ cmd' = "none"
  /\ UNCHANGED <<opVars, linkVars, jobVars, startVars, simVars, modeVars, relaunches>>

MachineBegins  == MachineStep({"starting"}, "busy", loaded)
MachineEnds    == MachineStep({"busy"}, "ready", NoJob)
MachineMoved   == MachineStep({"moving"}, "ready", loaded)
MachineFails   == "fail" \in Faults /\ MachineStep({"busy", "paused"}, "error", NoJob)
MachineCleared == MachineStep({"error"}, "ready", NoJob)

MachineNext ==
  \/ MachineBegins \/ MachineEnds \/ MachineMoved \/ MachineFails \/ MachineCleared

Next ==
  \/ ConnectFindsNothing \/ ConnectOpens \/ ConnectRefused \/ DisconnectLaser
  \/ HomeLaser \/ Jog \/ PreviewClick \/ SetPowerOrSpeed \/ InteractionModeChanged
  \/ ResumeJob \/ StartJob \/ StartStep
  \/ PauseSimulation \/ PauseJob \/ StopJob
  \/ SimulateJob \/ SimulationCompleted \/ CleanupFires
  \/ ProgressTick
  \/ ImportSVG \/ ImportCancelled \/ ImportLoads \/ ImportFails
  \/ Relaunch
  \/ MachineNext

Spec == Init /\ [][Next]_vars

(***************************************************************************)
(* The main run loop serves its repeating timers and its queue, startJob   *)
(* goes on when a transfer has returned, and a job ends by itself.  Nobody *)
(* promises that the user does anything.  The clean-up block waits in the  *)
(* main queue however often startJob keeps the main thread from it, and    *)
(* runs in a pause between two starts: that is strong fairness.            *)
(***************************************************************************)
Fairness ==
  /\ WF_vars(ProgressTick)
  /\ SF_vars(CleanupFires)
  /\ WF_vars(StartStep)
  /\ WF_vars(MachineBegins)
  /\ WF_vars(MachineEnds)
  /\ WF_vars(MachineMoved)

FairSpec == Spec /\ Fairness

-----------------------------------------------------------------------------
(* Safety, in every environment.                                           *)

\* While a job is under control (Running or Paused), a progress timer that the
\* handlers can still reach is polling the machine (startJob sets the state and
\* the timer together, jobCompleted and jobError clear both).
MonitoredWhileOperating == opState # "Idle" => progressTimer

\* While a job is under control, a click in the preview cannot be a jog: the
\* preview stays in design mode through every end, pause and clean-up of a
\* simulation (updateUIState, "Preview click interaction disabled").
ClicksInertWhileOperating == opState # "Idle" => previewMode = "Design"

\* The preview draws a simulation exactly while the controller owns one, and a
\* running playback timer always has one to play: drawRect never follows a freed
\* pointer and updateSimulation's missing-simulation branch is dead.
SimulationPointersAgree ==
  /\ previewSim <=> simulation # "none"
  /\ simTimer => simulation = "open"

\* As long as there is a current job, the preview draws that job and not one that
\* loadJobFromFile has freed.
PreviewShowsCurrentJob == currentJob # NoJob => previewJob = currentJob

-----------------------------------------------------------------------------
(* Safety, when READY is the answer of a machine with nothing to do.       *)

\* The machine executes one whole job at a time: it comes to another one only through
\* an end of the first, and no import, repeated start, relaunch in the middle of a
\* transfer, failed or unreported write changes the data of a job it is executing or
\* makes it execute a part.
Execution == INSTANCE JobExecution
  WITH executing <- IF machine \in Executing THEN loaded ELSE NoJob

OneWholeJob == Execution!Spec

-----------------------------------------------------------------------------
(* Safety, when the machine and the link keep their word.                  *)

\* With the controls idle and a handle open, the machine executes no job: the
\* window never forgets a job it started.
IdleMeansStopped == opState = "Idle" /\ device = "open" => machine \notin Executing

\* No motion command of the window reaches a machine that executes a job.
NoMotionDuringJob == [][cmd' \in Motion => machine \notin Executing]_vars

\* START_JOB reaches only a machine that has no job in execution, however often
\* the start is repeated and whatever earlier commands came to.
StartOnlyWhenReady == [][cmd' = "START" => machine = "ready"]_vars

\* Disconnecting (not leaking) a handle never leaves a job in execution behind.
DisconnectOnlyWhenStopped ==
  [][device = "open" /\ device' = "null" /\ ~leaked' /\ relaunches' = relaunches
       => machine \notin Executing]_vars

-----------------------------------------------------------------------------
(* Liveness, under FairSpec.                                               *)

\* A finished job is noticed, unless the user takes over first.
FinishNoticed ==
  (opState = "Running" /\ machine = "ready") ~> (opState # "Running" \/ machine # "ready")

\* An error of the machine ends the operation, running or paused.
ErrorNoticed ==
  (opState # "Idle" /\ machine = "error") ~> (opState = "Idle" \/ machine # "error")

\* The trace of an ended simulation does not stay for ever.
TraceCleared == (simulation = "ended") ~> (simulation # "ended")

-----------------------------------------------------------------------------
(* What the source says of itself and the code does not do.                *)

\* "Stop Job" stops the job (ULSAppDelegate.m, menu item): when stopJob acts while a
\* job is under control, the machine executes nothing afterwards.
StopStopsJob == [][StopJob /\ opState # "Idle" => machine' \notin Executing]_vars
=============================================================================
