------------------------------ MODULE Sessions ------------------------------
(***************************************************************************)
(* The programs of the repository as processes that share one machine: the *)
(* command line tool (uls_cli.c), the CUPS backend (uls_cups_backend.c)    *)
(* and, as far as it competes with them, the control window.  Each opens   *)
(* the device exclusively, works and closes it; any of them may be ended   *)
(* by a signal, and the device may be unplugged, between any two transfers.*)
(*                                                                         *)
(* Job data crosses the link in chunks here (uls_send_job_data), so that a *)
(* transfer can be broken off in the middle.  The first chunk carries the  *)
(* job header, on which the machine drops what it held.                    *)
(*                                                                         *)
(* Left out: `list' and the device discovery of the backend (no state),    *)
(* printed text, the pen and settings commands (module SettingsFile), what *)
(* the window does besides connecting, starting and disconnecting (module  *)
(* LaserControl), and, in the backend, everything that follows a           *)
(* successful PDF import: uls_job_import_pdf always returns an error.      *)
(***************************************************************************)
EXTENDS LaserLink

CONSTANT WindowChunks   \* chunks of a job of the window; the tool's jobs fit in one

ASSUME ChunksAssumption == WindowChunks \in Nat \ {0}

\* A machine that reports at once that it has started, and never an empty answer.
ASSUME PromptAssumption == Faults \cap {"lag", "short"} = {}

\* Each process is launched once; it and the job object it creates share a name.
Procs == Jobs
Nobody == NoJob

Tools == {"status", "version", "home", "move", "set", "run", "test", "debug"}
Programs == Tools \cup {"print", "window"}

Steps == {"new", "copy", "find", "open", "work", "send", "start", "poll", "operate", "close", "done"}

VARIABLES
  prog,       \* what each process runs
  pc,         \* where it is
  exit,       \* its exit code, "none" while it runs
  sent,       \* chunks of its job already sent
  cancelled,  \* g_cancelled of a print job
  temp,       \* its temporary file exists
  holder,     \* the process whose handle opens the plugged device
  plugged,    \* the device is on the bus
  machine,    \* the machine's own state
  buffer      \* the job data in the machine: chunks `got' of `of' of job `job'

procVars == <<prog, pc, exit, sent, cancelled, temp>>
wireVars == <<machine, buffer>>
vars == <<procVars, holder, plugged, wireVars>>

Empty  == [job |-> NoJob, got |-> 0, of |-> 0]
Broken == [job |-> PartialJob, got |-> 0, of |-> 0]

ChunksOf(p) == IF prog[p] = "window" THEN WindowChunks ELSE 1
Whole(p) == [job |-> p, got |-> ChunksOf(p), of |-> ChunksOf(p)]

ExitCodes == {"none", "ok", "failed", "RETRY", "CANCEL", "killed"}

TypeOK ==
  /\ prog \in [Procs -> Programs \cup {"none"}]
  /\ pc \in [Procs -> Steps]
  /\ exit \in [Procs -> ExitCodes]
  /\ sent \in [Procs -> 0..WindowChunks]
  /\ cancelled \in [Procs -> BOOLEAN]
  /\ temp \in [Procs -> BOOLEAN]
  /\ holder \in Procs \cup {Nobody}
  /\ plugged \in BOOLEAN
  /\ machine \in {"ready", "busy", "moving", "error"}
  /\ buffer \in [job : Buffers, got : 0..WindowChunks, of : 0..WindowChunks]

Init ==
  /\ prog = [p \in Procs |-> "none"]
  /\ pc = [p \in Procs |-> "new"]
  /\ exit = [p \in Procs |-> "none"]
  /\ sent = [p \in Procs |-> 0]
  /\ cancelled = [p \in Procs |-> FALSE]
  /\ temp = [p \in Procs |-> FALSE]
  /\ holder = Nobody
  /\ plugged = TRUE
  /\ machine = "ready"
  /\ buffer = Empty

Goto(p, step) == pc' = [pc EXCEPT ![p] = step]

\* The result is decided; what is left is the clean-up.
Leave(p, code) == exit' = [exit EXCEPT ![p] = code] /\ Goto(p, "close")

-----------------------------------------------------------------------------
(* Launch, connect, leave.                                                 *)

Starts(p, g) == pc[p] = "new" /\ prog' = [prog EXCEPT ![p] = g]

\* main of the tool; a command it does not know, or with arguments missing or out
\* of range, has failed before it looks for a device.
LaunchTool(p) ==
  /\ \E g \in Tools : Starts(p, g)
  /\ \/ Goto(p, "find") /\ UNCHANGED exit
     \/ Leave(p, "failed")
  /\ UNCHANGED <<sent, cancelled, temp, holder, plugged, wireVars>>

\* main of the backend: without a file name, process_job first creates a temporary
\* file for its standard input.  A wrong number of arguments, or no file, is a failure.
LaunchPrint(p) ==
  /\ Starts(p, "print")
  /\ \/ Goto(p, "find") /\ UNCHANGED <<exit, temp>>
     \/ Goto(p, "copy") /\ temp' = [temp EXCEPT ![p] = TRUE] /\ UNCHANGED exit
     \/ Leave(p, "failed") /\ UNCHANGED temp
  /\ UNCHANGED <<sent, cancelled, holder, plugged, wireVars>>

LaunchWindow(p) ==
  /\ Starts(p, "window")
  /\ Goto(p, "find")
  /\ UNCHANGED <<exit, sent, cancelled, temp, holder, plugged, wireVars>>

\* process_job, before it installs its signal handlers: standard input is copied,
\* or that fails, the file is removed and the job has failed.
CopyInput(p) ==
  /\ pc[p] = "copy"
  /\ \/ Goto(p, "find") /\ UNCHANGED <<exit, temp>>
     \/ Leave(p, "failed") /\ temp' = [temp EXCEPT ![p] = FALSE]
  /\ UNCHANGED <<prog, sent, cancelled, holder, plugged, wireVars>>

\* No device, or not to be had: the tool fails, the backend asks to be run again,
\* the window lets its user try again.
NotConnected(p) ==
  \/ prog[p] = "print"  /\ Leave(p, "RETRY")
  \/ prog[p] = "window" /\ Goto(p, "find") /\ UNCHANGED exit
  \/ prog[p] \notin {"print", "window"} /\ Leave(p, "failed")

\* uls_find_devices.
FindDevice(p) ==
  /\ pc[p] = "find"
  /\ \/ plugged /\ Goto(p, "open") /\ UNCHANGED exit
     \/ ~plugged /\ NotConnected(p)
  /\ UNCHANGED <<prog, sent, cancelled, temp, holder, plugged, wireVars>>

\* uls_open_device: refused while another process holds the device, and when it
\* has gone since it was found.
MayOpen == plugged /\ holder = Nobody

OpenDevice(p) ==
  /\ pc[p] = "open"
  /\ \/ MayOpen /\ holder' = p /\ Goto(p, "work") /\ UNCHANGED exit
     \/ ~MayOpen /\ NotConnected(p) /\ UNCHANGED holder
  /\ UNCHANGED <<prog, sent, cancelled, temp, plugged, wireVars>>

Released(p) == IF holder = p THEN Nobody ELSE holder

\* Mutant of RemoveTemp: only a job that got as far as the device cleans up.
RemoveTempIfOpened(p) == temp' = IF holder = p THEN [temp EXCEPT ![p] = FALSE] ELSE temp

RemoveTemp(p) == temp' = [temp EXCEPT ![p] = FALSE]

\* uls_close_device and the end of main (of process_job: its cleanup label).
Close(p) ==
  /\ pc[p] = "close"
  /\ holder' = Released(p)
  /\ RemoveTemp(p)
  /\ Goto(p, "done")
  /\ UNCHANGED <<prog, exit, sent, cancelled, plugged, wireVars>>

\* A signal that ends the process: none of the programs handles one, but for a
\* print job once it has its input.  The kernel closes the device.
Terminate(p) ==
  /\ pc[p] \notin {"new", "done"}
  /\ prog[p] = "print" => pc[p] = "copy"
  /\ exit' = [exit EXCEPT ![p] = "killed"]
  /\ Goto(p, "done")
  /\ holder' = Released(p)
  /\ UNCHANGED <<prog, sent, cancelled, temp, plugged, wireVars>>

\* signal_handler: the print job only takes note.
Cancel(p) ==
  /\ prog[p] = "print" /\ pc[p] \notin {"copy", "done"} /\ ~cancelled[p]
  /\ cancelled' = [cancelled EXCEPT ![p] = TRUE]
  /\ UNCHANGED <<prog, pc, exit, sent, temp, holder, plugged, wireVars>>

-----------------------------------------------------------------------------
(* One bulk write of process p.  It fails without arriving once p's handle *)
(* no longer opens the device; else it arrives, or fails and may have      *)
(* arrived.                                                                *)

WriteArrives(p) == holder = p
WriteFails(p)   == holder # p \/ "write" \in Faults

Took(c) ==
  IF Heeds(c, machine, buffer.job) THEN machine' \in LeadsTo[c] ELSE UNCHANGED machine

CommandArrives(p, c) == WriteArrives(p) /\ Took(c) /\ UNCHANGED buffer
CommandFails(p, c)   == WriteFails(p) /\ (CommandArrives(p, c) \/ UNCHANGED wireVars)

\* Chunk k of p's job on top of what the machine holds.
Received(p, k) ==
  IF k = 1 THEN [job |-> p, got |-> 1, of |-> ChunksOf(p)]
  ELSE IF buffer = [job |-> p, got |-> k - 1, of |-> ChunksOf(p)]
       THEN [buffer EXCEPT !.got = k]
       ELSE Broken

DataArrives(p, chunk) ==
  /\ WriteArrives(p)
  /\ buffer' = IF machine = "ready" THEN chunk ELSE buffer
  /\ UNCHANGED machine

DataFails(p, k) ==
  /\ WriteFails(p)
  /\ \/ DataArrives(p, Received(p, k))
     \/ DataArrives(p, Broken)
     \/ UNCHANGED wireVars

-----------------------------------------------------------------------------
(* Commands of the tool.                                                   *)

AtWork(p, programs) == pc[p] = "work" /\ prog[p] \in programs

QueryAnswered(p) == holder = p
QueryFails(p) == holder # p \/ Faults \cap {"read", "write"} # {}

\* Of its errors, a timeout: a handle that opens nothing any more gives another one.
QueryTimesOut(p) == holder = p /\ Faults \cap {"read", "write"} # {}

\* cmd_status asks three things and succeeds whatever comes back.
Status(p) ==
  /\ AtWork(p, {"status"})
  /\ Leave(p, "ok")
  /\ UNCHANGED <<prog, sent, cancelled, temp, holder, plugged, wireVars>>

Version(p) ==
  /\ AtWork(p, {"version"})
  /\ \/ QueryAnswered(p) /\ Leave(p, "ok")
     \/ QueryFails(p) /\ Leave(p, "failed")
  /\ UNCHANGED <<prog, sent, cancelled, temp, holder, plugged, wireVars>>

Command == [home |-> "HOME", move |-> "MOVE", set |-> "SET"]

\* cmd_home, cmd_move, cmd_power, cmd_speed, cmd_ppi: one command, without a look
\* at the machine's state.
SendCommand(p) ==
  /\ AtWork(p, DOMAIN Command)
  /\ \/ CommandArrives(p, Command[prog[p]]) /\ Leave(p, "ok")
     \/ CommandFails(p, Command[prog[p]]) /\ Leave(p, "failed")
  /\ UNCHANGED <<prog, sent, cancelled, temp, holder, plugged>>

\* The importers in C: any SVG file becomes one rectangle, no PDF file anything.
ImportSVG == "SUCCESS"
ImportPDF == "INVALID_PARAM"

\* cmd_run up to the compiled job, for a file of either kind or another.
LoadJob(p) ==
  /\ AtWork(p, {"run"})
  /\ \E err \in {ImportSVG, ImportPDF, "unsupported"} :
       IF err = "SUCCESS" THEN Goto(p, "send") /\ UNCHANGED exit ELSE Leave(p, "failed")
  /\ UNCHANGED <<prog, sent, cancelled, temp, holder, plugged, wireVars>>

\* cmd_test: its paths are in the program.
TestPattern(p) ==
  /\ AtWork(p, {"test"})
  /\ Goto(p, "send")
  /\ UNCHANGED <<prog, exit, sent, cancelled, temp, holder, plugged, wireVars>>

\* Mutant of DebugRound: only a device that was never connected ends the loop.
DebugRoundForEver(p) ==
  /\ AtWork(p, {"debug"}) \/ pc[p] = "poll"
  /\ Goto(p, "poll")
  /\ UNCHANGED <<prog, exit, sent, cancelled, temp, holder, plugged, wireVars>>

\* cmd_debug: one round of its endless loop.  Only an error of the position query ends
\* it, a timeout does not, and then the exit code is 0.
DebugRound(p) ==
  /\ AtWork(p, {"debug"}) \/ pc[p] = "poll"
  /\ \/ (QueryAnswered(p) \/ QueryTimesOut(p)) /\ Goto(p, "poll") /\ UNCHANGED exit
     \/ QueryFails(p) /\ Leave(p, "ok")
  /\ UNCHANGED <<prog, sent, cancelled, temp, holder, plugged, wireVars>>

-----------------------------------------------------------------------------
(* uls_job_run, and the same two calls in startJob of the window.          *)

\* What an error of either call makes of the program.
RunFailed(p) ==
  IF prog[p] = "window" THEN Goto(p, "work") /\ UNCHANGED exit ELSE Leave(p, "failed")

\* One round of the loop in uls_send_job_data.
SendChunk(p) ==
  /\ pc[p] = "send"
  /\ \/ /\ DataArrives(p, Received(p, sent[p] + 1))
        /\ Goto(p, IF sent[p] + 1 = ChunksOf(p) THEN "start" ELSE "send")
        /\ UNCHANGED exit
     \/ DataFails(p, sent[p] + 1) /\ RunFailed(p)
  /\ sent' = [sent EXCEPT ![p] = @ + 1]
  /\ UNCHANGED <<prog, cancelled, temp, holder, plugged>>

\* START_JOB.
StartJob(p) ==
  /\ pc[p] = "start"
  /\ \/ /\ CommandArrives(p, "START")
        /\ IF prog[p] = "window" THEN Goto(p, "operate") /\ UNCHANGED exit ELSE Leave(p, "ok")
     \/ CommandFails(p, "START") /\ RunFailed(p)
  /\ UNCHANGED <<prog, sent, cancelled, temp, holder, plugged>>

-----------------------------------------------------------------------------
(* The window, as far as others notice it.                                 *)

\* Mutant of SaysReady: startJob does not ask.
SaysReadyUnasked(p) == TRUE

SaysReady(p) == holder = p /\ "READY" \in StatusResults(machine)

\* Mutant of FromFirstChunk: the offset of an earlier transfer is kept.
FromWhereItStopped(p) == UNCHANGED sent

FromFirstChunk(p) == sent' = [sent EXCEPT ![p] = 0]

\* startJob, first half: the status query must say READY.
WindowStarts(p) ==
  /\ AtWork(p, {"window"})
  /\ SaysReady(p)
  /\ Goto(p, "send")
  /\ FromFirstChunk(p)
  /\ UNCHANGED <<prog, exit, cancelled, temp, holder, plugged, wireVars>>

\* The job is over: noticed by the progress poll, or the user gave up a machine
\* that does not answer any more.
WindowIdle(p) ==
  /\ pc[p] = "operate"
  /\ holder # p \/ machine \in {"ready", "error"}
  /\ Goto(p, "work")
  /\ UNCHANGED <<prog, exit, sent, cancelled, temp, holder, plugged, wireVars>>

\* disconnectLaser: only while idle.
WindowDisconnects(p) ==
  /\ AtWork(p, {"window"})
  /\ Leave(p, "ok")
  /\ UNCHANGED <<prog, sent, cancelled, temp, holder, plugged, wireVars>>

-----------------------------------------------------------------------------
(* The backend, once it is connected.                                      *)

\* The copies loop: cancelled before its first round, or the import fails in it.
PrintJob(p) ==
  /\ AtWork(p, {"print"})
  /\ \/ cancelled[p] /\ Leave(p, "CANCEL")
     \/ ~cancelled[p] /\ ImportPDF # "SUCCESS" /\ Leave(p, "failed")
  /\ UNCHANGED <<prog, sent, cancelled, temp, holder, plugged, wireVars>>

-----------------------------------------------------------------------------
(* The device and the machine on their own.                                *)

\* The handles there are no longer open anything, also after it is plugged again.
Unplug ==
  /\ "absent" \in Faults /\ plugged
  /\ plugged' = FALSE
  /\ holder' = Nobody
  /\ UNCHANGED <<procVars, wireVars>>

Replug == ~plugged /\ plugged' = TRUE /\ UNCHANGED <<procVars, holder, wireVars>>

MachineStep(from, to, data) ==
  /\ machine \in from
  /\ machine' = to
  /\ buffer' = data
  /\ UNCHANGED <<procVars, holder, plugged>>

MachineEnds    == MachineStep({"busy"}, "ready", Empty)
MachineMoved   == MachineStep({"moving"}, "ready", buffer)
MachineFails   == "fail" \in Faults /\ MachineStep({"busy"}, "error", Empty)
MachineCleared == MachineStep({"error"}, "ready", Empty)

ProcStep(p) ==
  \/ CopyInput(p) \/ FindDevice(p) \/ OpenDevice(p) \/ Close(p)
  \/ Status(p) \/ Version(p) \/ SendCommand(p) \/ DebugRound(p)
  \/ LoadJob(p) \/ TestPattern(p) \/ SendChunk(p) \/ StartJob(p) \/ PrintJob(p)

UserStep(p) ==
  \/ LaunchTool(p) \/ LaunchPrint(p) \/ LaunchWindow(p) \/ Terminate(p) \/ Cancel(p)
  \/ WindowStarts(p) \/ WindowIdle(p) \/ WindowDisconnects(p)

Next ==
  \/ \E p \in Procs : ProcStep(p) \/ UserStep(p)
  \/ Unplug \/ Replug
  \/ MachineEnds \/ MachineMoved \/ MachineFails \/ MachineCleared

Spec == Init /\ [][Next]_vars

(***************************************************************************)
(* The operating system runs every process, and the machine answers every  *)
(* query it gets.                                                          *)
(***************************************************************************)
FairSpec == Spec /\ \A p \in Procs : WF_vars(ProcStep(p))

-----------------------------------------------------------------------------
(* Properties.                                                             *)

\* When the window takes a job as running (startJob reached its end), and whenever
\* the machine begins a job at the window's command, also one whose write was
\* reported as failed, the machine has the whole of that very job, and nothing of
\* what another process left behind: the READY answer before the transfer and the
\* exclusive handle are enough for it.
WindowStartsOwnJob ==
  [][\A p \in Procs :
       (\/ pc[p] = "start" /\ pc'[p] = "operate"
        \/ prog[p] = "window" /\ holder = p /\ machine # "busy" /\ machine' = "busy")
       => machine' = "busy" /\ buffer' = Whole(p)]_vars

\* A temporary file outlives its print job only if the job was ended while it was
\* still copying its input: every other way out of process_job removes the file.
TempFilesRemoved ==
  \A p \in Procs : pc[p] = "done" /\ temp[p] => exit[p] = "killed"

\* Every process ends that has an end of its own, also after the device was
\* unplugged under it; the endless loop of `debug' ends after that, too.
SessionsEnd ==
  \A p \in Procs :
    (\/ pc[p] \notin {"new", "done"} /\ prog[p] \notin {"window", "debug"}
     \/ pc[p] = "poll" /\ holder # p) ~> pc[p] = "done"

-----------------------------------------------------------------------------
(* What the source says of itself and the code does not do.                *)

InBuffer ==
  IF buffer.job \in Jobs /\ buffer.got = buffer.of THEN buffer.job ELSE PartialJob

Execution == INSTANCE JobExecution
  WITH executing <- IF machine = "busy" THEN InBuffer ELSE NoJob

\* "Run job from file" (uls_cli.c): what the machine executes is a whole job, and one
\* after the other, whichever processes sent, failed and ended before.
OneWholeJob == Execution!Spec
=============================================================================
