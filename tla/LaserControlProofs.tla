------------------------- MODULE LaserControlProofs -------------------------
(***************************************************************************)
(* Theorems about LaserControl, for every set of jobs, every bound and     *)
(* every environment (Faults, PausedReports) the assumptions allow.        *)
(***************************************************************************)
EXTENDS LaserControl, TLAPS

USE JobsAssumption, FaultsAssumption, PausedAssumption, ChunksAssumption, BoundsAssumption
DEF JobsAssumption, FaultsAssumption, PausedAssumption, ChunksAssumption, BoundsAssumption

-----------------------------------------------------------------------------
(* The machine's reactions.                                                *)

\* Whatever the machine makes of a command, it ends in a machine state with a
\* buffer: an unheeded command changes nothing.
LEMMA AcceptType ==
  ASSUME NEW c \in Commands, NEW m \in MachineStates, NEW b \in Buffers,
         NEW m2, NEW b2, Accept(c, m, b, m2, b2)
  PROVE  m2 \in MachineStates /\ b2 \in Buffers
BY DEF Accept, Heeds, LeadsTo, MachineStates, Executing, Buffers, Commands, Motion

\* Only START_JOB brings a job into execution, and only from "ready"; STOP_JOB
\* ends any execution.
LEMMA AcceptExecutes ==
  ASSUME NEW c \in Commands, NEW m \in MachineStates, NEW b,
         NEW m2, NEW b2, Accept(c, m, b, m2, b2)
  PROVE  /\ m2 \in Executing /\ m \notin Executing => c = "START" /\ m = "ready"
         /\ c = "STOP" => m2 \notin Executing
         /\ m2 = "paused" => c = "PAUSE" \/ (m = "paused" /\ c # "RESUME")
         /\ m2 = "starting" => "lag" \in Faults \/ m = "starting"
         /\ m2 \in Executing => b2 = b
BY DEF Accept, Heeds, LeadsTo, MachineStates, Executing, Commands, Motion

\* What a command delivered to the machine leaves there.
LEMMA DeliverType ==
  ASSUME TypeOK, NEW c \in Commands, Deliver(c)
  PROVE  machine' \in MachineStates /\ loaded' \in Buffers /\ cmd' \in Commands
BY AcceptType DEF Deliver, TypeOK, WireOK

\* The commands, one by one.
LEMMA CommandNames ==
  {"START", "PAUSE", "RESUME", "STOP", "SET", "MOVE", "HOME"} = Commands
BY DEF Commands, Motion

-----------------------------------------------------------------------------
(* startJob holds the main thread.                                         *)

\* From the status query to its end nothing else of the window moves: a handler waits
\* for the main thread, and the end of the process ends startJob with it.
LEMMA MainThreadHeld ==
  ASSUME [Next]_vars, starting' # "no"
  PROVE  /\ UNCHANGED <<opVars, linkVars, jobVars, simVars, modeVars, relaunches>>
         /\ \/ StartJob \/ SendChunk
            \/ UNCHANGED startVars /\ (MachineNext \/ UNCHANGED wireVars)
<1>1. ~Handler /\ ~StartEnds
  BY DEF Handler, StartEnds, startVars
<1>2. CASE StartJob
  BY <1>2 DEF StartJob
<1>3. CASE SendChunk
  BY <1>3 DEF SendChunk
<1>4. CASE MachineNext
  BY <1>4 DEF MachineNext, MachineBegins, MachineEnds, MachineMoved, MachineFails,
              MachineCleared, MachineStep
<1>5. CASE UNCHANGED vars
  BY <1>5 DEF vars
<1> QED
  BY <1>1, <1>2, <1>3, <1>4, <1>5
  DEF Next, StopJob, StartStep, ConnectFindsNothing, ConnectOpens, ConnectRefused,
      DisconnectLaser, HomeLaser, Jog, PreviewClick, SetPowerOrSpeed, InteractionModeChanged,
      ResumeJob, ChunkFails, TransferFailed, StartCommandFails, StartSucceeds, PauseSimulation,
      PauseJob, StopJobEndsSimulation, StopJobStopsMachine, SimulateJob, SimulationCompleted,
      CleanupFires, ProgressTick, ImportSVG, ImportCancelled, ImportLoads, ImportFails, Relaunch

\* What startJob has checked, and the room for the timer it may have to give up.
ChecksHold ==
  starting # "no" =>
    /\ device = "open" /\ currentJob # NoJob /\ opState # "Paused"
    /\ progressTimer => orphanTimers < MaxOrphans

\* The window's own state, checked before the transfer, is as it was when START_JOB
\* is sent and the timer set.
LEMMA ChecksStillHold == Spec => []ChecksHold
<1>1. Init => ChecksHold
  BY DEF Init, ChecksHold
<1>2. ChecksHold /\ [Next]_vars => ChecksHold'
  <2> SUFFICES ASSUME ChecksHold, [Next]_vars, starting' # "no"
               PROVE  /\ device' = "open" /\ currentJob' # NoJob /\ opState' # "Paused"
                      /\ progressTimer' => orphanTimers' < MaxOrphans
    BY DEF ChecksHold
  <2>1. UNCHANGED <<opState, progressTimer, orphanTimers, device, currentJob>>
    BY MainThreadHeld DEF opVars, linkVars, jobVars
  <2>2. CASE StartJob
    BY <2>1, <2>2 DEF StartJob, CanStart
  <2>3. CASE UNCHANGED startVars \/ SendChunk
    <3>1. starting # "no"
      BY <2>3 DEF startVars, SendChunk
    <3> QED
      BY <2>1, <3>1 DEF ChecksHold
  <2> QED
    BY <2>2, <2>3, MainThreadHeld
<1> QED
  BY <1>1, <1>2, PTL DEF Spec

-----------------------------------------------------------------------------
(* Type correctness.                                                       *)

\* What one command makes of the wire.
LEMMA WireType ==
  ASSUME TypeOK, NEW c \in Commands, Silent \/ Succeeds(c) \/ Fails(c)
  PROVE  WireOK'
BY DeliverType DEF WireOK, Silent, Succeeds, Fails, TypeOK

\* What a chunk makes of the buffer.
LEMMA ChunkType ==
  ASSUME TypeOK
  PROVE  \A data \in {PartialJob, NextData} : AfterData(machine, loaded, data) \in Buffers
BY DEF NextData, AfterData, TypeOK, WireOK, JobOK, Buffers

\* A group of variables a step leaves alone keeps its type.
LEMMA Untouched ==
  ASSUME TypeOK
  PROVE  /\ UNCHANGED opVars => OpOK'
         /\ UNCHANGED linkVars => LinkOK'
         /\ UNCHANGED jobVars => JobOK'
         /\ UNCHANGED startVars => StartOK'
         /\ UNCHANGED simVars => SimOK'
         /\ UNCHANGED modeVars => ModeOK'
         /\ UNCHANGED wireVars => WireOK'
         /\ Silent => WireOK'
BY DEF TypeOK, OpOK, LinkOK, JobOK, StartOK, SimOK, ModeOK, WireOK, Silent,
       opVars, linkVars, jobVars, startVars, simVars, modeVars, wireVars

\* Every variable keeps its type through every handler, timer and machine step.
THEOREM TypeCorrect == Spec => []TypeOK
<1>1. Init => TypeOK
  <2> SUFFICES ASSUME Init PROVE TypeOK
    OBVIOUS
  <2>c. 0 \in 0..MaxOrphans /\ 0 \in 0..MaxConnects /\ 0 \in 0..MaxCleanups
    OBVIOUS
  <2>1. OpOK /\ LinkOK
    <3>1. opState \in {"Idle", "Running", "Paused"} /\ device \in {"null", "open"}
      BY DEF Init
    <3>2. progressTimer \in BOOLEAN /\ isConnected \in BOOLEAN /\ leaked \in BOOLEAN
      BY DEF Init
    <3>3. orphanTimers \in 0..MaxOrphans /\ posTimers \in 0..MaxConnects
      BY <2>c DEF Init
    <3> QED BY <3>1, <3>2, <3>3 DEF OpOK, LinkOK
  <2>2. JobOK /\ SimOK /\ ModeOK
    <3>1. JobOK /\ ModeOK
      BY DEF Init, JobOK, ModeOK, Modes
    <3>2. simTimer \in BOOLEAN /\ previewSim \in BOOLEAN
      BY DEF Init
    <3>3. simulation \in {"none", "open", "ended"}
      BY DEF Init
    <3>4. cleanups \in 0..MaxCleanups
      BY <2>c DEF Init
    <3> QED BY <3>1, <3>2, <3>3, <3>4 DEF SimOK
  <2>3. WireOK /\ relaunches \in 0..MaxRelaunches
    BY DEF Init, WireOK, MachineStates, Executing, Buffers
  <2>4. StartOK
    <3>1. 0 \in 0..(JobChunks - 1)
      OBVIOUS
    <3> QED BY <3>1 DEF Init, StartOK
  <2> QED BY <2>1, <2>2, <2>3, <2>4 DEF TypeOK
<1>2. TypeOK /\ ChecksHold /\ [Next]_vars => TypeOK'
  <2> SUFFICES ASSUME TypeOK, ChecksHold, [Next]_vars PROVE TypeOK'
    OBVIOUS
  <2>z. 0 \in 0..(JobChunks - 1)
    OBVIOUS
  <2>w. \A c \in Commands : Succeeds(c) \/ Fails(c) => WireOK'
    BY WireType
  <2>m. \A op, sim : \A mode \in Modes : UpdateUIState(op, sim, mode) \in Modes
    BY DEF UpdateUIState, Modes
  <2>1. CASE ConnectFindsNothing
    <3>1. ModeOK'
      BY <2>1, <2>m DEF ConnectFindsNothing, TypeOK, ModeOK
    <3>2. WireOK'
      BY <2>1, Untouched DEF ConnectFindsNothing
    <3> QED BY <2>1, Untouched, <3>1, <3>2 DEF ConnectFindsNothing, Handler, TypeOK
  <2>2. CASE ConnectOpens
    <3>1. LinkOK'
      BY <2>2 DEF ConnectOpens, TypeOK, LinkOK
    <3>2. ModeOK'
      BY <2>2, <2>m DEF ConnectOpens, TypeOK, ModeOK
    <3>3. WireOK'
      BY <2>2, Untouched DEF ConnectOpens
    <3> QED BY <2>2, Untouched, <3>1, <3>2, <3>3 DEF ConnectOpens, Handler, TypeOK
  <2>3. CASE ConnectRefused
    <3>1. LinkOK'
      BY <2>3 DEF ConnectRefused, TypeOK, LinkOK
    <3>2. ModeOK'
      BY <2>3, <2>m DEF ConnectRefused, TypeOK, ModeOK
    <3>3. WireOK'
      BY <2>3, Untouched DEF ConnectRefused
    <3> QED BY <2>3, Untouched, <3>1, <3>2, <3>3 DEF ConnectRefused, Handler, TypeOK
  <2>4. CASE DisconnectLaser
    <3>1. LinkOK'
      BY <2>4 DEF DisconnectLaser, TypeOK, LinkOK
    <3>2. ModeOK'
      BY <2>4, <2>m DEF DisconnectLaser, TypeOK, ModeOK
    <3>3. WireOK'
      BY <2>4, Untouched DEF DisconnectLaser
    <3> QED BY <2>4, Untouched, <3>1, <3>2, <3>3 DEF DisconnectLaser, Handler, TypeOK
  <2>5. CASE HomeLaser
    <3>1. WireOK'
      BY <2>5, <2>w, CommandNames DEF HomeLaser
    <3> QED BY <2>5, Untouched, <3>1 DEF HomeLaser, Handler, TypeOK
  <2>6. CASE Jog
    <3>1. WireOK'
      BY <2>6, <2>w, CommandNames DEF Jog
    <3> QED BY <2>6, Untouched, <3>1 DEF Jog, Handler, TypeOK
  <2>7. CASE PreviewClick
    <3>1. WireOK'
      BY <2>7, <2>w, CommandNames DEF PreviewClick
    <3> QED BY <2>7, Untouched, <3>1 DEF PreviewClick, Handler, TypeOK
  <2>8. CASE SetPowerOrSpeed
    <3>1. WireOK'
      BY <2>8, <2>w, CommandNames DEF SetPowerOrSpeed
    <3> QED BY <2>8, Untouched, <3>1 DEF SetPowerOrSpeed, Handler, TypeOK
  <2>9. CASE InteractionModeChanged
    <3>1. ModeOK'
      BY <2>9, <2>m DEF InteractionModeChanged, TypeOK, ModeOK, Modes
    <3>2. WireOK'
      BY <2>9, Untouched DEF InteractionModeChanged
    <3> QED BY <2>9, Untouched, <3>1, <3>2 DEF InteractionModeChanged, Handler, TypeOK
  <2>10. CASE ResumeJob
    <3>1. OpOK'
      BY <2>10 DEF ResumeJob, TypeOK, OpOK
    <3>2. ModeOK'
      BY <2>10, <2>m DEF ResumeJob, TypeOK, ModeOK
    <3>3. WireOK'
      BY <2>10, <2>w, CommandNames DEF ResumeJob
    <3> QED BY <2>10, Untouched, <3>1, <3>2, <3>3 DEF ResumeJob, Handler, TypeOK
  <2>11. CASE StartJob
    <3>1. StartOK'
      BY <2>11 DEF StartJob, TypeOK, StartOK
    <3>2. WireOK'
      BY <2>11, Untouched DEF StartJob
    <3> QED BY <2>11, Untouched, <3>1, <3>2 DEF StartJob, TypeOK
  <2>12. CASE StartStep
    <3>e. StartEnds => StartOK'
      BY <2>z DEF StartEnds, StartOK
    <3>1. CASE SendChunk
      <4>1. StartOK'
        <5>1. CASE sent + 1 = JobChunks
          BY <2>z, <3>1, <5>1 DEF SendChunk, StartOK
        <5>2. CASE sent + 1 # JobChunks
          <6>1. sent' \in 0..(JobChunks - 1)
            BY <3>1, <5>2 DEF SendChunk, TypeOK, StartOK
          <6>2. starting' = "send" /\ kept' = (kept /\ machine = "ready")
            BY <3>1, <5>2 DEF SendChunk
          <6>3. kept' \in BOOLEAN
            BY <6>2
          <6> QED BY <6>1, <6>2, <6>3 DEF StartOK
        <5> QED BY <5>1, <5>2
      <4>2. WireOK'
        BY <3>1, ChunkType DEF SendChunk, TypeOK, WireOK
      <4> QED BY <3>1, Untouched, <4>1, <4>2 DEF SendChunk, TypeOK
    <3>2. CASE ChunkFails
      <4>1. WireOK'
        BY <3>2, ChunkType DEF ChunkFails, TypeOK, WireOK
      <4> QED BY <3>2, <3>e, Untouched, <4>1 DEF ChunkFails, TransferFailed, TypeOK
    <3>3. CASE StartCommandFails
      <4>1. WireOK'
        BY <3>3, <2>w, CommandNames DEF StartCommandFails
      <4> QED BY <3>3, <3>e, Untouched, <4>1 DEF StartCommandFails, TypeOK
    <3>4. CASE StartSucceeds
      <4>1. OpOK'
        BY <3>4 DEF StartSucceeds, ChecksHold, TypeOK, OpOK
      <4>2. ModeOK'
        BY <3>4, <2>m DEF StartSucceeds, TypeOK, ModeOK
      <4>3. WireOK'
        BY <3>4, <2>w, CommandNames DEF StartSucceeds
      <4> QED BY <3>4, <3>e, Untouched, <4>1, <4>2, <4>3 DEF StartSucceeds, TypeOK
    <3> QED
      BY <2>12, <3>1, <3>2, <3>3, <3>4 DEF StartStep
  <2>14. CASE PauseSimulation
    <3>1. SimOK'
      BY <2>14 DEF PauseSimulation, TypeOK, SimOK
    <3>2. ModeOK'
      BY <2>14, <2>m DEF PauseSimulation, TypeOK, ModeOK
    <3>3. WireOK'
      BY <2>14, Untouched DEF PauseSimulation
    <3> QED BY <2>14, Untouched, <3>1, <3>2, <3>3 DEF PauseSimulation, Handler, TypeOK
  <2>15. CASE PauseJob
    <3>1. OpOK'
      BY <2>15 DEF PauseJob, TypeOK, OpOK
    <3>2. ModeOK'
      BY <2>15, <2>m DEF PauseJob, TypeOK, ModeOK
    <3>3. WireOK'
      BY <2>15, <2>w, CommandNames DEF PauseJob
    <3> QED BY <2>15, Untouched, <3>1, <3>2, <3>3 DEF PauseJob, Handler, TypeOK
  <2>16. CASE StopJobEndsSimulation
    <3>1. SimOK'
      BY <2>16 DEF StopJobEndsSimulation, StopSimulation, PreviewLeavesSimulation, TypeOK, SimOK
    <3>2. ModeOK'
      BY <2>16, <2>m DEF StopJobEndsSimulation, StopSimulation, PreviewLeavesSimulation, TypeOK, ModeOK
    <3>3. WireOK'
      BY <2>16, Untouched DEF StopJobEndsSimulation
    <3> QED BY <2>16, Untouched, <3>1, <3>2, <3>3 DEF StopJobEndsSimulation, Handler, TypeOK
  <2>17. CASE StopJobStopsMachine
    <3>1. OpOK'
      BY <2>17 DEF StopJobStopsMachine, StopSent, JobCompleted, TypeOK, OpOK
    <3>2. ModeOK'
      BY <2>17, <2>m DEF StopJobStopsMachine, StopSent, JobCompleted, TypeOK, ModeOK
    <3>3. WireOK'
      BY <2>17, <2>w, CommandNames DEF StopJobStopsMachine, StopSent, JobCompleted
    <3> QED BY <2>17, Untouched, <3>1, <3>2, <3>3 DEF StopJobStopsMachine, Handler, TypeOK
  <2>18. CASE SimulateJob
    <3>1. SimOK'
      BY <2>18 DEF SimulateJob, TypeOK, SimOK
    <3>2. ModeOK'
      BY <2>18, <2>m DEF SimulateJob, TypeOK, ModeOK
    <3>3. WireOK'
      BY <2>18, Untouched DEF SimulateJob
    <3> QED BY <2>18, Untouched, <3>1, <3>2, <3>3 DEF SimulateJob, Handler, TypeOK
  <2>19. CASE SimulationCompleted
    <3>1. SimOK'
      <4>1. cleanups' \in 0..MaxCleanups
        BY <2>19 DEF SimulationCompleted, CleanupScheduled, TypeOK, SimOK
      <4>2. simTimer' \in BOOLEAN /\ previewSim' \in BOOLEAN
        BY <2>19 DEF SimulationCompleted, TypeOK, SimOK
      <4>3. simulation' \in {"none", "open", "ended"}
        BY <2>19 DEF SimulationCompleted
      <4> QED BY <4>1, <4>2, <4>3 DEF SimOK
    <3>2. ModeOK'
      BY <2>19, <2>m DEF SimulationCompleted, CleanupScheduled, TypeOK, ModeOK
    <3>3. WireOK'
      BY <2>19, Untouched DEF SimulationCompleted
    <3> QED BY <2>19, Untouched, <3>1, <3>2, <3>3 DEF SimulationCompleted, Handler, TypeOK
  <2>20. CASE CleanupFires
    <3>1. SimOK'
      <4>1. cleanups' \in 0..MaxCleanups
        <5>1. cleanups \in 0..MaxCleanups /\ cleanups > 0 /\ cleanups' = cleanups - 1
          BY <2>20 DEF CleanupFires, CleanupDue, TypeOK, SimOK
        <5> QED BY <5>1
      <4>2. CASE simTimer
        BY <2>20, <4>1, <4>2 DEF CleanupFires, TypeOK, SimOK
      <4>3. CASE ~simTimer
        <5>1. simTimer' = FALSE /\ simulation' = "none" /\ previewSim' = FALSE
          BY <2>20, <4>3 DEF CleanupFires, StopSimulation, PreviewLeavesSimulation
        <5>2. simTimer' \in BOOLEAN /\ previewSim' \in BOOLEAN
          BY <5>1
        <5>3. simulation' \in {"none", "open", "ended"}
          BY <5>1
        <5> QED BY <4>1, <5>2, <5>3 DEF SimOK
      <4> QED BY <4>2, <4>3
    <3>2. ModeOK'
      <4>1. interactionMode' \in Modes /\ previewMode \in Modes
        BY <2>20 DEF CleanupFires, TypeOK, ModeOK
      <4>2. previewMode' = previewMode \/ previewMode' = UpdateUIState(opState, FALSE, interactionMode)
        BY <2>20 DEF CleanupFires, StopSimulation, PreviewLeavesSimulation
      <4>3. interactionMode \in Modes
        BY DEF TypeOK, ModeOK
      <4> QED BY <2>m, <4>1, <4>2, <4>3 DEF ModeOK
    <3>3. WireOK'
      BY <2>20, Untouched DEF CleanupFires
    <3> QED BY <2>20, Untouched, <3>1, <3>2, <3>3 DEF CleanupFires, Handler, TypeOK
  <2>21. CASE ProgressTick
    <3>1. OpOK'
      BY <2>21 DEF ProgressTick, Polled, JobCompleted, JobError, TypeOK, OpOK
    <3>2. ModeOK'
      BY <2>21, <2>m DEF ProgressTick, Polled, JobCompleted, JobError, TypeOK, ModeOK
    <3>3. WireOK'
      BY <2>21, Untouched DEF ProgressTick
    <3> QED BY <2>21, Untouched, <3>1, <3>2, <3>3 DEF ProgressTick, Handler, TypeOK
  <2>22. CASE ImportSVG
    <3>1. JobOK'
      BY <2>22 DEF ImportSVG, TypeOK, JobOK
    <3>2. WireOK'
      BY <2>22, Untouched DEF ImportSVG
    <3> QED BY <2>22, Untouched, <3>1, <3>2 DEF ImportSVG, Handler, TypeOK
  <2>23. CASE ImportCancelled
    <3>1. JobOK'
      BY <2>23 DEF ImportCancelled, TypeOK, JobOK
    <3>2. WireOK'
      BY <2>23, Untouched DEF ImportCancelled
    <3> QED BY <2>23, Untouched, <3>1, <3>2 DEF ImportCancelled, Handler, TypeOK
  <2>24. CASE ImportLoads
    <3>1. JobOK'
      BY <2>24 DEF ImportLoads, UpdatePreview, TypeOK, JobOK
    <3>2. ModeOK'
      BY <2>24, <2>m DEF ImportLoads, UpdatePreview, TypeOK, ModeOK
    <3>3. WireOK'
      BY <2>24, Untouched DEF ImportLoads
    <3> QED BY <2>24, Untouched, <3>1, <3>2, <3>3 DEF ImportLoads, Handler, TypeOK
  <2>25. CASE ImportFails
    <3>1. JobOK'
      BY <2>25 DEF ImportFails, TypeOK, JobOK
    <3>2. ModeOK'
      BY <2>25, <2>m DEF ImportFails, TypeOK, ModeOK
    <3>3. WireOK'
      BY <2>25, Untouched DEF ImportFails
    <3> QED BY <2>25, Untouched, <3>1, <3>2, <3>3 DEF ImportFails, Handler, TypeOK
  <2>26. CASE Relaunch
    <3>c. 0 \in 0..MaxOrphans /\ 0 \in 0..MaxConnects /\ 0 \in 0..MaxCleanups
      OBVIOUS
    <3>1. OpOK'
      <4>1. opState' \in {"Idle", "Running", "Paused"}
        BY <2>26 DEF Relaunch
      <4>2. progressTimer' \in BOOLEAN
        BY <2>26 DEF Relaunch
      <4>3. orphanTimers' \in 0..MaxOrphans
        BY <2>26, <3>c DEF Relaunch
      <4> QED BY <4>1, <4>2, <4>3 DEF OpOK
    <3>2. LinkOK'
      <4>1. device' \in {"null", "open"}
        BY <2>26 DEF Relaunch
      <4>2. isConnected' \in BOOLEAN /\ leaked' \in BOOLEAN
        BY <2>26 DEF Relaunch
      <4>3. posTimers' \in 0..MaxConnects
        BY <2>26, <3>c DEF Relaunch
      <4> QED BY <4>1, <4>2, <4>3 DEF LinkOK
    <3>3. JobOK'
      BY <2>26 DEF Relaunch, TypeOK, JobOK
    <3>4. SimOK'
      <4>1. simulation' \in {"none", "open", "ended"}
        BY <2>26 DEF Relaunch
      <4>2. simTimer' \in BOOLEAN /\ previewSim' \in BOOLEAN
        BY <2>26 DEF Relaunch
      <4>3. cleanups' \in 0..MaxCleanups
        BY <2>26, <3>c DEF Relaunch
      <4> QED BY <4>1, <4>2, <4>3 DEF SimOK
    <3>5. ModeOK'
      BY <2>26, <2>m DEF Relaunch, TypeOK, ModeOK, Modes
    <3>6. WireOK'
      BY <2>26, Untouched DEF Relaunch
    <3>7. StartOK'
      BY <2>26, <2>z DEF Relaunch, StartEnds, StartOK
    <3> QED BY <2>26, Untouched, <3>1, <3>2, <3>3, <3>4, <3>5, <3>6, <3>7 DEF Relaunch, TypeOK
  <2>27. CASE MachineNext
    <3>1. WireOK'
      BY <2>27 DEF MachineNext, MachineBegins, MachineEnds, MachineMoved, MachineFails,
                   MachineCleared, MachineStep, TypeOK, WireOK, MachineStates, Executing, Buffers
    <3>2. UNCHANGED <<opVars, linkVars, jobVars, startVars, simVars, modeVars, relaunches>>
      BY <2>27 DEF MachineNext, MachineBegins, MachineEnds, MachineMoved, MachineFails,
                   MachineCleared, MachineStep
    <3> QED BY <3>1, <3>2, Untouched DEF TypeOK
  <2>28. CASE UNCHANGED vars
    BY <2>28, Untouched DEF vars, TypeOK
  <2> QED
    BY <2>1, <2>2, <2>3, <2>4, <2>5, <2>6, <2>7, <2>8, <2>9, <2>10, <2>11, <2>12,
       <2>14, <2>15, <2>16, <2>17, <2>18, <2>19, <2>20, <2>21, <2>22, <2>23, <2>24, <2>25,
       <2>26, <2>27, <2>28
    DEF Next, StopJob
<1> QED
  BY <1>1, <1>2, ChecksStillHold, PTL DEF Spec

-----------------------------------------------------------------------------
(* Who writes what: a step that is none of the named actions leaves the    *)
(* named variables alone.                                                  *)

\* The handlers that change the operation state or its timer.
LEMMA OpWriters ==
  ASSUME [Next]_vars
  PROVE  \/ UNCHANGED <<opState, progressTimer>>
         \/ ResumeJob \/ StartSucceeds \/ PauseJob \/ StopJobStopsMachine
         \/ ProgressTick \/ Relaunch
BY DEF Next, vars, opVars, StopJob, ConnectFindsNothing, ConnectOpens, ConnectRefused,
       DisconnectLaser, HomeLaser, Jog, PreviewClick, SetPowerOrSpeed, InteractionModeChanged,
       StartJob, StartStep, SendChunk, ChunkFails, StartCommandFails, PauseSimulation,
       StopJobEndsSimulation, SimulateJob,
       SimulationCompleted, CleanupFires, ImportSVG, ImportCancelled, ImportLoads, ImportFails,
       MachineNext, MachineBegins, MachineEnds, MachineMoved, MachineFails, MachineCleared,
       MachineStep

\* The handlers that change the simulation.
LEMMA SimWriters ==
  ASSUME [Next]_vars
  PROVE  \/ UNCHANGED <<simTimer, simulation, previewSim>>
         \/ PauseSimulation \/ StopJobEndsSimulation \/ SimulateJob \/ SimulationCompleted
         \/ CleanupFires \/ Relaunch
BY DEF Next, vars, simVars, StopJob, ConnectFindsNothing, ConnectOpens, ConnectRefused,
       DisconnectLaser, HomeLaser, Jog, PreviewClick, SetPowerOrSpeed, InteractionModeChanged,
       ResumeJob, StartJob, StartStep, SendChunk, ChunkFails, StartCommandFails,
       StartSucceeds, PauseJob,
       StopJobStopsMachine, ProgressTick, ImportSVG, ImportCancelled, ImportLoads, ImportFails,
       MachineNext, MachineBegins, MachineEnds, MachineMoved, MachineFails, MachineCleared,
       MachineStep

\* The steps that change where startJob is.
LEMMA StartWriters ==
  ASSUME [Next]_vars
  PROVE  UNCHANGED startVars \/ StartEnds \/ StartJob \/ SendChunk
BY DEF Next, vars, StopJob, StartStep, Handler, ChunkFails, TransferFailed,
       StartCommandFails, StartSucceeds, ConnectFindsNothing, ConnectOpens, ConnectRefused,
       DisconnectLaser, HomeLaser, Jog, PreviewClick, SetPowerOrSpeed, InteractionModeChanged,
       ResumeJob, PauseSimulation, PauseJob, StopJobEndsSimulation, StopJobStopsMachine,
       SimulateJob, SimulationCompleted, CleanupFires, ProgressTick, ImportSVG,
       ImportCancelled, ImportLoads, ImportFails, Relaunch, MachineNext, MachineBegins,
       MachineEnds, MachineMoved, MachineFails, MachineCleared, MachineStep

\* The handlers that change the job pointers.
LEMMA JobWriters ==
  ASSUME [Next]_vars
  PROVE  \/ UNCHANGED <<currentJob, previewJob>>
         \/ ImportLoads \/ ImportFails \/ Relaunch
BY DEF Next, vars, jobVars, StopJob, ConnectFindsNothing, ConnectOpens, ConnectRefused,
       DisconnectLaser, HomeLaser, Jog, PreviewClick, SetPowerOrSpeed, InteractionModeChanged,
       ResumeJob, StartJob, StartStep, SendChunk, ChunkFails, StartCommandFails,
       StartSucceeds, PauseJob,
       StopJobEndsSimulation, StopJobStopsMachine, PauseSimulation, SimulateJob,
       SimulationCompleted, CleanupFires, ProgressTick, ImportSVG, ImportCancelled,
       MachineNext, MachineBegins, MachineEnds, MachineMoved, MachineFails, MachineCleared,
       MachineStep

-----------------------------------------------------------------------------
(* Safety in every environment.                                            *)

\* startJob sets the state and the timer together, jobCompleted and jobError clear
\* both, pause and resume touch neither: an operation is always being polled.
THEOREM Monitored == Spec => []MonitoredWhileOperating
<1>1. Init => MonitoredWhileOperating
  BY DEF Init, MonitoredWhileOperating
<1>2. MonitoredWhileOperating /\ [Next]_vars => MonitoredWhileOperating'
  <2> SUFFICES ASSUME MonitoredWhileOperating, [Next]_vars
               PROVE  MonitoredWhileOperating'
    OBVIOUS
  <2> USE DEF MonitoredWhileOperating
  <2>1. CASE UNCHANGED <<opState, progressTimer>>
    BY <2>1
  <2>2. CASE ResumeJob
    BY <2>2 DEF ResumeJob
  <2>3. CASE StartSucceeds
    BY <2>3 DEF StartSucceeds
  <2>4. CASE PauseJob
    BY <2>4 DEF PauseJob
  <2>5. CASE StopJobStopsMachine
    BY <2>5 DEF StopJobStopsMachine, JobCompleted
  <2>6. CASE ProgressTick
    BY <2>6 DEF ProgressTick, Polled, JobCompleted, JobError
  <2>7. CASE Relaunch
    BY <2>7 DEF Relaunch
  <2> QED
    BY <2>1, <2>2, <2>3, <2>4, <2>5, <2>6, <2>7, OpWriters
<1> QED
  BY <1>1, <1>2, PTL DEF Spec

\* Whoever frees the simulation also takes it from the preview and stops the
\* playback timer.
THEOREM PointersAgree == Spec => []SimulationPointersAgree
<1>1. Init => SimulationPointersAgree
  BY DEF Init, SimulationPointersAgree
<1>2. SimulationPointersAgree /\ [Next]_vars => SimulationPointersAgree'
  <2> SUFFICES ASSUME SimulationPointersAgree, [Next]_vars
               PROVE  SimulationPointersAgree'
    OBVIOUS
  <2> USE DEF SimulationPointersAgree
  <2>1. CASE UNCHANGED <<simTimer, simulation, previewSim>>
    BY <2>1
  <2>2. CASE PauseSimulation
    BY <2>2 DEF PauseSimulation
  <2>3. CASE StopJobEndsSimulation
    BY <2>3 DEF StopJobEndsSimulation, StopSimulation, PreviewLeavesSimulation
  <2>4. CASE SimulateJob
    BY <2>4 DEF SimulateJob
  <2>5. CASE SimulationCompleted
    BY <2>5 DEF SimulationCompleted
  <2>6. CASE CleanupFires
    <3>1. CASE simTimer
      BY <2>6, <3>1 DEF CleanupFires
    <3>2. CASE ~simTimer
      BY <2>6, <3>2 DEF CleanupFires, StopSimulation, PreviewLeavesSimulation
    <3> QED BY <3>1, <3>2
  <2>7. CASE Relaunch
    BY <2>7 DEF Relaunch
  <2> QED
    BY <2>1, <2>2, <2>3, <2>4, <2>5, <2>6, <2>7, SimWriters
<1> QED
  BY <1>1, <1>2, PTL DEF Spec

\* An ended simulation always has a clean-up block to come, so what TraceCleared asks
\* of the run loop is only to run it: no start, stop, pause or relaunch in between
\* takes the block away and leaves the trace.
EndedIsScheduled == simulation = "ended" => cleanups > 0

\* The safety half of TraceCleared.
THEOREM CleanupStaysDue == Spec => []EndedIsScheduled
<1>1. Init => EndedIsScheduled
  BY DEF Init, EndedIsScheduled
<1>2. TypeOK /\ SimulationPointersAgree /\ EndedIsScheduled /\ [Next]_vars => EndedIsScheduled'
  <2> SUFFICES ASSUME TypeOK, SimulationPointersAgree, EndedIsScheduled, [Next]_vars,
                      simulation' = "ended"
               PROVE  cleanups' > 0
    BY DEF EndedIsScheduled
  <2>c. cleanups \in Nat
    BY DEF TypeOK, SimOK
  <2>1. CASE UNCHANGED <<simulation, cleanups>>
    BY <2>1 DEF EndedIsScheduled
  <2>2. CASE SimulationCompleted
    BY <2>2, <2>c DEF SimulationCompleted, CleanupScheduled
  <2>3. CASE CleanupFires
    <3>1. CASE simTimer
      BY <2>3, <3>1 DEF CleanupFires, SimulationPointersAgree
    <3>2. CASE ~simTimer
      BY <2>3, <3>2 DEF CleanupFires, StopSimulation
    <3> QED
      BY <3>1, <3>2
  <2>4. ~StopJobEndsSimulation /\ ~SimulateJob /\ ~Relaunch
    BY DEF StopJobEndsSimulation, StopSimulation, SimulateJob, Relaunch
  <2>5. UNCHANGED simVars => UNCHANGED <<simulation, cleanups>>
    BY DEF simVars
  <2>6. PauseSimulation => UNCHANGED <<simulation, cleanups>>
    BY DEF PauseSimulation
  <2>7. \/ UNCHANGED simVars \/ PauseSimulation \/ StopJobEndsSimulation \/ SimulateJob
        \/ SimulationCompleted \/ CleanupFires \/ Relaunch
    BY DEF Next, vars, StopJob, ConnectFindsNothing, ConnectOpens, ConnectRefused,
           DisconnectLaser, HomeLaser, Jog, PreviewClick, SetPowerOrSpeed,
           InteractionModeChanged, ResumeJob, StartJob, StartStep, SendChunk, ChunkFails,
           StartCommandFails, StartSucceeds, PauseJob, StopJobStopsMachine, ProgressTick, ImportSVG,
           ImportCancelled, ImportLoads, ImportFails, MachineNext, MachineBegins,
           MachineEnds, MachineMoved, MachineFails, MachineCleared, MachineStep
  <2> QED
    BY <2>1, <2>2, <2>3, <2>4, <2>5, <2>6, <2>7
<1> QED
  BY <1>1, <1>2, TypeCorrect, PointersAgree, PTL DEF Spec

\* A job that replaces the current one is handed to the preview in the same
\* handler; a failed import leaves no current job.
THEOREM PreviewCurrent == Spec => []PreviewShowsCurrentJob
<1>1. Init => PreviewShowsCurrentJob
  BY DEF Init, PreviewShowsCurrentJob
<1>2. PreviewShowsCurrentJob /\ [Next]_vars => PreviewShowsCurrentJob'
  <2> SUFFICES ASSUME PreviewShowsCurrentJob, [Next]_vars
               PROVE  PreviewShowsCurrentJob'
    OBVIOUS
  <2> USE DEF PreviewShowsCurrentJob
  <2>1. CASE UNCHANGED <<currentJob, previewJob>>
    BY <2>1
  <2>2. CASE ImportLoads
    BY <2>2 DEF ImportLoads, UpdatePreview
  <2>3. CASE ImportFails
    BY <2>3 DEF ImportFails
  <2>4. CASE Relaunch
    BY <2>4 DEF Relaunch
  <2> QED
    BY <2>1, <2>2, <2>3, <2>4, JobWriters
<1> QED
  BY <1>1, <1>2, PTL DEF Spec

\* While a job is under control, whoever touches the preview's mode lets
\* updateUIState have the last word.
THEOREM ClicksInert == Spec => []ClicksInertWhileOperating
<1>1. Init => ClicksInertWhileOperating
  BY DEF Init, ClicksInertWhileOperating
<1>2. ClicksInertWhileOperating /\ [Next]_vars => ClicksInertWhileOperating'
  <2> SUFFICES ASSUME ClicksInertWhileOperating, [Next]_vars
               PROVE  ClicksInertWhileOperating'
    OBVIOUS
  <2> USE DEF ClicksInertWhileOperating, UpdateUIState, opVars, modeVars
  <2>1. CASE ConnectFindsNothing \/ ConnectOpens \/ ConnectRefused \/ DisconnectLaser
    BY <2>1 DEF ConnectFindsNothing, ConnectOpens, ConnectRefused, DisconnectLaser
  <2>2. CASE HomeLaser \/ Jog \/ PreviewClick \/ SetPowerOrSpeed
    BY <2>2 DEF HomeLaser, Jog, PreviewClick, SetPowerOrSpeed
  <2>3. CASE InteractionModeChanged
    BY <2>3 DEF InteractionModeChanged
  <2>4. CASE ResumeJob \/ PauseJob
    BY <2>4 DEF ResumeJob, PauseJob
  <2>5. CASE StartJob \/ StartStep
    BY <2>5 DEF StartJob, StartStep, SendChunk, ChunkFails, StartCommandFails, StartSucceeds
  <2>6. CASE StopJobStopsMachine \/ ProgressTick
    BY <2>6 DEF StopJobStopsMachine, ProgressTick, Polled, JobCompleted, JobError
  <2>7. CASE PauseSimulation \/ StopJobEndsSimulation
    BY <2>7 DEF PauseSimulation, StopJobEndsSimulation, StopSimulation, PreviewLeavesSimulation
  <2>8. CASE SimulateJob \/ SimulationCompleted
    BY <2>8 DEF SimulateJob, SimulationCompleted
  <2>9. CASE CleanupFires
    <3>1. CASE simTimer
      BY <2>9, <3>1 DEF CleanupFires
    <3>2. CASE ~simTimer
      BY <2>9, <3>2 DEF CleanupFires, StopSimulation, PreviewLeavesSimulation
    <3> QED BY <3>1, <3>2
  <2>10. CASE ImportSVG \/ ImportCancelled \/ ImportLoads \/ ImportFails
    BY <2>10 DEF ImportSVG, ImportCancelled, ImportLoads, ImportFails
  <2>11. CASE Relaunch
    BY <2>11 DEF Relaunch
  <2>12. CASE MachineNext
    BY <2>12 DEF MachineNext, MachineBegins, MachineEnds, MachineMoved, MachineFails,
                 MachineCleared, MachineStep
  <2>13. CASE UNCHANGED vars
    BY <2>13 DEF vars
  <2> QED
    BY <2>1, <2>2, <2>3, <2>4, <2>5, <2>6, <2>7, <2>8, <2>9, <2>10, <2>11, <2>12, <2>13
    DEF Next, StopJob
<1> QED
  BY <1>1, <1>2, PTL DEF Spec

-----------------------------------------------------------------------------
(* The machine's side of a step.                                           *)

\* What may reach the machine in one step: nothing, a command, a chunk of a job or
\* START_JOB after the last one, or a move of its own.
LEMMA WireSteps ==
  ASSUME [Next]_vars
  PROVE  \/ UNCHANGED <<machine, loaded>>
         \/ HomeLaser \/ Jog \/ PreviewClick \/ SetPowerOrSpeed
         \/ ResumeJob \/ PauseJob \/ StopJobStopsMachine
         \/ SendChunk \/ ChunkFails \/ StartCommandFails \/ StartSucceeds
         \/ MachineNext
BY DEF Next, StartStep, vars, wireVars, Silent, StopJob, ConnectFindsNothing, ConnectOpens,
       ConnectRefused, DisconnectLaser, InteractionModeChanged, StartJob, PauseSimulation,
       StopJobEndsSimulation, SimulateJob, SimulationCompleted, CleanupFires, ProgressTick,
       ImportSVG, ImportCancelled, ImportLoads, ImportFails, Relaunch

\* The handlers that send one command, and that it is not START_JOB.
LEMMA OtherCommands ==
  HomeLaser \/ Jog \/ PreviewClick \/ SetPowerOrSpeed \/ ResumeJob \/ PauseJob
    \/ StopJobStopsMachine => \E c \in Commands \ {"START"} : Succeeds(c) \/ Fails(c)
BY DEF HomeLaser, Jog, PreviewClick, SetPowerOrSpeed, ResumeJob, PauseJob,
       StopJobStopsMachine, StopSent, Commands, Motion

\* A command other than START_JOB brings no job into execution and leaves the data
\* of one in execution alone.
LEMMA CommandSpares ==
  ASSUME TypeOK, NEW c \in Commands \ {"START"}, Succeeds(c) \/ Fails(c),
         machine' \in Executing
  PROVE  machine \in Executing /\ loaded' = loaded
<1>1. CASE Deliver(c)
  BY <1>1, AcceptExecutes DEF Deliver, TypeOK, WireOK
<1>2. CASE Silent
  BY <1>2 DEF Silent
<1> QED
  BY <1>1, <1>2 DEF Succeeds, Fails

\* A job in execution keeps its data as long as it is in execution.
LEMMA ExecutionKeepsData ==
  ASSUME TypeOK, [Next]_vars, machine \in Executing, machine' \in Executing
  PROVE  loaded' = loaded
<1>1. CASE \E c \in Commands \ {"START"} : Succeeds(c) \/ Fails(c)
  BY <1>1, CommandSpares
<1>2. CASE SendChunk \/ ChunkFails
  BY <1>2 DEF SendChunk, ChunkFails, AfterData, Executing
<1>3. CASE StartCommandFails \/ StartSucceeds
  BY <1>3 DEF StartCommandFails, StartSucceeds, Succeeds, Fails, Deliver, Silent, Accept,
              Heeds, Motion, Executing
<1>4. CASE MachineNext
  BY <1>4 DEF MachineNext, MachineBegins, MachineEnds, MachineMoved, MachineFails,
              MachineCleared, MachineStep, Executing
<1> QED
  BY <1>1, <1>2, <1>3, <1>4, OtherCommands, WireSteps

-----------------------------------------------------------------------------
(* Safety when the machine and the link keep their word.                   *)

\* Writes arrive or the process does not learn otherwise, status answers are read
\* whole, READY means that nothing was started, and the process runs once.
KeepsItsWord == {"write", "short", "lag"} \cap Faults = {} /\ MaxRelaunches = 0

\* What the controls know of the machine.  IdleMeansStopped alone is not inductive:
\* that a poll's READY really ends the job rests on the last two parts, and that a
\* tick without a device never forgets a job rests on the parts about the handle.
\* The machine whose READY let startJob go on is ready until START_JOB reaches it.
ControlsKnow ==
  /\ machine # "starting"
  /\ leaked => device = "null"
  /\ device = "open" => isConnected
  /\ opState # "Idle" /\ ~leaked => device = "open"
  /\ opState = "Idle" /\ ~leaked => machine \notin Executing
  /\ opState = "Running" /\ ~leaked => machine # "paused"
  /\ starting # "no" => device = "open" /\ machine = "ready"

\* Without a fault of the link an answer tells the truth about a machine that the
\* controls believe to be running.
LEMMA TrueAnswers ==
  ASSUME KeepsItsWord, machine \in MachineStates, machine \notin {"starting", "paused"},
         NEW state \in StatusResults(machine)
  PROVE  state \in {"READY", "ERROR"} => machine \notin Executing
BY DEF KeepsItsWord, StatusResults, Report, Answer, MachineStates, Executing

\* The controls stay right about the machine when the link keeps its word.
LEMMA ControlsKnowInvariant ==
  ASSUME KeepsItsWord
  PROVE  Spec => []ControlsKnow
<1>1. Init => ControlsKnow
  BY DEF Init, ControlsKnow, Executing
<1>2. TypeOK /\ ControlsKnow /\ [Next]_vars => ControlsKnow'
  <2> SUFFICES ASSUME TypeOK, ControlsKnow, [Next]_vars
               PROVE  ControlsKnow'
    OBVIOUS
  <2> USE DEF ControlsKnow, KeepsItsWord
  <2>e. Executing = {"starting", "busy", "paused"}
    BY DEF Executing
  <2>m. machine \in MachineStates /\ opState \in {"Idle", "Running", "Paused"}
        /\ device \in {"null", "open"}
    BY DEF TypeOK, WireOK, OpOK, LinkOK
  <2>s. \A c \in Commands : Succeeds(c) \/ Fails(c) =>
          /\ machine' \in Executing /\ machine \notin Executing => c = "START"
          /\ c = "STOP" => machine' \notin Executing
          /\ machine' = "paused" => c = "PAUSE" \/ (machine = "paused" /\ c # "RESUME")
          /\ machine' # "starting"
    BY <2>m, AcceptExecutes DEF Succeeds, Fails, Deliver
  <2> USE DEF Handler, startVars
  <2>1. CASE UNCHANGED <<machine, opState, device, isConnected, leaked, starting>>
    BY <2>1
  <2>2. CASE ConnectOpens
    BY <2>2, <2>m DEF ConnectOpens, HeldByProcess, Silent, opVars
  <2>3. CASE ConnectRefused
    BY <2>3 DEF ConnectRefused, Silent
  <2>4. CASE DisconnectLaser
    BY <2>4 DEF DisconnectLaser, MayDisconnect, Silent, opVars
  <2>5. CASE HomeLaser \/ Jog \/ PreviewClick \/ SetPowerOrSpeed
    <3>1. starting' = "no" /\ UNCHANGED <<opState, device, isConnected, leaked>>
      BY <2>5 DEF HomeLaser, Jog, PreviewClick, SetPowerOrSpeed, opVars, linkVars
    <3>2. \E c \in Motion \cup {"SET"} : Succeeds(c) \/ Fails(c)
      BY <2>5 DEF HomeLaser, Jog, PreviewClick, SetPowerOrSpeed, Motion
    <3>3. PICK c \in Motion \cup {"SET"} : Succeeds(c) \/ Fails(c)
      BY <3>2
    <3>4. c \in Commands /\ c \notin {"START", "STOP", "PAUSE", "RESUME"}
      BY <3>3 DEF Commands, Motion
    <3> QED
      BY <3>1, <3>3, <3>4, <2>s
  <2>6. CASE ResumeJob
    <3>1. "RESUME" \in Commands /\ ~Fails("RESUME")
      BY DEF Commands, Fails
    <3> QED
      BY <2>6, <2>s, <3>1 DEF ResumeJob, linkVars
  <2>7. CASE PauseJob
    <3>1. "PAUSE" \in Commands /\ ~Fails("PAUSE")
      BY DEF Commands, Fails
    <3> QED
      BY <2>7, <2>s, <3>1 DEF PauseJob, linkVars
  <2>8. CASE StopJobStopsMachine
    <3>1. "STOP" \in Commands /\ ~Fails("STOP")
      BY DEF Commands, Fails
    <3> QED
      BY <2>8, <2>s, <3>1 DEF StopJobStopsMachine, StopSent, JobCompleted, linkVars
  <2>9. CASE StartSucceeds
    <3>1. device = "open" /\ ~leaked /\ machine = "ready"
      BY <2>9 DEF StartSucceeds
    <3>2. UNCHANGED <<device, isConnected, leaked>> /\ opState' = "Running" /\ starting' = "no"
      BY <2>9 DEF StartSucceeds, StartEnds, linkVars
    <3>3. "START" \in Commands
      BY DEF Commands
    <3>4. machine' # "paused" /\ machine' # "starting"
      BY <2>9, <2>s, <3>1, <3>3 DEF StartSucceeds
    <3> QED
      BY <3>1, <3>2, <3>4
  <2>14. CASE StartJob
    <3>1. device = "open" /\ ~leaked /\ opState # "Paused" /\ "READY" \in StatusResults(machine)
      BY <2>14 DEF StartJob, CanStart
    <3>2. machine # "paused"
      BY <2>m, <2>e, <3>1
    <3>3. machine = "ready"
      BY <2>m, <3>1, <3>2 DEF StatusResults, Report, Answer, MachineStates, Executing
    <3> QED
      BY <2>14, <3>1, <3>3 DEF StartJob, Silent, opVars, linkVars
  <2>15. CASE SendChunk
    BY <2>15 DEF SendChunk, opVars, linkVars
  <2>10. CASE ProgressTick
    <3>1. starting' = "no" /\ UNCHANGED <<machine, device, isConnected, leaked>>
      BY <2>10 DEF ProgressTick, Silent, linkVars
    <3>2. opState' = opState \/ opState' = "Idle"
      BY <2>10 DEF ProgressTick, Polled, JobCompleted, JobError
    <3>3. ASSUME opState # "Idle", opState' = "Idle", ~leaked
          PROVE  machine \notin Executing
      <4>1. ~NothingToWatch
        BY <3>3 DEF NothingToWatch
      <4>2. PICK state \in StatusResults(machine) : Polled(state)
        BY <2>10, <4>1 DEF ProgressTick
      <4>3. state = "ERROR" \/ (state = "READY" /\ opState = "Running")
        BY <3>3, <4>2 DEF Polled
      <4>4. CASE opState = "Running"
        BY <3>3, <4>3, <4>4, <2>m, TrueAnswers
      <4>5. CASE opState = "Paused"
        <5>1. state = "ERROR"
          BY <4>3, <4>5
        <5> QED
          BY <5>1, <4>2, <2>m, <2>e DEF StatusResults, Report, Answer, MachineStates
      <4> QED
        BY <4>4, <4>5, <2>m, <3>3
    <3> QED
      BY <3>1, <3>2, <3>3
  <2>11. CASE MachineNext
    BY <2>11, <2>e DEF MachineNext, MachineBegins, MachineEnds, MachineMoved, MachineFails,
                MachineCleared, MachineStep, opVars, linkVars
  <2>12. ~Relaunch /\ ~ChunkFails /\ ~StartCommandFails
    BY DEF Relaunch, TypeOK, ChunkFails, StartCommandFails, Fails
  <2>13. ConnectFindsNothing \/ InteractionModeChanged \/ PauseSimulation
           \/ StopJobEndsSimulation \/ SimulateJob \/ SimulationCompleted \/ CleanupFires
           \/ ImportSVG \/ ImportCancelled \/ ImportLoads \/ ImportFails \/ UNCHANGED vars
           => UNCHANGED <<machine, opState, device, isConnected, leaked, starting>>
    BY DEF ConnectFindsNothing, InteractionModeChanged, PauseSimulation, StopJobEndsSimulation,
           SimulateJob, SimulationCompleted, CleanupFires, ImportSVG, ImportCancelled,
           ImportLoads, ImportFails, Silent, vars, opVars, linkVars, wireVars
  <2> QED
    BY <2>1, <2>2, <2>3, <2>4, <2>5, <2>6, <2>7, <2>8, <2>9, <2>10, <2>11, <2>12, <2>13, <2>14, <2>15
    DEF Next, StartStep, StopJob
<1> QED
  BY <1>1, <1>2, TypeCorrect, PTL DEF Spec

\* The window never forgets a job it started: with the controls idle and a handle
\* open the machine executes nothing.
THEOREM IdleStopped ==
  ASSUME KeepsItsWord
  PROVE  Spec => []IdleMeansStopped
<1>1. ControlsKnow => IdleMeansStopped
  BY DEF ControlsKnow, IdleMeansStopped
<1> QED
  BY <1>1, ControlsKnowInvariant, PTL

\* The motion handlers ask the operation state, and nothing else the window sends is
\* a motion.
LEMMA MotionNeedsIdle ==
  ASSUME IdleMeansStopped, Next, cmd' \in Motion
  PROVE  machine \notin Executing
<1>1. CASE HomeLaser \/ Jog \/ PreviewClick
  BY <1>1 DEF HomeLaser, Jog, PreviewClick, MayMove, IdleMeansStopped
<1>2. CASE SetPowerOrSpeed \/ ResumeJob \/ PauseJob \/ StopJobStopsMachine
  BY <1>2 DEF SetPowerOrSpeed, ResumeJob, PauseJob, StopJobStopsMachine, StopSent,
              Succeeds, Fails, Deliver, Silent, Motion
<1>3. CASE StartStep
  BY <1>3 DEF StartStep, SendChunk, ChunkFails, StartCommandFails, StartSucceeds,
              Succeeds, Fails, Deliver, Silent, Motion
<1>4. CASE MachineNext
  BY <1>4 DEF MachineNext, MachineBegins, MachineEnds, MachineMoved, MachineFails,
              MachineCleared, MachineStep, Motion
<1>5. CASE Silent
  BY <1>5 DEF Silent, Motion
<1> QED
  BY <1>1, <1>2, <1>3, <1>4, <1>5
  DEF Next, StopJob, ConnectFindsNothing, ConnectOpens, ConnectRefused, DisconnectLaser, StartJob,
      InteractionModeChanged, PauseSimulation, StopJobEndsSimulation, SimulateJob,
      SimulationCompleted, CleanupFires, ProgressTick, ImportSVG, ImportCancelled,
      ImportLoads, ImportFails, Relaunch

\* Of one process only disconnectLaser lets go of a handle without leaking it, and it
\* asks the operation state.
LEMMA DisconnectNeedsIdle ==
  ASSUME TypeOK, IdleMeansStopped, Next,
         device = "open", device' = "null", ~leaked', relaunches' = relaunches
  PROVE  machine \notin Executing
<1>1. device # device' /\ relaunches \in Nat
  BY DEF TypeOK
<1>2. DisconnectLaser
  BY <1>1
  DEF Next, StopJob, ConnectFindsNothing, ConnectOpens, ConnectRefused, HomeLaser, Jog,
      PreviewClick, SetPowerOrSpeed, InteractionModeChanged, ResumeJob, StartJob, StartStep,
      SendChunk, ChunkFails, StartCommandFails, StartSucceeds, PauseJob, StopJobStopsMachine, PauseSimulation,
      StopJobEndsSimulation, SimulateJob, SimulationCompleted, CleanupFires, ProgressTick,
      ImportSVG, ImportCancelled, ImportLoads, ImportFails, Relaunch, MachineNext,
      MachineBegins, MachineEnds, MachineMoved, MachineFails, MachineCleared, MachineStep,
      linkVars
<1> QED
  BY <1>2 DEF DisconnectLaser, MayDisconnect, IdleMeansStopped

\* The motion handlers' check of the operation state suffices to keep motion away
\* from a machine that executes a job.
THEOREM MotionSpared ==
  ASSUME KeepsItsWord
  PROVE  Spec => NoMotionDuringJob
<1>1. IdleMeansStopped /\ [Next]_vars => [cmd' \in Motion => machine \notin Executing]_vars
  BY MotionNeedsIdle
<1> QED
  BY <1>1, IdleStopped, PTL DEF Spec, NoMotionDuringJob

\* disconnectLaser's check of the operation state suffices to keep a handle as long
\* as the machine executes a job.
THEOREM DisconnectSafe ==
  ASSUME KeepsItsWord
  PROVE  Spec => DisconnectOnlyWhenStopped
<1>1. TypeOK /\ IdleMeansStopped /\ [Next]_vars
        => [device = "open" /\ device' = "null" /\ ~leaked' /\ relaunches' = relaunches
              => machine \notin Executing]_vars
  BY DisconnectNeedsIdle
<1> QED
  BY <1>1, IdleStopped, TypeCorrect, PTL DEF Spec, DisconnectOnlyWhenStopped

-----------------------------------------------------------------------------
(* How the window can lose a job, in any environment.                      *)

\* stopJob counts the job as completed, the machine never got the command.
StopLost == StopJobStopsMachine /\ cmd' # "STOP"

\* uls_start_job reports an error for a START_JOB that the machine got.
StartUnreported == StartCommandFails /\ opState = "Idle" /\ cmd' = "START"

\* updateJobProgress takes an answer for the end of a job that is in execution.
AnswerMisread ==
  /\ ProgressTick /\ ~NothingToWatch
  /\ opState # "Idle" /\ opState' = "Idle"
  /\ machine \in Executing

\* The process ends while the machine executes a job; the next one starts idle.
JobAbandoned == Relaunch /\ machine \in Executing

LinkSlips == StopLost \/ StartUnreported \/ AnswerMisread \/ JobAbandoned

\* connectLaser during a job: the refused open overwrites the handle, and the next
\* poll takes the missing handle for the end of the job.
HandleLost == ConnectRefused /\ opState # "Idle"

JobSlips == LinkSlips \/ HandleLost

\* With the controls idle the machine executes no job, handle or not.
IdleControlsIdleMachine == opState = "Idle" => machine \notin Executing

\* ControlsKnow, as far as it holds whatever else goes wrong.
ControlsFollow ==
  /\ leaked => device = "null"
  /\ device = "open" => isConnected
  /\ opState # "Idle" => device = "open"
  /\ IdleControlsIdleMachine

\* Only a step that slips breaks what the controls know.
LEMMA ControlsFollowStep ==
  ASSUME TypeOK, ChecksHold, ControlsFollow, [Next]_vars, ~JobSlips
  PROVE  ControlsFollow'
<1> USE DEF ControlsFollow, IdleControlsIdleMachine, JobSlips, LinkSlips
<1>m. machine \in MachineStates /\ opState \in {"Idle", "Running", "Paused"}
      /\ device \in {"null", "open"}
  BY DEF TypeOK, WireOK, OpOK, LinkOK
<1>s. \A c \in Commands :
        (Succeeds(c) \/ Fails(c)) /\ machine' \in Executing /\ machine \notin Executing
          => c = "START" /\ cmd' = "START"
  BY <1>m, AcceptExecutes DEF Succeeds, Fails, Deliver, Silent
<1>1. CASE UNCHANGED <<machine, opState, device, isConnected, leaked>>
  BY <1>1
<1>2. CASE ConnectOpens
  BY <1>2, <1>m DEF ConnectOpens, HeldByProcess, Silent, opVars
<1>3. CASE ConnectRefused
  BY <1>3 DEF ConnectRefused, HandleLost, Silent, opVars
<1>4. CASE DisconnectLaser
  BY <1>4 DEF DisconnectLaser, MayDisconnect, Silent, opVars
<1>5. CASE HomeLaser \/ Jog \/ PreviewClick \/ SetPowerOrSpeed
  <2>1. UNCHANGED <<opState, device, isConnected, leaked>>
    BY <1>5 DEF HomeLaser, Jog, PreviewClick, SetPowerOrSpeed, opVars, linkVars
  <2>2. PICK c \in Motion \cup {"SET"} : Succeeds(c) \/ Fails(c)
    BY <1>5 DEF HomeLaser, Jog, PreviewClick, SetPowerOrSpeed, Motion
  <2>3. c \in Commands /\ c # "START"
    BY <2>2 DEF Commands, Motion
  <2> QED
    BY <2>1, <2>2, <2>3, <1>s
<1>6. CASE ResumeJob \/ PauseJob
  BY <1>6, <1>s, CommandNames DEF ResumeJob, PauseJob, linkVars
<1>7. CASE StopJobStopsMachine
  <2>1. Deliver("STOP")
    BY <1>7 DEF StopLost, StopJobStopsMachine, StopSent, Succeeds, Fails, Silent
  <2>2. machine' \notin Executing
    BY <2>1, <1>m, AcceptExecutes, CommandNames DEF Deliver
  <2> QED
    BY <1>7, <2>2 DEF StopJobStopsMachine, JobCompleted, linkVars
<1>8. CASE SendChunk \/ ChunkFails
  BY <1>8 DEF SendChunk, ChunkFails, opVars, linkVars
<1>9. CASE StartCommandFails
  <2>1. UNCHANGED <<opState, device, isConnected, leaked>>
    BY <1>9 DEF StartCommandFails, opVars, linkVars
  <2>2. CASE opState = "Idle"
    <3>1. Fails("START") /\ cmd' # "START"
      BY <1>9, <2>2 DEF StartUnreported, StartCommandFails
    <3> QED
      BY <2>1, <2>2, <3>1, <1>s, CommandNames
  <2>3. CASE opState # "Idle"
    BY <2>1, <2>3
  <2> QED
    BY <2>2, <2>3
<1>10. CASE StartSucceeds
  <2>1. device = "open"
    BY <1>10 DEF StartSucceeds, ChecksHold
  <2> QED
    BY <1>10, <2>1 DEF StartSucceeds, linkVars
<1>11. CASE ProgressTick
  <2>1. UNCHANGED <<machine, device, isConnected, leaked>>
    BY <1>11 DEF ProgressTick, Silent, linkVars
  <2>2. opState' = opState \/ opState' = "Idle"
    BY <1>11 DEF ProgressTick, Polled, JobCompleted, JobError
  <2>3. opState # "Idle" /\ opState' = "Idle" => machine \notin Executing
    BY <1>11 DEF AnswerMisread, NothingToWatch
  <2> QED
    BY <2>1, <2>2, <2>3
<1>12. CASE Relaunch
  BY <1>12 DEF Relaunch, JobAbandoned, Silent
<1>13. CASE MachineNext
  BY <1>13 DEF MachineNext, MachineBegins, MachineEnds, MachineMoved, MachineFails,
               MachineCleared, MachineStep, opVars, linkVars, Executing
<1>14. ConnectFindsNothing \/ InteractionModeChanged \/ StartJob \/ PauseSimulation
         \/ StopJobEndsSimulation \/ SimulateJob \/ SimulationCompleted \/ CleanupFires
         \/ ImportSVG \/ ImportCancelled \/ ImportLoads \/ ImportFails \/ UNCHANGED vars
         => UNCHANGED <<machine, opState, device, isConnected, leaked>>
  BY DEF ConnectFindsNothing, InteractionModeChanged, StartJob, PauseSimulation,
         StopJobEndsSimulation, SimulateJob, SimulationCompleted, CleanupFires, ImportSVG,
         ImportCancelled, ImportLoads, ImportFails, Silent, vars, opVars, linkVars, wireVars
<1> QED
  BY <1>1, <1>2, <1>3, <1>4, <1>5, <1>6, <1>7, <1>8, <1>9, <1>10, <1>11, <1>12, <1>13, <1>14
  DEF Next, StartStep, StopJob

\* Whatever the environment does and however often the process is started again: in a
\* behaviour in which no job slips, idle controls mean a machine that executes nothing,
\* whether the window has a handle or not, and all three promises are kept.  A stop
\* that is not delivered, a start that is not reported, an answer misread, a process
\* that ends and a handle overwritten during a job are the only ways in which the
\* window comes to forget a job.
THEOREM OnlySlipsForget ==
  Spec /\ [][~JobSlips]_vars
    => []IdleControlsIdleMachine /\ []IdleMeansStopped /\ NoMotionDuringJob
         /\ DisconnectOnlyWhenStopped
<1>1. Init => ControlsFollow
  BY DEF Init, ControlsFollow, IdleControlsIdleMachine, Executing
<1>2. UNCHANGED vars => (ControlsFollow <=> ControlsFollow')
  BY DEF ControlsFollow, IdleControlsIdleMachine, vars, opVars, linkVars, wireVars
<1>3. TypeOK /\ ChecksHold /\ ControlsFollow /\ [Next]_vars /\ [~JobSlips]_vars
        => ControlsFollow'
  BY <1>2, ControlsFollowStep
<1>4. ControlsFollow => IdleControlsIdleMachine /\ IdleMeansStopped
  BY DEF ControlsFollow, IdleControlsIdleMachine, IdleMeansStopped
<1>5. IdleMeansStopped /\ [Next]_vars => [cmd' \in Motion => machine \notin Executing]_vars
  BY MotionNeedsIdle
<1>6. TypeOK /\ IdleMeansStopped /\ [Next]_vars
        => [device = "open" /\ device' = "null" /\ ~leaked' /\ relaunches' = relaunches
              => machine \notin Executing]_vars
  BY DisconnectNeedsIdle
<1> QED
  BY <1>1, <1>3, <1>4, <1>5, <1>6, TypeCorrect, ChecksStillHold, PTL
  DEF Spec, NoMotionDuringJob, DisconnectOnlyWhenStopped

\* A link that reports what arrived, answers that are whole and true, and a process
\* that runs once: then no job slips but by a lost handle, although the machine may
\* fail, a search may find nothing, a query may fail and a paused machine may call
\* itself READY.
THEOREM SoundLinkNeverSlips ==
  ASSUME KeepsItsWord
  PROVE  Spec => [][~LinkSlips]_vars
<1>1. TypeOK /\ ControlsKnow /\ [Next]_vars => [~LinkSlips]_vars
  <2> SUFFICES ASSUME TypeOK, ControlsKnow, LinkSlips
               PROVE  FALSE
    OBVIOUS
  <2>1. CASE StopLost \/ StartUnreported
    BY <2>1 DEF StopLost, StopJobStopsMachine, StopSent, Succeeds, Fails, Deliver,
                StartUnreported, StartCommandFails, KeepsItsWord
  <2>2. CASE AnswerMisread
    <3>1. ~NothingToWatch /\ ~leaked
      BY <2>2 DEF AnswerMisread, NothingToWatch, ControlsKnow
    <3>2. PICK state \in StatusResults(machine) : Polled(state)
      BY <2>2, <3>1 DEF AnswerMisread, ProgressTick
    <3>3. state = "ERROR" \/ (state = "READY" /\ opState = "Running")
      BY <2>2, <3>2 DEF AnswerMisread, Polled
    <3>4. machine \in {"busy", "paused"} /\ (opState = "Running" => machine = "busy")
      BY <2>2, <3>1 DEF AnswerMisread, ControlsKnow, Executing
    <3> QED
      BY <3>2, <3>3, <3>4 DEF KeepsItsWord, StatusResults, Report, Answer
  <2>3. CASE JobAbandoned
    BY <2>3 DEF JobAbandoned, Relaunch, TypeOK, KeepsItsWord
  <2> QED
    BY <2>1, <2>2, <2>3 DEF LinkSlips
<1> QED
  BY <1>1, ControlsKnowInvariant, TypeCorrect, PTL DEF Spec

-----------------------------------------------------------------------------
(* The status query in front of the transfer and START_JOB.                *)

\* startJob goes on although the machine is not ready: an answer was taken for READY
\* that is none, or READY is not what it seems.
StartMisread == StartJob /\ machine # "ready"

\* After a true READY the machine is ready until START_JOB reaches it, takes every
\* chunk and then holds the whole job.
StartsWhole ==
  /\ kept
  /\ starting # "no" => machine = "ready"
  /\ starting = "start" => loaded = currentJob
  /\ machine \in Executing => loaded \in Jobs

\* A job comes into execution only by startJob's last step, with the data that the
\* machine then holds.
LEMMA BegunByStart ==
  ASSUME TypeOK, [Next]_vars, machine \notin Executing, machine' \in Executing
  PROVE  starting = "start" /\ loaded' = loaded
<1>1. CASE \E c \in Commands \ {"START"} : Succeeds(c) \/ Fails(c)
  BY <1>1, CommandSpares
<1>2. CASE SendChunk \/ ChunkFails
  BY <1>2 DEF SendChunk, ChunkFails
<1>3. CASE StartCommandFails \/ StartSucceeds
  <2>1. starting = "start" /\ (Deliver("START") \/ Silent)
    BY <1>3 DEF StartCommandFails, StartSucceeds, Succeeds, Fails
  <2>2. "START" \in Commands /\ machine \in MachineStates
    BY CommandNames DEF TypeOK, WireOK
  <2> QED
    BY <2>1, <2>2, AcceptExecutes DEF Deliver, Silent
<1>4. CASE MachineNext
  BY <1>4 DEF MachineNext, MachineBegins, MachineEnds, MachineMoved, MachineFails,
              MachineCleared, MachineStep, Executing
<1> QED
  BY <1>1, <1>2, <1>3, <1>4, OtherCommands, WireSteps

\* A step that is no misread start keeps all this.
LEMMA StartsWholeStep ==
  ASSUME TypeOK, ChecksHold, StartsWhole, [Next]_vars, ~StartMisread
  PROVE  StartsWhole'
<1>1. CASE starting' # "no"
  <2>0. currentJob' = currentJob
    BY <1>1, MainThreadHeld DEF jobVars
  <2>1. CASE StartJob
    <3>1. machine = "ready" /\ UNCHANGED <<machine, loaded, kept>> /\ starting' = "send"
      BY <2>1 DEF StartMisread, StartJob, Silent
    <3> QED
      BY <3>1 DEF StartsWhole, Executing
  <2>2. CASE SendChunk
    <3>1. machine = "ready" /\ machine' = "ready" /\ kept
      BY <2>2 DEF SendChunk, StartsWhole
    <3>2. CASE sent + 1 = JobChunks
      <4>1. loaded' = currentJob /\ kept'
        BY <2>2, <3>1, <3>2 DEF SendChunk, NextData, AfterData
      <4> QED
        BY <2>0, <3>1, <4>1 DEF StartsWhole, Executing
    <3>3. CASE sent + 1 # JobChunks
      <4>1. starting' = "send" /\ kept'
        BY <2>2, <3>1, <3>3 DEF SendChunk
      <4> QED
        BY <3>1, <4>1 DEF StartsWhole, Executing
    <3> QED
      BY <3>2, <3>3
  <2>3. CASE UNCHANGED startVars /\ (MachineNext \/ UNCHANGED wireVars)
    <3>1. starting # "no" /\ machine = "ready"
      BY <1>1, <2>3 DEF startVars, StartsWhole
    <3>2. UNCHANGED <<machine, loaded, starting, kept>>
      BY <2>3, <3>1 DEF startVars, wireVars, MachineNext, MachineBegins, MachineEnds,
         MachineMoved, MachineFails, MachineCleared, MachineStep
    <3> QED
      BY <2>0, <3>2 DEF StartsWhole
  <2> QED
    BY <1>1, <2>1, <2>2, <2>3, MainThreadHeld
<1>2. CASE starting' = "no"
  <2>1. kept'
    BY <1>2, StartWriters
    DEF StartsWhole, startVars, StartEnds, StartJob, SendChunk
  <2>2. machine' \in Executing => loaded' \in Jobs
    <3> SUFFICES ASSUME machine' \in Executing PROVE loaded' \in Jobs
      OBVIOUS
    <3>1. CASE machine \in Executing
      BY <3>1, ExecutionKeepsData DEF StartsWhole
    <3>2. CASE machine \notin Executing
      <4>1. loaded' = loaded /\ loaded = currentJob /\ currentJob # NoJob
        BY <3>2, BegunByStart DEF StartsWhole, ChecksHold
      <4> QED
        BY <4>1 DEF TypeOK, JobOK
    <3> QED
      BY <3>1, <3>2
  <2> QED
    BY <1>2, <2>1, <2>2 DEF StartsWhole
<1> QED
  BY <1>1, <1>2

\* In every environment: as long as no start is misread, START_JOB reaches only a ready
\* machine and window and machine implement JobExecution, whatever else is lost, fails,
\* is interrupted or started again between the status query, the chunks and START_JOB.
THEOREM OnlyMisreadsMix ==
  Spec /\ [][~StartMisread]_vars => StartOnlyWhenReady /\ OneWholeJob
<1> DEFINE now == IF machine \in Executing THEN loaded ELSE NoJob
<1>1. Init => StartsWhole /\ Execution!Init
  BY DEF Init, StartsWhole, Execution!Init, Executing
<1>2. UNCHANGED vars => (StartsWhole <=> StartsWhole')
  BY DEF StartsWhole, vars, startVars, wireVars, jobVars
<1>3. TypeOK /\ ChecksHold /\ StartsWhole /\ [Next]_vars /\ [~StartMisread]_vars
        => StartsWhole'
  BY <1>2, StartsWholeStep
<1>4. TypeOK /\ StartsWhole /\ StartsWhole' /\ [Next]_vars => [Execution!Next]_now
  <2> SUFFICES ASSUME TypeOK, StartsWhole, StartsWhole', [Next]_vars
               PROVE  Execution!Next \/ UNCHANGED now
    OBVIOUS
  <2> USE DEF StartsWhole, Execution!Next, Execution!Begin, Execution!End
  <2>1. CASE machine \in Executing /\ machine' \in Executing
    BY <2>1, ExecutionKeepsData
  <2>2. CASE machine \in Executing /\ machine' \notin Executing
    BY <2>2, JobsAssumption
  <2>3. CASE machine \notin Executing /\ machine' \in Executing
    BY <2>3
  <2>4. CASE machine \notin Executing /\ machine' \notin Executing
    BY <2>4
  <2> QED
    BY <2>1, <2>2, <2>3, <2>4
<1>5. StartsWhole /\ [Next]_vars => [cmd' = "START" => machine = "ready"]_vars
  <2> SUFFICES ASSUME StartsWhole, Next, cmd' = "START"
               PROVE  machine = "ready"
    OBVIOUS
  <2>1. CASE StartCommandFails \/ StartSucceeds
    BY <2>1 DEF StartCommandFails, StartSucceeds, StartsWhole
  <2>2. CASE SendChunk \/ ChunkFails
    BY <2>2 DEF SendChunk, ChunkFails
  <2>3. CASE HomeLaser \/ Jog \/ PreviewClick \/ SetPowerOrSpeed \/ ResumeJob \/ PauseJob
               \/ StopJobStopsMachine
    BY <2>3 DEF HomeLaser, Jog, PreviewClick, SetPowerOrSpeed, ResumeJob, PauseJob,
       StopJobStopsMachine, StopSent, Succeeds, Fails, Deliver, Silent
  <2>4. CASE MachineNext
    BY <2>4 DEF MachineNext, MachineBegins, MachineEnds, MachineMoved, MachineFails,
                MachineCleared, MachineStep
  <2>5. CASE Silent
    BY <2>5 DEF Silent
  <2> QED
    BY <2>1, <2>2, <2>3, <2>4, <2>5
    DEF Next, StartStep, StopJob, ConnectFindsNothing, ConnectOpens, ConnectRefused,
        DisconnectLaser, InteractionModeChanged, StartJob, PauseSimulation,
        StopJobEndsSimulation, SimulateJob, SimulationCompleted, CleanupFires, ProgressTick,
        ImportSVG, ImportCancelled, ImportLoads, ImportFails, Relaunch
<1> QED
  BY <1>1, <1>3, <1>4, <1>5, TypeCorrect, ChecksStillHold, PTL
  DEF Spec, StartOnlyWhenReady, OneWholeJob, Execution!Spec

\* READY is the answer of a machine that has nothing to do, and only of one.
ReadyMeansReady == {"short", "lag"} \cap Faults = {} /\ PausedReports = {"BUSY"}

\* Then no machine is ever caught between taking START_JOB and beginning the job.
LEMMA NeverStarting ==
  ASSUME ReadyMeansReady
  PROVE  Spec => [](machine # "starting")
<1>1. Init => machine # "starting"
  BY DEF Init
<1>2. TypeOK /\ machine # "starting" /\ [Next]_vars => (machine # "starting")'
  <2> SUFFICES ASSUME TypeOK, machine # "starting", [Next]_vars
               PROVE  machine' # "starting"
    OBVIOUS
  <2>m. machine \in MachineStates /\ "lag" \notin Faults
    BY DEF TypeOK, WireOK, ReadyMeansReady
  <2>1. \A c \in Commands : Succeeds(c) \/ Fails(c) => machine' # "starting"
    BY <2>m, AcceptExecutes DEF Succeeds, Fails, Deliver, Silent
  <2>2. CASE HomeLaser \/ Jog \/ PreviewClick \/ SetPowerOrSpeed \/ ResumeJob \/ PauseJob
               \/ StopJobStopsMachine
    BY <2>1, <2>2, OtherCommands
  <2>3. CASE StartCommandFails \/ StartSucceeds
    BY <2>1, <2>3, CommandNames DEF StartCommandFails, StartSucceeds
  <2>4. CASE SendChunk \/ ChunkFails
    BY <2>4 DEF SendChunk, ChunkFails
  <2>5. CASE MachineNext
    BY <2>5 DEF MachineNext, MachineBegins, MachineEnds, MachineMoved, MachineFails,
                MachineCleared, MachineStep
  <2> QED
    BY <2>2, <2>3, <2>4, <2>5, WireSteps
<1> QED
  BY <1>1, <1>2, TypeCorrect, PTL DEF Spec

\* No start is misread where READY means ready, over a link that loses writes and
\* through any number of relaunches, and none where the link keeps its word, although a
\* paused machine may say READY: the controls know that it is paused.
LEMMA NoStartMisread ==
  ASSUME ReadyMeansReady \/ KeepsItsWord
  PROVE  Spec => [][~StartMisread]_vars
<1>1. CASE ReadyMeansReady
  <2>1. TypeOK /\ machine # "starting" /\ [Next]_vars => [~StartMisread]_vars
    BY <1>1 DEF StartMisread, StartJob, CanStart, StatusResults, Report, Answer,
                ReadyMeansReady, TypeOK, WireOK, MachineStates, Executing
  <2>2. Spec => [](machine # "starting")
    BY <1>1, NeverStarting
  <2> QED
    BY <2>1, <2>2, TypeCorrect, PTL DEF Spec
<1>2. CASE KeepsItsWord
  <2>1. TypeOK /\ ControlsKnow /\ [Next]_vars => [~StartMisread]_vars
    <3> SUFFICES ASSUME TypeOK, ControlsKnow, StartMisread
                 PROVE  FALSE
      OBVIOUS
    <3>1. device = "open" /\ opState # "Paused" /\ "READY" \in StatusResults(machine)
          /\ machine # "ready"
      BY DEF StartMisread, StartJob, CanStart
    <3>2. machine # "paused" /\ machine # "starting"
      BY <3>1 DEF ControlsKnow, TypeOK, OpOK, Executing
    <3> QED
      BY <1>2, <3>1, <3>2 DEF KeepsItsWord, StatusResults, Report, Answer, TypeOK, WireOK,
                             MachineStates, Executing
  <2>2. Spec => []ControlsKnow
    BY <1>2, ControlsKnowInvariant
  <2> QED
    BY <2>1, <2>2, TypeCorrect, PTL DEF Spec
<1> QED
  BY <1>1, <1>2

\* In both environments START_JOB reaches no machine that executes a job, whatever
\* earlier commands and transfers came to and however often Start is pressed.
THEOREM StartSafe ==
  ASSUME ReadyMeansReady \/ KeepsItsWord
  PROVE  Spec => StartOnlyWhenReady
BY NoStartMisread, OnlyMisreadsMix, PTL

\* And the machine executes one whole job at a time.
THEOREM ExecutesOneWholeJob ==
  ASSUME ReadyMeansReady \/ KeepsItsWord
  PROVE  Spec => OneWholeJob
BY NoStartMisread, OnlyMisreadsMix, PTL

-----------------------------------------------------------------------------
(* The Stop button.                                                        *)

\* A job is started while a simulation of one is on the screen.
StartBesideSimulation == StartSucceeds /\ (simTimer \/ simulation # "none")

\* A press of Stop goes to the machine: stopJob ignores it without a handle, and ends a
\* simulation instead if there is one.
StopReaches ==
  opState # "Idle" => device = "open" /\ ~simTimer /\ simulation = "none"

\* The handlers that change the handle.
LEMMA DeviceWriters ==
  ASSUME [Next]_vars
  PROVE  \/ UNCHANGED device
         \/ ConnectOpens \/ ConnectRefused \/ DisconnectLaser \/ Relaunch
BY DEF Next, vars, linkVars, StopJob, StartStep, ConnectFindsNothing, HomeLaser, Jog,
       PreviewClick, SetPowerOrSpeed, InteractionModeChanged, ResumeJob, StartJob, SendChunk,
       ChunkFails, StartCommandFails, StartSucceeds, PauseJob, StopJobEndsSimulation,
       StopJobStopsMachine, PauseSimulation, SimulateJob, SimulationCompleted, CleanupFires,
       ProgressTick, ImportSVG, ImportCancelled, ImportLoads, ImportFails, MachineNext,
       MachineBegins, MachineEnds, MachineMoved, MachineFails, MachineCleared, MachineStep

\* No other step takes a job in operation out of the Stop button's reach.
LEMMA StopReachesStep ==
  ASSUME TypeOK, ChecksHold, StopReaches, [Next]_vars, ~StartBesideSimulation, ~HandleLost
  PROVE  StopReaches'
<1> USE DEF StopReaches, StartBesideSimulation, HandleLost
<1>1. CASE opState' # "Idle" => opState # "Idle"
  <2>1. CASE opState = "Idle"
    BY <1>1, <2>1
  <2>2. CASE opState # "Idle"
    <3>1. device = "open" /\ ~simTimer /\ simulation = "none"
      BY <2>2
    <3>2. opState' # "Idle" => device' = "open"
      <4>1. ~ConnectRefused /\ ~DisconnectLaser
        BY <2>2 DEF DisconnectLaser, MayDisconnect
      <4> QED
        BY <3>1, <4>1, DeviceWriters DEF ConnectOpens, Relaunch
    <3>3. CASE UNCHANGED <<simTimer, simulation>>
      BY <3>1, <3>2, <3>3
    <3>4. CASE StopJobEndsSimulation \/ CleanupFires \/ Relaunch
      BY <3>1, <3>2, <3>4 DEF StopJobEndsSimulation, CleanupFires, Relaunch, StopSimulation
    <3>5. CASE PauseSimulation \/ SimulateJob \/ SimulationCompleted
      BY <2>2, <3>1, <3>5 DEF PauseSimulation, SimulateJob, SimulationCompleted
    <3> QED
      BY <3>3, <3>4, <3>5, SimWriters
  <2> QED
    BY <2>1, <2>2
<1>2. CASE opState = "Idle" /\ opState' # "Idle"
  <2>1. StartSucceeds
    BY <1>2, OpWriters DEF ResumeJob, PauseJob, StopJobStopsMachine, ProgressTick, Polled,
                           JobCompleted, JobError, Relaunch
  <2>2. ~simTimer /\ simulation = "none" /\ device = "open" /\ UNCHANGED <<simVars, device>>
    BY <2>1 DEF StartSucceeds, ChecksHold, linkVars
  <2> QED
    BY <2>2 DEF simVars
<1> QED
  BY <1>1, <1>2

\* "Stop Job" leaves a job in operation alone only if that job was started beside a
\* simulation, playing, paused or ended less than the clean-up's delay ago (stopJob
\* then ends the simulation and returns), if STOP_JOB does not reach the machine, or if
\* the handle was overwritten meanwhile (the press is then ignored).
THEOREM StopMisses ==
  Spec /\ [][~StartBesideSimulation /\ ~StopLost /\ ~HandleLost]_vars
    => []StopReaches /\ StopStopsJob
<1>1. Init => StopReaches
  BY DEF Init, StopReaches
<1>2. TypeOK /\ ChecksHold /\ StopReaches /\ [Next]_vars
        /\ [~StartBesideSimulation /\ ~StopLost /\ ~HandleLost]_vars => StopReaches'
  BY StopReachesStep DEF StopReaches, vars, opVars, linkVars, simVars
<1>3. TypeOK /\ StopReaches /\ [~StartBesideSimulation /\ ~StopLost /\ ~HandleLost]_vars
        => [StopJob /\ opState # "Idle" => machine' \notin Executing]_vars
  <2> SUFFICES ASSUME TypeOK, StopReaches, ~StopLost, StopJob, opState # "Idle"
               PROVE  machine' \notin Executing
    OBVIOUS
  <2>1. StopJobStopsMachine
    BY DEF StopReaches, StopJob, StopJobEndsSimulation
  <2>2. Deliver("STOP")
    BY <2>1 DEF StopLost, StopJobStopsMachine, StopSent, Succeeds, Fails, Silent
  <2> QED
    BY <2>2, AcceptExecutes, CommandNames DEF Deliver, TypeOK, WireOK
<1> QED
  BY <1>1, <1>2, <1>3, TypeCorrect, ChecksStillHold, PTL DEF Spec, StopStopsJob
=============================================================================
