--------------------------- MODULE SessionsProofs ---------------------------
(* What TLAPS proves of Sessions, for every set of processes, every length *)
(* of the window's jobs and all faults the assumptions allow.              *)
EXTENDS Sessions, TLAPS

USE JobsAssumption, FaultsAssumption, ChunksAssumption, PromptAssumption
DEF JobsAssumption, FaultsAssumption, ChunksAssumption, PromptAssumption, Procs, Nobody

\* While the window holds the device on its way from the READY answer to START, the
\* machine waits for it with exactly the chunks sent so far.
Transferring(p) ==
  /\ machine = "ready"
  /\ pc[p] = "start" => buffer = Whole(p)
  /\ pc[p] = "send" /\ sent[p] > 0 => buffer = [job |-> p, got |-> sent[p], of |-> ChunksOf(p)]

ProcOK(p) ==
  /\ pc[p] = "new" => prog[p] = "none"
  /\ pc[p] = "send" => sent[p] < ChunksOf(p)
  /\ (prog[p] # "window" /\ pc[p] \in {"new", "copy", "find", "open", "work"}) => sent[p] = 0
  /\ pc[p] = "operate" => prog[p] = "window"
  /\ pc[p] \in {"send", "start"} => prog[p] \in {"run", "test", "window"}
  /\ pc[p] = "poll" => prog[p] = "debug"
  /\ (pc[p] = "done" /\ temp[p]) => exit[p] = "killed"
  /\ (prog[p] = "window" /\ holder = p /\ pc[p] \in {"send", "start"}) => Transferring(p)

IInv == TypeOK /\ \A p \in Procs : ProcOK(p)

\* A step of process p and what the others keep in it: their own state, and, when one
\* of them holds the device, the machine.
Others(p) ==
  \A q \in Procs \ {p} :
    /\ prog'[q] = prog[q] /\ pc'[q] = pc[q] /\ exit'[q] = exit[q]
    /\ sent'[q] = sent[q] /\ temp'[q] = temp[q]
    /\ holder' = q => holder = q /\ machine' = machine /\ buffer' = buffer

\* What one process does cannot hurt what the invariant says of another.
LEMMA OneProcess ==
  ASSUME IInv, TypeOK', NEW p \in Procs, Others(p), ProcOK(p)'
  PROVE  IInv'
<1>1. ASSUME NEW q \in Procs, q # p PROVE ProcOK(q)'
  <2>1. ProcOK(q)
    BY DEF IInv
  <2>2. /\ prog'[q] = prog[q] /\ pc'[q] = pc[q] /\ exit'[q] = exit[q]
        /\ sent'[q] = sent[q] /\ temp'[q] = temp[q]
        /\ holder' = q => (holder = q /\ machine' = machine /\ buffer' = buffer)
    BY <1>1 DEF Others
  <2>3. ChunksOf(q)' = ChunksOf(q) /\ Whole(q)' = Whole(q)
    BY <2>2 DEF ChunksOf, Whole
  <2> QED
    BY <2>1, <2>2, <2>3 DEF ProcOK, Transferring
<1> QED
  BY <1>1 DEF IInv

-----------------------------------------------------------------------------
(* Type correctness.                                                       *)

\* The number of chunks of a job.
LEMMA ChunksType == ASSUME TypeOK, NEW p \in Procs PROVE ChunksOf(p) \in 1..WindowChunks
BY DEF ChunksOf

\* Types of the parts that several actions share.
LEMMA GotoType ==
  ASSUME TypeOK, NEW p \in Procs, NEW s \in Steps, Goto(p, s)
  PROVE  pc' \in [Procs -> Steps]
BY DEF TypeOK, Goto

\* A result, on the way to the clean-up.
LEMMA LeaveType ==
  ASSUME TypeOK, NEW p \in Procs, NEW code \in ExitCodes, Leave(p, code)
  PROVE  pc' \in [Procs -> Steps] /\ exit' \in [Procs -> ExitCodes]
BY DEF TypeOK, Leave, Goto, Steps

\* The three ways of not getting the device.
LEMMA NotConnectedType ==
  ASSUME TypeOK, NEW p \in Procs, NotConnected(p)
  PROVE  pc' \in [Procs -> Steps] /\ exit' \in [Procs -> ExitCodes]
BY DEF TypeOK, NotConnected, Leave, Goto, Steps, ExitCodes

\* The two ways of failing in a run.
LEMMA RunFailedType ==
  ASSUME TypeOK, NEW p \in Procs, RunFailed(p)
  PROVE  pc' \in [Procs -> Steps] /\ exit' \in [Procs -> ExitCodes]
BY DEF TypeOK, RunFailed, Leave, Goto, Steps, ExitCodes

\* A command changes nothing of the data, and START alone begins a job.
LEMMA CommandType ==
  ASSUME TypeOK, NEW p \in Procs, NEW c \in {"HOME", "MOVE", "SET", "START"},
         CommandArrives(p, c) \/ CommandFails(p, c)
  PROVE  /\ machine' \in {"ready", "busy", "moving", "error"}
         /\ buffer' = buffer
         /\ machine' # machine => holder = p /\ machine = "ready"
         /\ (machine' = "busy" /\ machine # "busy") => c = "START"
BY DEF TypeOK, CommandArrives, CommandFails, WriteArrives, Took, Heeds, LeadsTo, Motion,
       Executing, wireVars

\* The machine's buffer after a chunk.
LEMMA ReceivedType ==
  ASSUME TypeOK, NEW p \in Procs, NEW k \in 1..WindowChunks
  PROVE  Received(p, k) \in [job : Buffers, got : 0..WindowChunks, of : 0..WindowChunks]
<1>1. ChunksOf(p) \in 0..WindowChunks /\ 0 \in 0..WindowChunks /\ 1 \in 0..WindowChunks
  BY ChunksType
<1>2. p \in Buffers /\ PartialJob \in Buffers /\ k \in 0..WindowChunks
  BY DEF Buffers
<1>3. Broken \in [job : Buffers, got : 0..WindowChunks, of : 0..WindowChunks]
  BY <1>1, <1>2 DEF Broken
<1> QED
  BY <1>1, <1>2, <1>3 DEF Received, TypeOK

\* Data change the buffer only, and only at the hands of who holds the device.
LEMMA DataType ==
  ASSUME TypeOK, NEW p \in Procs, NEW k \in 1..WindowChunks,
         DataArrives(p, Received(p, k)) \/ DataFails(p, k)
  PROVE  /\ machine' = machine
         /\ buffer' \in [job : Buffers, got : 0..WindowChunks, of : 0..WindowChunks]
         /\ buffer' # buffer => holder = p
<1>1. Broken \in [job : Buffers, got : 0..WindowChunks, of : 0..WindowChunks]
  BY DEF Broken, Buffers
<1> QED
  BY <1>1, ReceivedType DEF DataArrives, DataFails, WriteArrives, wireVars, TypeOK

\* A step of one process keeps all types and leaves the others alone.
LEMMA ProcType ==
  ASSUME IInv, NEW p \in Procs, ProcStep(p) \/ UserStep(p)
  PROVE  TypeOK' /\ Others(p)
<1> USE DEF Others
<1>0. TypeOK
  BY DEF IInv
<1>1. CASE CopyInput(p)
  BY <1>0, <1>1 DEF TypeOK, CopyInput, Goto, Leave, Steps, ExitCodes, wireVars
<1>2. CASE FindDevice(p)
  BY <1>0, <1>2 DEF TypeOK, FindDevice, NotConnected, Goto, Leave, Steps, ExitCodes, wireVars
<1>3. CASE OpenDevice(p)
  BY <1>0, <1>3 DEF TypeOK, OpenDevice, NotConnected, Goto, Leave, Steps, ExitCodes, wireVars
<1>4. CASE Close(p)
  BY <1>0, <1>4 DEF TypeOK, Close, Released, RemoveTemp, Goto, Steps, wireVars
<1>5. CASE Status(p)
  BY <1>0, <1>5 DEF TypeOK, Status, Goto, Leave, Steps, ExitCodes, wireVars
<1>6. CASE Version(p)
  BY <1>0, <1>6 DEF TypeOK, Version, Goto, Leave, Steps, ExitCodes, wireVars
<1>7. CASE SendCommand(p)
  <2>1. Command[prog[p]] \in {"HOME", "MOVE", "SET"}
    BY <1>7 DEF SendCommand, AtWork, Command
  <2>2. /\ machine' \in {"ready", "busy", "moving", "error"}
        /\ buffer' = buffer
        /\ machine' # machine => holder = p
    BY <1>0, <1>7, <2>1, CommandType DEF SendCommand
  <2> QED
    BY <1>0, <1>7, <2>2 DEF TypeOK, SendCommand, Goto, Leave, Steps, ExitCodes
<1>8. CASE DebugRound(p)
  BY <1>0, <1>8 DEF TypeOK, DebugRound, Goto, Leave, Steps, ExitCodes, wireVars
<1>9. CASE LoadJob(p)
  BY <1>0, <1>9 DEF TypeOK, LoadJob, Goto, Leave, Steps, ExitCodes, wireVars
<1>10. CASE TestPattern(p)
  BY <1>0, <1>10 DEF TypeOK, TestPattern, Goto, Steps, wireVars
<1>11. CASE SendChunk(p)
  <2>1. sent[p] + 1 \in 1..WindowChunks /\ sent[p] \in Nat
    BY <1>0, <1>11, ChunksType DEF SendChunk, IInv, ProcOK, TypeOK
  <2>2. /\ machine' = machine
        /\ buffer' \in [job : Buffers, got : 0..WindowChunks, of : 0..WindowChunks]
        /\ buffer' # buffer => holder = p
    BY <1>0, <1>11, <2>1, DataType DEF SendChunk
  <2>3. pc' \in [Procs -> Steps] /\ exit' \in [Procs -> ExitCodes]
        /\ \A q \in Procs \ {p} : pc'[q] = pc[q] /\ exit'[q] = exit[q]
    BY <1>0, <1>11 DEF TypeOK, SendChunk, RunFailed, Goto, Leave, Steps, ExitCodes
  <2>4. sent' \in [Procs -> 0..WindowChunks] /\ \A q \in Procs \ {p} : sent'[q] = sent[q]
    BY <1>0, <1>11, <2>1 DEF TypeOK, SendChunk
  <2> QED
    BY <1>0, <1>11, <2>2, <2>3, <2>4 DEF TypeOK, SendChunk
<1>12. CASE StartJob(p)
  <2>1. /\ machine' \in {"ready", "busy", "moving", "error"}
        /\ buffer' = buffer
        /\ machine' # machine => holder = p
    BY <1>0, <1>12, CommandType DEF StartJob
  <2>2. pc' \in [Procs -> Steps] /\ exit' \in [Procs -> ExitCodes]
        /\ \A q \in Procs \ {p} : pc'[q] = pc[q] /\ exit'[q] = exit[q]
    BY <1>0, <1>12 DEF TypeOK, StartJob, RunFailed, Goto, Leave, Steps, ExitCodes
  <2> QED
    BY <1>0, <1>12, <2>1, <2>2 DEF TypeOK, StartJob
<1>13. CASE PrintJob(p)
  BY <1>0, <1>13 DEF TypeOK, PrintJob, Goto, Leave, Steps, ExitCodes, wireVars
<1>14. CASE LaunchTool(p)
  BY <1>0, <1>14 DEF TypeOK, LaunchTool, Starts, Goto, Leave, Steps, ExitCodes, Programs, Tools, wireVars
<1>15. CASE LaunchPrint(p)
  BY <1>0, <1>15 DEF TypeOK, LaunchPrint, Starts, Goto, Leave, Steps, ExitCodes, Programs, Tools, wireVars
<1>16. CASE LaunchWindow(p)
  BY <1>0, <1>16 DEF TypeOK, LaunchWindow, Starts, Goto, Steps, Programs, Tools, wireVars
<1>17. CASE Terminate(p)
  BY <1>0, <1>17 DEF TypeOK, Terminate, Released, Goto, Steps, ExitCodes, wireVars
<1>18. CASE Cancel(p)
  BY <1>0, <1>18 DEF TypeOK, Cancel, wireVars
<1>19. CASE WindowStarts(p)
  BY <1>0, <1>19 DEF TypeOK, WindowStarts, FromFirstChunk, Goto, Steps, wireVars
<1>20. CASE WindowIdle(p)
  BY <1>0, <1>20 DEF TypeOK, WindowIdle, Goto, Steps, wireVars
<1>21. CASE WindowDisconnects(p)
  BY <1>0, <1>21 DEF TypeOK, WindowDisconnects, Goto, Leave, Steps, ExitCodes, wireVars
<1> QED
  BY <1>1, <1>2, <1>3, <1>4, <1>5, <1>6, <1>7, <1>8, <1>9, <1>10, <1>11, <1>12, <1>13,
     <1>14, <1>15, <1>16, <1>17, <1>18, <1>19, <1>20, <1>21 DEF ProcStep, UserStep

-----------------------------------------------------------------------------
(* The invariant.                                                          *)

\* What a step leaves behind in its own process, when it takes no part in a transfer:
\* where it went is enough.
LEMMA Elsewhere ==
  ASSUME IInv, TypeOK', NEW p \in Procs,
         pc'[p] \notin {"new", "send", "start", "poll", "operate", "done"},
         (prog'[p] # "window" /\ pc'[p] \in {"copy", "find", "open", "work"})
           => sent'[p] = 0
  PROVE  ProcOK(p)'
BY DEF ProcOK

\* It keeps its own part of the invariant.
LEMMA ProcInvariant ==
  ASSUME IInv, NEW p \in Procs, ProcStep(p) \/ UserStep(p)
  PROVE  ProcOK(p)'
<1>0. TypeOK /\ ProcOK(p) /\ TypeOK'
  BY ProcType DEF IInv
<1>a. sent[p] \in Nat /\ ChunksOf(p) \in Nat /\ ChunksOf(p) > 0
  BY <1>0, ChunksType DEF TypeOK
<1>1. CASE CopyInput(p)
  BY <1>0, <1>1, Elsewhere DEF TypeOK, ProcOK, CopyInput, Goto, Leave, Steps
<1>2. CASE FindDevice(p)
  BY <1>0, <1>2, Elsewhere DEF TypeOK, ProcOK, FindDevice, NotConnected, Goto, Leave, Steps
<1>3. CASE OpenDevice(p)
  BY <1>0, <1>3, Elsewhere DEF TypeOK, ProcOK, OpenDevice, NotConnected, Goto, Leave, Steps
<1>4. CASE Close(p)
  BY <1>0, <1>4 DEF TypeOK, ProcOK, Close, RemoveTemp, Goto, Steps
<1>5. CASE Status(p) \/ Version(p) \/ PrintJob(p) \/ WindowDisconnects(p)
  <2>1. pc'[p] = "close"
    BY <1>0, <1>5 DEF TypeOK, Status, Version, PrintJob, WindowDisconnects, Leave, Goto, Steps
  <2> QED
    BY <1>0, <2>1, Elsewhere
<1>6. CASE SendCommand(p)
  <2>1. pc'[p] = "close"
    BY <1>0, <1>6 DEF TypeOK, SendCommand, Leave, Goto, Steps
  <2> QED
    BY <1>0, <2>1, Elsewhere
<1>7. CASE DebugRound(p)
  <2>1. pc'[p] \in {"poll", "close"} /\ prog'[p] = "debug"
    BY <1>0, <1>7 DEF TypeOK, ProcOK, DebugRound, AtWork, Leave, Goto, Steps
  <2> QED
    BY <2>1 DEF ProcOK
<1>8. CASE LoadJob(p) \/ TestPattern(p)
  <2>1. prog[p] \in {"run", "test"} /\ sent[p] = 0 /\ sent'[p] = sent[p] /\ prog'[p] = prog[p]
        /\ pc'[p] \in {"send", "close"}
    BY <1>0, <1>8 DEF TypeOK, ProcOK, LoadJob, TestPattern, AtWork, Leave, Goto, Steps
  <2>2. ChunksOf(p)' = ChunksOf(p)
    BY <2>1 DEF ChunksOf
  <2> QED
    BY <1>a, <2>1, <2>2 DEF ProcOK
<1>9. CASE SendChunk(p)
  <2>0. pc[p] = "send" /\ sent[p] < ChunksOf(p) /\ prog' = prog /\ holder' = holder
        /\ sent'[p] = sent[p] + 1
    BY <1>0, <1>9 DEF SendChunk, ProcOK, TypeOK
  <2>1. ChunksOf(p)' = ChunksOf(p) /\ Whole(p)' = Whole(p)
    BY <2>0 DEF ChunksOf, Whole
  <2>2. CASE DataFails(p, sent[p] + 1) /\ RunFailed(p)
    <3>1. (prog[p] = "window" /\ pc'[p] = "work") \/ pc'[p] = "close"
      BY <1>0, <2>2 DEF TypeOK, RunFailed, Leave, Goto, Steps
    <3> QED
      BY <2>0, <3>1, <1>0, Elsewhere
  <2>3. CASE /\ DataArrives(p, Received(p, sent[p] + 1))
             /\ Goto(p, IF sent[p] + 1 = ChunksOf(p) THEN "start" ELSE "send")
    <3>1. pc'[p] = IF sent[p] + 1 = ChunksOf(p) THEN "start" ELSE "send"
      BY <1>0, <2>3 DEF TypeOK, Goto
    <3>2. ASSUME prog[p] = "window", holder = p
          PROVE  machine' = "ready" /\ buffer' = [job |-> p, got |-> sent[p] + 1, of |-> ChunksOf(p)]
      <4>1. machine = "ready"
            /\ (sent[p] > 0 => buffer = [job |-> p, got |-> sent[p], of |-> ChunksOf(p)])
        BY <1>0, <2>0, <3>2 DEF ProcOK, Transferring
      <4>2. machine' = "ready" /\ buffer' = Received(p, sent[p] + 1)
        BY <2>3, <4>1 DEF DataArrives
      <4>3. CASE sent[p] = 0
        BY <4>2, <4>3 DEF Received
      <4>4. CASE sent[p] > 0
        <5>1. sent[p] + 1 # 1 /\ (sent[p] + 1) - 1 = sent[p]
          BY <1>a, <4>4
        <5>2. Received(p, sent[p] + 1) = [buffer EXCEPT !.got = sent[p] + 1]
          BY <4>1, <4>4, <5>1 DEF Received
        <5> QED
          BY <4>1, <4>2, <4>4, <5>2
      <4> QED
        BY <1>a, <4>3, <4>4
    <3>3. pc'[p] = "send" => sent'[p] < ChunksOf(p)'
      BY <1>a, <2>0, <2>1, <3>1
    <3>4. (prog'[p] = "window" /\ holder' = p) => Transferring(p)'
      BY <1>a, <2>0, <2>1, <3>1, <3>2 DEF Transferring, Whole
    <3>5. prog'[p] \in {"run", "test", "window"}
      BY <1>0, <2>0 DEF ProcOK
    <3> QED
      BY <3>1, <3>3, <3>4, <3>5 DEF ProcOK
  <2> QED
    BY <1>9, <2>2, <2>3 DEF SendChunk
<1>10. CASE StartJob(p)
  <2>1. (prog[p] = "window" /\ pc'[p] \in {"work", "operate"}) \/ pc'[p] = "close"
    BY <1>0, <1>10 DEF TypeOK, StartJob, RunFailed, Leave, Goto, Steps
  <2>2. prog' = prog
    BY <1>10 DEF StartJob
  <2> QED
    BY <2>1, <2>2 DEF ProcOK
<1>11. CASE LaunchTool(p) \/ LaunchPrint(p) \/ LaunchWindow(p)
  <2>1. pc[p] = "new" /\ pc'[p] \in {"find", "copy", "close"} /\ sent' = sent
    BY <1>0, <1>11 DEF TypeOK, LaunchTool, LaunchPrint, LaunchWindow, Starts, Leave, Goto, Steps
  <2>2. sent'[p] = 0
    BY <1>0, <2>1 DEF ProcOK
  <2> QED
    BY <1>0, <2>1, <2>2, Elsewhere
<1>12. CASE Terminate(p)
  BY <1>0, <1>12 DEF TypeOK, ProcOK, Terminate, Goto, Steps, ExitCodes
<1>13. CASE Cancel(p)
  BY <1>0, <1>13 DEF Cancel, ProcOK, Transferring, ChunksOf, Whole, wireVars
<1>14. CASE WindowStarts(p)
  <2>1. prog'[p] = "window" /\ pc'[p] = "send" /\ sent'[p] = 0 /\ machine' = machine /\ holder = p
        /\ "READY" \in StatusResults(machine)
    BY <1>0, <1>14 DEF TypeOK, WindowStarts, AtWork, SaysReady, FromFirstChunk, Goto, Steps, wireVars
  <2>2. machine = "ready"
    BY <1>0, <2>1 DEF TypeOK, StatusResults, Report, Answer
  <2>3. ChunksOf(p)' = WindowChunks
    BY <2>1 DEF ChunksOf
  <2> QED
    BY <2>1, <2>2, <2>3 DEF ProcOK, Transferring
<1>15. CASE WindowIdle(p)
  <2>1. prog'[p] = "window" /\ pc'[p] = "work"
    BY <1>0, <1>15 DEF TypeOK, ProcOK, WindowIdle, Goto, Steps
  <2> QED
    BY <1>0, <2>1, Elsewhere
<1> QED
  BY <1>1, <1>2, <1>3, <1>4, <1>5, <1>6, <1>7, <1>8, <1>9, <1>10, <1>11, <1>12, <1>13,
     <1>14, <1>15 DEF ProcStep, UserStep

\* The invariant holds at first,
LEMMA InitIInv == Init => IInv
<1> SUFFICES ASSUME Init PROVE IInv
  OBVIOUS
<1>1. TypeOK
  BY DEF Init, TypeOK, Steps, ExitCodes, Empty, Buffers
<1>2. ASSUME NEW p \in Procs PROVE ProcOK(p)
  BY DEF Init, ProcOK
<1> QED
  BY <1>1, <1>2 DEF IInv

\* The device and the machine on their own: nothing happens to a machine that waits.
LEMMA EnvironmentInvariant ==
  ASSUME IInv,
         \/ Unplug \/ Replug \/ MachineEnds \/ MachineMoved \/ MachineFails \/ MachineCleared
         \/ UNCHANGED vars
  PROVE  IInv'
<1>1. UNCHANGED procVars /\ (machine = "ready" => (machine' = machine /\ buffer' = buffer))
      /\ (holder' = holder \/ holder' = Nobody)
  BY DEF Unplug, Replug, MachineEnds, MachineMoved, MachineFails, MachineCleared, MachineStep,
         vars, wireVars, procVars
<1>2. TypeOK'
  <2>1. TypeOK /\ Empty \in [job : Buffers, got : 0..WindowChunks, of : 0..WindowChunks]
    BY DEF IInv, Empty, Buffers
  <2>2. /\ holder' \in Procs \cup {Nobody} /\ plugged' \in BOOLEAN
        /\ machine' \in {"ready", "busy", "moving", "error"}
    BY <2>1 DEF TypeOK, Unplug, Replug, MachineEnds, MachineMoved, MachineFails, MachineCleared,
                MachineStep, vars, wireVars
  <2>3. buffer' = buffer \/ buffer' = Empty
    BY DEF Unplug, Replug, MachineEnds, MachineMoved, MachineFails, MachineCleared,
           MachineStep, vars, wireVars
  <2> QED
    BY <1>1, <2>1, <2>2, <2>3 DEF TypeOK, procVars
<1>3. ASSUME NEW p \in Procs PROVE ProcOK(p)'
  <2>1. ProcOK(p) /\ ChunksOf(p)' = ChunksOf(p) /\ Whole(p)' = Whole(p)
    BY <1>1 DEF IInv, procVars, ChunksOf, Whole
  <2> QED
    BY <1>1, <2>1 DEF ProcOK, Transferring, procVars
<1> QED
  BY <1>2, <1>3 DEF IInv

\* and every step keeps it.
LEMMA StepIInv == IInv /\ [Next]_vars => IInv'
<1> SUFFICES ASSUME IInv, [Next]_vars
             PROVE  IInv'
  OBVIOUS
<1>1. ASSUME NEW p \in Procs, ProcStep(p) \/ UserStep(p) PROVE IInv'
  BY <1>1, ProcType, ProcInvariant, OneProcess
<1> QED
  BY <1>1, EnvironmentInvariant DEF Next

\* No step of any of the programs leaves its states; in particular no transfer runs
\* past its last chunk.
THEOREM TypeCorrect == Spec => []TypeOK
<1>1. IInv => TypeOK
  BY DEF IInv
<1> QED
  BY InitIInv, StepIInv, <1>1, PTL DEF Spec

\* The backend removes its temporary file on every way out that it controls.
THEOREM TempFilesGo == Spec => []TempFilesRemoved
<1>1. IInv => TempFilesRemoved
  BY DEF IInv, ProcOK, TempFilesRemoved
<1> QED
  BY InitIInv, StepIInv, <1>1, PTL DEF Spec

-----------------------------------------------------------------------------
(* The window's job.                                                       *)

\* Only START begins a job, and it leaves the data as they are.
LEMMA BeginsByStart ==
  ASSUME IInv, NEW q \in Procs, ProcStep(q) \/ UserStep(q), machine # "busy", machine' = "busy"
  PROVE  StartJob(q) /\ holder = q
<1>0. TypeOK
  BY DEF IInv
<1>1. CASE SendCommand(q)
  <2>1. Command[prog[q]] \in {"HOME", "MOVE", "SET"}
    BY <1>1 DEF SendCommand, AtWork, Command
  <2> QED
    BY <1>0, <1>1, <2>1, CommandType DEF SendCommand
<1>2. CASE SendChunk(q)
  <2>1. sent[q] + 1 \in 1..WindowChunks
    BY <1>0, <1>2, ChunksType DEF SendChunk, IInv, ProcOK, TypeOK
  <2> QED
    BY <1>0, <1>2, <2>1, DataType DEF SendChunk
<1>3. CASE StartJob(q)
  <2>1. machine' # machine
    OBVIOUS
  <2> QED
    BY <1>0, <1>3, <2>1, CommandType DEF StartJob
<1>4. CASE \/ CopyInput(q) \/ FindDevice(q) \/ OpenDevice(q) \/ Close(q) \/ Status(q) \/ Version(q)
           \/ DebugRound(q) \/ LoadJob(q) \/ TestPattern(q) \/ PrintJob(q) \/ UserStep(q)
  <2>1. machine' = machine
    BY <1>4 DEF CopyInput, FindDevice, OpenDevice, Close, Status, Version, DebugRound, LoadJob,
                TestPattern, PrintJob, UserStep, LaunchTool, LaunchPrint, LaunchWindow, Terminate,
                Cancel, WindowStarts, WindowIdle, WindowDisconnects, wireVars
  <2> QED
    BY <2>1
<1> QED
  BY <1>1, <1>2, <1>3, <1>4 DEF ProcStep

\* START of a window that holds the device.
LEMMA WindowStart ==
  ASSUME IInv, NEW p \in Procs, StartJob(p), prog[p] = "window", holder = p
  PROVE  /\ machine = "ready" /\ buffer' = Whole(p)
         /\ pc'[p] = "operate" => machine' = "busy"
<1>1. TypeOK /\ pc[p] = "start" /\ machine = "ready" /\ buffer = Whole(p)
  BY DEF IInv, ProcOK, Transferring, StartJob
<1>2. buffer' = buffer
  BY <1>1, CommandType DEF StartJob
<1>3. ASSUME pc'[p] = "operate" PROVE machine' = "busy"
  <2>1. CommandArrives(p, "START")
    BY <1>1, <1>3 DEF StartJob, RunFailed, Goto, TypeOK
  <2>2. buffer.job = p /\ p # NoJob
    BY <1>1 DEF Whole
  <2>3. Heeds("START", machine, buffer.job)
    BY <1>1, <2>2 DEF Heeds
  <2>4. LeadsTo["START"] = {"busy"}
    BY DEF LeadsTo
  <2> QED
    BY <2>1, <2>3, <2>4 DEF CommandArrives, Took
<1> QED
  BY <1>1, <1>2, <1>3

\* The window's READY check and its exclusive handle are enough: whatever the other
\* programs left in the machine, what the window starts is its own whole job.
THEOREM OwnJobStarts == Spec => WindowStartsOwnJob
<1> DEFINE Begins(p) ==
      \/ pc[p] = "start" /\ pc'[p] = "operate"
      \/ prog[p] = "window" /\ holder = p /\ machine # "busy" /\ machine' = "busy"
<1> DEFINE Own == \A p \in Procs : Begins(p) => machine' = "busy" /\ buffer' = Whole(p)
<1>1. IInv /\ [Next]_vars => [Own]_vars
  <2> SUFFICES ASSUME IInv, Next, NEW p \in Procs, Begins(p)
               PROVE  machine' = "busy" /\ buffer' = Whole(p)
    BY DEF vars
  <2>1. PICK q \in Procs : ProcStep(q) \/ UserStep(q)
    BY DEF Next, Unplug, Replug, MachineEnds, MachineMoved, MachineFails, MachineCleared,
           MachineStep, procVars, wireVars
  <2>2. CASE pc[p] = "start" /\ pc'[p] = "operate"
    <3>1. q = p
      <4>1. Others(q)
        BY <2>1, ProcType
      <4> QED
        BY <2>2, <4>1 DEF Others
    <3>2. StartJob(p)
      <4>1. CASE ProcStep(p)
        BY <2>2, <4>1
           DEF ProcStep, CopyInput, FindDevice, OpenDevice, Close, Status, Version, SendCommand,
               DebugRound, LoadJob, TestPattern, PrintJob, SendChunk, AtWork
      <4>2. CASE UserStep(p)
        <5>1. pc'[p] = "done" \/ pc' = pc
          BY <2>2, <4>2
             DEF IInv, TypeOK, UserStep, LaunchTool, LaunchPrint, LaunchWindow, Terminate, Cancel,
                 WindowStarts, WindowIdle, WindowDisconnects, AtWork, Starts, Goto
        <5> QED
          BY <2>2, <5>1
      <4> QED
        BY <2>1, <3>1, <4>1, <4>2
    <3>3. prog[p] = "window" /\ holder = p
      BY <2>2, <3>2 DEF IInv, TypeOK, StartJob, CommandArrives, WriteArrives, RunFailed, Leave, Goto
    <3> QED
      BY <2>2, <3>2, <3>3, WindowStart
  <2>3. CASE prog[p] = "window" /\ holder = p /\ machine # "busy" /\ machine' = "busy"
    <3>1. StartJob(q) /\ holder = q
      BY <2>1, <2>3, BeginsByStart
    <3> QED
      BY <2>3, <3>1, WindowStart
  <2> QED
    BY <2>2, <2>3
<1> QED
  BY InitIInv, StepIInv, <1>1, PTL DEF Spec, WindowStartsOwnJob

-----------------------------------------------------------------------------
(* Who can make the machine execute something that is not a whole job.     *)

\* A run or test of the tool, which send START without a look at the machine, sets it
\* going on what an interrupted transfer left there.
ToolStartsPart ==
  \E p \in Procs :
    /\ StartJob(p) /\ holder = p /\ prog[p] \in {"run", "test"}
    /\ InBuffer = PartialJob /\ machine' = "busy"

\* A machine at work takes no data: what it executes stays what it began.
LEMMA BusyKeepsData ==
  ASSUME IInv, [Next]_vars, machine = "busy", machine' = "busy"
  PROVE  buffer' = buffer
<1>0. TypeOK
  BY DEF IInv
<1>1. ASSUME NEW p \in Procs, ProcStep(p) \/ UserStep(p) PROVE buffer' = buffer
  <2>1. CASE SendCommand(p)
    <3>1. Command[prog[p]] \in {"HOME", "MOVE", "SET"}
      BY <2>1 DEF SendCommand, AtWork, Command
    <3> QED
      BY <1>0, <2>1, <3>1, CommandType DEF SendCommand
  <2>2. CASE StartJob(p)
    BY <1>0, <2>2, CommandType DEF StartJob
  <2>3. CASE SendChunk(p)
    BY <2>3 DEF SendChunk, DataArrives, DataFails, wireVars
  <2>4. CASE \/ CopyInput(p) \/ FindDevice(p) \/ OpenDevice(p) \/ Close(p) \/ Status(p)
             \/ Version(p) \/ DebugRound(p) \/ LoadJob(p) \/ TestPattern(p) \/ PrintJob(p)
             \/ UserStep(p)
    BY <2>4 DEF CopyInput, FindDevice, OpenDevice, Close, Status, Version, DebugRound, LoadJob,
                TestPattern, PrintJob, UserStep, LaunchTool, LaunchPrint, LaunchWindow, Terminate,
                Cancel, WindowStarts, WindowIdle, WindowDisconnects, wireVars
  <2> QED
    BY <1>1, <2>1, <2>2, <2>3, <2>4 DEF ProcStep
<1>2. CASE \/ Unplug \/ Replug \/ MachineEnds \/ MachineMoved \/ MachineFails \/ MachineCleared
           \/ UNCHANGED vars
  BY <1>2 DEF Unplug, Replug, MachineEnds, MachineMoved, MachineFails, MachineCleared, MachineStep,
              vars, wireVars
<1> QED
  BY <1>1, <1>2 DEF Next

\* A START that begins a job finds the data of one, or comes from run or test.
LEMMA StartFindsJob ==
  ASSUME IInv, NEW p \in Procs, StartJob(p), holder = p, machine # "busy", machine' = "busy"
  PROVE  /\ buffer' = buffer
         /\ InBuffer \in Jobs \/ ToolStartsPart
<1>1. TypeOK /\ ProcOK(p) /\ pc[p] = "start"
  BY DEF IInv, StartJob
<1>2. buffer' = buffer
  BY <1>1, CommandType DEF StartJob
<1>3. InBuffer \in Jobs \/ InBuffer = PartialJob
  BY DEF InBuffer
<1>4. CASE prog[p] = "window"
  <2>1. buffer = Whole(p)
    BY <1>1, <1>4 DEF ProcOK, Transferring
  <2> QED
    BY <1>2, <2>1 DEF InBuffer, Whole
<1>5. CASE prog[p] \in {"run", "test"}
  BY <1>2, <1>3, <1>5 DEF ToolStartsPart
<1> QED
  BY <1>1, <1>2, <1>4, <1>5 DEF ProcOK

\* On a machine that reports at once what it does and whose status answers are read whole
\* (PromptAssumption): whatever the processes send, fail at and leave behind, whichever of
\* them a signal ends and whenever the device is unplugged, as long as no run or test of
\* the tool starts a part of a job, the machine executes whole jobs, one after the other.
\* There the window, with its READY check, and every other command of the tool are safe,
\* so that the check missing in cmd_run and cmd_test is all that OneWholeJob fails for.
\* Without PromptAssumption a misread READY lets the window start a part as well: see
\* OnlyMisreadsMix in LaserControlProofs.
THEOREM OnlyToolsStartParts == Spec /\ [][~ToolStartsPart]_vars => OneWholeJob
<1> DEFINE executing == IF machine = "busy" THEN InBuffer ELSE NoJob
<1>1. Init => executing = NoJob
  BY DEF Init
<1>2. IInv /\ [Next]_vars /\ [~ToolStartsPart]_vars
        => [\/ executing = NoJob /\ executing' \in Jobs
            \/ executing # NoJob /\ executing' = NoJob]_executing
  <2> SUFFICES ASSUME IInv, [Next]_vars, [~ToolStartsPart]_vars, executing' # executing
               PROVE  \/ executing = NoJob /\ executing' \in Jobs
                      \/ executing # NoJob /\ executing' = NoJob
    OBVIOUS
  <2>0. InBuffer # NoJob
    BY DEF InBuffer
  <2>1. CASE machine = "busy" /\ machine' = "busy"
    <3>1. buffer' = buffer
      BY <2>1, BusyKeepsData
    <3> QED
      BY <2>1, <3>1 DEF InBuffer
  <2>2. CASE machine = "busy" /\ machine' # "busy"
    BY <2>0, <2>2
  <2>3. CASE machine # "busy" /\ machine' = "busy"
    <3>1. PICK p \in Procs : ProcStep(p) \/ UserStep(p)
      BY <2>3 DEF Next, Unplug, Replug, MachineEnds, MachineMoved, MachineFails, MachineCleared,
                  MachineStep, procVars, wireVars, vars
    <3>2. StartJob(p) /\ holder = p
      BY <2>3, <3>1, BeginsByStart
    <3>3. ~ToolStartsPart
      BY <2>3 DEF vars, wireVars
    <3>4. buffer' = buffer /\ InBuffer \in Jobs
      BY <2>3, <3>2, <3>3, StartFindsJob
    <3> QED
      BY <2>3, <3>4 DEF InBuffer
  <2>4. CASE machine # "busy" /\ machine' # "busy"
    BY <2>4
  <2> QED
    BY <2>1, <2>2, <2>3, <2>4
<1> QED
  BY <1>1, <1>2, InitIInv, StepIInv, PTL
  DEF Spec, OneWholeJob, Execution!Spec, Execution!Init, Execution!Next, Execution!Begin, Execution!End

-----------------------------------------------------------------------------
(* Nothing is done twice.                                                  *)

\* How far a process has come.
Place ==
  [new |-> 0, copy |-> 1, find |-> 2, open |-> 3, work |-> 4, send |-> 5, start |-> 6,
   poll |-> 7, operate |-> 7, close |-> 8, done |-> 9]

\* No process but the window ever goes back.  Each step that such a process takes, but
\* for the rounds of `debug' while its handle is open, brings it nearer to its end, and
\* an ended process keeps its exit code.
Advances ==
  [][\A p \in Procs :
       /\ prog'[p] # "window" => Place[pc'[p]] >= Place[pc[p]]
       /\ ProcStep(p) /\ prog[p] \notin {"window", "debug"} => Place[pc'[p]] > Place[pc[p]]
       /\ ProcStep(p) /\ pc[p] = "poll" /\ holder # p => Place[pc'[p]] > Place[pc[p]]
       /\ pc[p] = "done" => pc'[p] = "done" /\ exit'[p] = exit[p]]_vars

\* The places, one by one.
LEMMA PlaceValues ==
  /\ Place["new"] = 0 /\ Place["copy"] = 1 /\ Place["find"] = 2 /\ Place["open"] = 3
  /\ Place["work"] = 4 /\ Place["send"] = 5 /\ Place["start"] = 6 /\ Place["poll"] = 7
  /\ Place["operate"] = 7 /\ Place["close"] = 8 /\ Place["done"] = 9
BY DEF Place

\* They are numbers.
LEMMA PlaceNat == \A s \in Steps : Place[s] \in 0..9
BY PlaceValues DEF Steps

\* One job of the tool is one chunk, so that its transfer is one step.
LEMMA ToolSendsOnce ==
  ASSUME IInv, NEW p \in Procs, SendChunk(p), prog[p] # "window"
  PROVE  pc'[p] \in {"start", "close"}
<1>1. TypeOK /\ ProcOK(p) /\ pc[p] = "send"
  BY DEF IInv, SendChunk
<1>2. ChunksOf(p) = 1 /\ sent[p] = 0
  BY <1>1 DEF TypeOK, ProcOK, ChunksOf
<1> QED
  BY <1>1, <1>2 DEF TypeOK, SendChunk, RunFailed, Leave, Goto

\* What a process other than the window does of its own accord takes it further.
LEMMA ProcAdvances ==
  ASSUME IInv, NEW p \in Procs, ProcStep(p), prog[p] # "window"
  PROVE  /\ pc[p] # "done" /\ Place[pc'[p]] >= Place[pc[p]]
         /\ prog[p] # "debug" \/ (pc[p] = "poll" /\ holder # p) => Place[pc'[p]] > Place[pc[p]]
<1>0. TypeOK /\ ProcOK(p)
  BY DEF IInv
<1>1. CASE CopyInput(p)
  <2>1. pc[p] = "copy" /\ pc'[p] \in {"find", "close"}
    BY <1>0, <1>1 DEF TypeOK, CopyInput, Leave, Goto
  <2> QED
    BY <2>1, PlaceValues
<1>2. CASE FindDevice(p) \/ OpenDevice(p)
  <2>1. \/ pc[p] = "find" /\ pc'[p] \in {"open", "close"}
        \/ pc[p] = "open" /\ pc'[p] \in {"work", "close"}
    BY <1>0, <1>2 DEF TypeOK, FindDevice, OpenDevice, NotConnected, Leave, Goto
  <2> QED
    BY <2>1, PlaceValues
<1>3. CASE Close(p)
  <2>1. pc[p] = "close" /\ pc'[p] = "done"
    BY <1>0, <1>3 DEF TypeOK, Close, Goto
  <2> QED
    BY <2>1, PlaceValues
<1>4. CASE Status(p) \/ Version(p) \/ SendCommand(p) \/ PrintJob(p)
  <2>1. pc[p] = "work" /\ pc'[p] = "close"
    BY <1>0, <1>4 DEF TypeOK, Status, Version, SendCommand, PrintJob, AtWork, Leave, Goto
  <2> QED
    BY <2>1, PlaceValues
<1>5. CASE LoadJob(p) \/ TestPattern(p)
  <2>1. pc[p] = "work" /\ pc'[p] \in {"send", "close"}
    BY <1>0, <1>5 DEF TypeOK, LoadJob, TestPattern, AtWork, Leave, Goto
  <2> QED
    BY <2>1, PlaceValues
<1>6. CASE SendChunk(p)
  <2>1. pc[p] = "send" /\ pc'[p] \in {"start", "close"}
    BY <1>6, ToolSendsOnce DEF SendChunk
  <2> QED
    BY <2>1, PlaceValues
<1>7. CASE StartJob(p)
  <2>1. pc[p] = "start" /\ pc'[p] = "close"
    BY <1>0, <1>7 DEF TypeOK, StartJob, RunFailed, Leave, Goto
  <2> QED
    BY <2>1, PlaceValues
<1>8. CASE DebugRound(p)
  <2>1. /\ pc[p] \in {"work", "poll"} /\ pc'[p] \in {"poll", "close"}
        /\ holder # p => pc'[p] = "close"
        /\ prog[p] = "debug"
    BY <1>0, <1>8 DEF TypeOK, ProcOK, DebugRound, AtWork, QueryAnswered, QueryTimesOut, Leave, Goto
  <2> QED
    BY <2>1, PlaceValues
<1> QED
  BY <1>1, <1>2, <1>3, <1>4, <1>5, <1>6, <1>7, <1>8 DEF ProcStep

\* What is done to it by its user or by a signal takes it further or leaves it there.
LEMMA UserAdvances ==
  ASSUME IInv, NEW p \in Procs, UserStep(p)
  PROVE  /\ prog'[p] # "window" => Place[pc'[p]] >= Place[pc[p]]
         /\ pc[p] = "done" => pc'[p] = "done" /\ exit'[p] = exit[p]
<1>0. TypeOK /\ ProcOK(p)
  BY DEF IInv
<1>1. CASE LaunchTool(p) \/ LaunchPrint(p) \/ LaunchWindow(p)
  <2>1. pc[p] = "new" /\ pc'[p] \in {"find", "copy", "close"}
    BY <1>0, <1>1 DEF TypeOK, LaunchTool, LaunchPrint, LaunchWindow, Starts, Leave, Goto
  <2> QED
    BY <2>1, PlaceValues
<1>2. CASE Terminate(p)
  <2>1. pc[p] \in Steps \ {"new", "done"} /\ pc'[p] = "done"
    BY <1>0, <1>2 DEF TypeOK, Terminate, Goto
  <2> QED
    BY <2>1, PlaceValues, PlaceNat
<1>3. CASE Cancel(p)
  BY <1>0, <1>3, PlaceNat DEF TypeOK, Cancel
<1>4. CASE WindowStarts(p) \/ WindowIdle(p) \/ WindowDisconnects(p)
  BY <1>0, <1>4 DEF ProcOK, WindowStarts, WindowIdle, WindowDisconnects, AtWork
<1> QED
  BY <1>1, <1>2, <1>3, <1>4 DEF UserStep

\* The safety half of SessionsEnd: a process has at most nine steps of its own to take,
\* whatever the others do to the device in between, and takes none of them twice; what
\* is left to fairness is that one of them can always be taken.
THEOREM SessionsAdvance == Spec => Advances
<1> DEFINE Onward(p) ==
      /\ prog'[p] # "window" => Place[pc'[p]] >= Place[pc[p]]
      /\ ProcStep(p) /\ prog[p] \notin {"window", "debug"} => Place[pc'[p]] > Place[pc[p]]
      /\ ProcStep(p) /\ pc[p] = "poll" /\ holder # p => Place[pc'[p]] > Place[pc[p]]
      /\ pc[p] = "done" => pc'[p] = "done" /\ exit'[p] = exit[p]
<1>1. IInv /\ [Next]_vars => [\A p \in Procs : Onward(p)]_vars
  <2> SUFFICES ASSUME IInv, Next, NEW p \in Procs
               PROVE  Onward(p)
    BY DEF vars
  <2>0. Place[pc[p]] \in 0..9 /\ Place[pc[p]] >= Place[pc[p]]
    BY PlaceNat DEF IInv, TypeOK
  <2>1. CASE ProcStep(p)
    <3>1. prog' = prog /\ pc[p] # "done"
      BY <2>1 DEF ProcStep, CopyInput, FindDevice, OpenDevice, Close, Status, Version, SendCommand,
                  DebugRound, LoadJob, TestPattern, PrintJob, SendChunk, StartJob, AtWork
    <3>2. pc[p] = "poll" => prog[p] # "window"
      BY DEF IInv, ProcOK
    <3> QED
      BY <2>1, <3>1, <3>2, ProcAdvances
  <2>2. CASE ~ProcStep(p) /\ UserStep(p)
    BY <2>2, UserAdvances
  <2>3. CASE ~ProcStep(p) /\ prog'[p] = prog[p] /\ pc'[p] = pc[p] /\ exit'[p] = exit[p]
    BY <2>0, <2>3
  <2>4. ASSUME NEW q \in Procs, q # p, ProcStep(q) \/ UserStep(q)
        PROVE  prog'[p] = prog[p] /\ pc'[p] = pc[p] /\ exit'[p] = exit[p]
    BY <2>4, ProcType DEF Others
  <2> QED
    BY <2>1, <2>2, <2>3, <2>4
    DEF Next, Unplug, Replug, MachineEnds, MachineMoved, MachineFails, MachineCleared, MachineStep,
        procVars
<1> QED
  BY InitIInv, StepIInv, <1>1, PTL DEF Spec, Advances

-----------------------------------------------------------------------------
(* The device is given back.                                               *)

\* A process has the device, as far as one has it, from uls_open_device to
\* uls_close_device: not before it found it, and not after it has ended, whether it came
\* to its end, failed on the way or was killed; and nobody has a device that is not there.
HolderWorks ==
  /\ holder # Nobody => plugged
  /\ \A p \in Procs :
       holder = p => pc[p] \in {"work", "send", "start", "poll", "operate", "close"}

\* A step of the process itself keeps this.
LEMMA HolderStep ==
  ASSUME IInv, HolderWorks, NEW p \in Procs, ProcStep(p) \/ UserStep(p)
  PROVE  /\ holder' # Nobody => plugged'
         /\ holder' = p => pc'[p] \in {"work", "send", "start", "poll", "operate", "close"}
<1>0. TypeOK /\ ProcOK(p) /\ p # Nobody
  BY DEF IInv
<1> USE DEF HolderWorks
<1>1. CASE CopyInput(p) \/ FindDevice(p) \/ LaunchTool(p) \/ LaunchPrint(p) \/ LaunchWindow(p)
  <2>1. pc[p] \in {"copy", "find", "new"} /\ holder' = holder /\ plugged' = plugged
    BY <1>1 DEF CopyInput, FindDevice, LaunchTool, LaunchPrint, LaunchWindow, Starts
  <2> QED
    BY <2>1
<1>2. CASE OpenDevice(p)
  <2>1. CASE MayOpen /\ holder' = p /\ Goto(p, "work")
    BY <1>0, <1>2, <2>1 DEF TypeOK, OpenDevice, MayOpen, Goto
  <2>2. CASE UNCHANGED holder
    BY <1>2, <2>2 DEF OpenDevice
  <2> QED
    BY <1>2, <2>1, <2>2 DEF OpenDevice
<1>3. CASE Close(p) \/ Terminate(p)
  <2>1. holder' # p /\ (holder' = holder \/ holder' = Nobody) /\ plugged' = plugged
    BY <1>0, <1>3 DEF Close, Terminate, Released
  <2> QED
    BY <2>1
<1>4. CASE Cancel(p)
  BY <1>4 DEF Cancel
<1>5. CASE Status(p) \/ Version(p) \/ SendCommand(p) \/ PrintJob(p) \/ WindowDisconnects(p)
  <2>1. pc'[p] = "close" /\ holder' = holder /\ plugged' = plugged
    BY <1>0, <1>5 DEF TypeOK, Status, Version, SendCommand, PrintJob, WindowDisconnects, Leave, Goto
  <2> QED
    BY <2>1
<1>6. CASE DebugRound(p) \/ LoadJob(p) \/ TestPattern(p)
  <2>1. pc'[p] \in {"poll", "send", "close"} /\ holder' = holder /\ plugged' = plugged
    BY <1>0, <1>6 DEF TypeOK, DebugRound, LoadJob, TestPattern, Leave, Goto
  <2> QED
    BY <2>1
<1>7. CASE SendChunk(p)
  <2>1. pc'[p] \in {"send", "start", "work", "close"}
    BY <1>0, <1>7 DEF TypeOK, SendChunk, RunFailed, Leave, Goto
  <2> QED
    BY <1>7, <2>1 DEF SendChunk
<1>8. CASE StartJob(p)
  <2>1. pc'[p] \in {"operate", "work", "close"}
    BY <1>0, <1>8 DEF TypeOK, StartJob, RunFailed, Leave, Goto
  <2> QED
    BY <1>8, <2>1 DEF StartJob
<1>9. CASE WindowStarts(p) \/ WindowIdle(p)
  <2>1. pc'[p] \in {"send", "work"} /\ holder' = holder /\ plugged' = plugged
    BY <1>0, <1>9 DEF TypeOK, WindowStarts, WindowIdle, Goto
  <2> QED
    BY <2>1
<1> QED
  BY <1>1, <1>2, <1>3, <1>4, <1>5, <1>6, <1>7, <1>8, <1>9 DEF ProcStep, UserStep

\* The others still get it: a device that is there and that no living process has may be
\* opened, however the processes before it ended.
THEOREM DeviceGivenBack == Spec => []HolderWorks
<1>1. Init => HolderWorks
  BY DEF Init, HolderWorks
<1>2. IInv /\ HolderWorks /\ [Next]_vars => HolderWorks'
  <2> SUFFICES ASSUME IInv, HolderWorks, [Next]_vars
               PROVE  HolderWorks'
    OBVIOUS
  <2>1. ASSUME NEW p \in Procs, ProcStep(p) \/ UserStep(p) PROVE HolderWorks'
    <3>1. \A q \in Procs \ {p} : pc'[q] = pc[q] /\ (holder' = q => holder = q)
      BY <2>1, ProcType DEF Others
    <3> QED
      BY <2>1, <3>1, HolderStep DEF HolderWorks
  <2>2. CASE Unplug
    BY <2>2 DEF Unplug, procVars, HolderWorks
  <2>3. CASE Replug
    BY <2>3 DEF Replug, procVars, HolderWorks
  <2>4. CASE MachineEnds \/ MachineMoved \/ MachineFails \/ MachineCleared
    <3>1. UNCHANGED <<procVars, holder, plugged>>
      BY <2>4 DEF MachineEnds, MachineMoved, MachineFails, MachineCleared, MachineStep
    <3> QED
      BY <3>1 DEF HolderWorks, procVars
  <2>5. CASE UNCHANGED vars
    BY <2>5 DEF vars, procVars, HolderWorks
  <2> QED
    BY <2>1, <2>2, <2>3, <2>4, <2>5 DEF Next
<1> QED
  BY <1>1, <1>2, InitIInv, StepIInv, PTL DEF Spec
=============================================================================
