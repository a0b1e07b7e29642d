----------------------------- MODULE LaserLink -----------------------------
(***************************************************************************)
(* The laser machine behind the USB pipes, as the driver in src/ relies on *)
(* it, and what one bulk transfer to it can come to.                       *)
(*                                                                         *)
(* The machine is external to the repository: its reactions are read off   *)
(* what uls_usb.c sends and how ULSMainWindowController.m interprets the   *)
(* answers.  A command takes effect when its bulk write reaches the        *)
(* machine; a write that reports an error may or may not have reached it   *)
(* (a timeout says nothing about delivery).                                *)
(***************************************************************************)
EXTENDS Naturals, FiniteSets

CONSTANTS
  Jobs,          \* job objects an import can create
  NoJob,         \* the NULL job pointer; also "nothing in the job buffer"
  PartialJob,    \* the machine's buffer after an interrupted transfer
  Faults,        \* what may go wrong in this environment
  PausedReports  \* what a paused machine may answer to a status query

(* "write": a bulk write may report an error; "read": a status query may   *)
(* report one; "short": a status read may return zero bytes; "lag": the    *)
(* machine may still answer READY after it took START_JOB; "fail": the     *)
(* machine may go into its error state; "absent": a search may find no     *)
(* device.                                                                 *)
FaultKinds == {"write", "read", "short", "lag", "fail", "absent"}

ASSUME JobsAssumption == NoJob \notin Jobs /\ PartialJob \notin Jobs /\ NoJob # PartialJob
ASSUME FaultsAssumption == Faults \subseteq FaultKinds
ASSUME PausedAssumption == PausedReports \subseteq {"READY", "BUSY"} /\ PausedReports # {}

\* The machine holds a job it has begun and has not ended.
Executing == {"starting", "busy", "paused"}
MachineStates == Executing \cup {"ready", "moving", "error"}
Buffers == Jobs \cup {NoJob, PartialJob}

Motion == {"MOVE", "HOME"}
Commands == Motion \cup {"START", "PAUSE", "RESUME", "STOP", "SET"}

(***************************************************************************)
(* What a command makes of the machine: from state m with buffer b it may  *)
(* go to state m2 with buffer b2.  A command that makes no sense in m      *)
(* leaves the machine as it is.                                            *)
(***************************************************************************)
Heeds(c, m, b) ==
  \/ c = "START"  /\ m = "ready" /\ b # NoJob
  \/ c = "PAUSE"  /\ m \in {"starting", "busy"}
  \/ c = "RESUME" /\ m = "paused"
  \/ c = "STOP"   /\ m \in Executing
  \/ c \in Motion /\ m = "ready"

LeadsTo ==
  [START  |-> IF "lag" \in Faults THEN {"starting", "busy"} ELSE {"busy"},
   PAUSE  |-> {"paused"},
   RESUME |-> {"busy"},
   STOP   |-> {"ready"},
   MOVE   |-> {"moving"},
   HOME   |-> {"moving"}]

Accept(c, m, b, m2, b2) ==
  IF Heeds(c, m, b)
  THEN m2 \in LeadsTo[c] /\ b2 = (IF c = "STOP" THEN NoJob ELSE b)
  ELSE m2 = m /\ b2 = b

\* Job data is taken only by a machine that is ready for it.
AfterData(m, b, data) == IF m = "ready" THEN data ELSE b

(***************************************************************************)
(* uls_get_status: the states a query can come back with.  0x00 and every  *)
(* unlisted code read as READY, 0x01 as BUSY, 0xFF as ERROR; after a read  *)
(* of zero bytes the caller's variable is left as it was, which in every   *)
(* caller is uninitialised.  That also stands for an answer of an earlier  *)
(* query that was left in the pipe (PanelQueries has it in detail).        *)
(***************************************************************************)
Answer ==
  [ready |-> "READY", starting |-> "READY", busy |-> "BUSY", moving |-> "BUSY", error |-> "ERROR"]

Report(m) == IF m = "paused" THEN PausedReports ELSE {Answer[m]}

StatusResults(m) ==
  Report(m)
    \cup (IF "short" \in Faults THEN {"READY", "BUSY", "ERROR"} ELSE {})
    \cup (IF {"read", "write"} \cap Faults # {} THEN {"FAILED"} ELSE {})
=============================================================================
