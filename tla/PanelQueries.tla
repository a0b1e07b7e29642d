---------------------------- MODULE PanelQueries ----------------------------
(***************************************************************************)
(* Two threads, one device: the main thread, whose handlers poll the       *)
(* machine for the window and the debug panel, and the thread that runs    *)
(* the panel's diagnostics.  Both go through the same ULSDevice without a  *)
(* lock.  A query is two transfers, a bulk write and a blocking bulk read; *)
(* the machine answers queries in order and knows nothing of threads.      *)
(*                                                                         *)
(* A handler of the main thread ends before the next begins.  Between any  *)
(* two transfers of one thread the other may do anything it can.           *)
(*                                                                         *)
(* Left out: what the answers say, the traffic log, the checklist's        *)
(* labels, the job the diagnostics compile, running jobs.                  *)
(***************************************************************************)
EXTENDS Naturals, Sequences

CONSTANTS
  Handles,    \* addresses of ULSDevice objects; a freed one may be used again
  Null,       \* the NULL pointer
  MaxFaults,  \* bound: transfers that fail and commands without an answer
  MaxAborted  \* bound: answers already left behind when a read is aborted

ASSUME PanelAssumption ==
  /\ Null \notin Handles
  /\ MaxFaults \in Nat
  /\ MaxAborted \in Nat

VARIABLES
  device,      \* window: self.device
  panelDevice, \* panel: _device, "weak, managed by main controller"
  testDevice,  \* diagnostics: the handle of their own
  open,        \* handles opened and not closed; a closed one is freed
  refreshing,  \* panel: refreshTimer # nil
  pipe,        \* answers of the machine not yet read
  todo,        \* per thread: queries its handler still has to make
  using,       \* per thread: the handle its queries are called with
  awaits,      \* per thread: the query whose answer it is reading
  running,     \* _isDiagnosticsRunning
  step,        \* where the diagnostics are
  faults,      \* transfers that failed so far
  crashed,     \* the process followed a NULL or freed pointer
  unplugged,   \* history: a device was closed while the diagnostics shared it
  overlapped,  \* history: a query was sent while another was waiting
  desynced,    \* history: an answer was left behind, or never came
  confused     \* history: a query took the answer to another one

handleVars == <<device, panelDevice, testDevice, open, refreshing>>
queryVars  == <<pipe, todo, using, awaits>>
diagVars   == <<running, step>>
history    == <<crashed, unplugged, overlapped, desynced, confused>>
vars == <<handleVars, queryVars, diagVars, faults, history>>

Threads == {"main", "diag"}
Queries == {"status", "position", "firmware"}
Steps == {"off", "search", "check", "open", "endpoints", "query", "call", "ended"}

TypeOK ==
  /\ device \in Handles \cup {Null} /\ panelDevice \in Handles \cup {Null}
  /\ testDevice \in Handles \cup {Null}
  /\ open \subseteq Handles
  /\ refreshing \in BOOLEAN
  /\ pipe \in Seq(Queries)
  /\ todo \in [Threads -> Seq(Queries \cup {"mute"})]
  /\ using \in [Threads -> Handles \cup {Null}]
  /\ awaits \in [Threads -> Queries \cup {"mute", "none"}]
  /\ running \in BOOLEAN /\ step \in Steps
  /\ faults \in 0..MaxFaults
  /\ crashed \in BOOLEAN /\ unplugged \in BOOLEAN /\ overlapped \in BOOLEAN
  /\ desynced \in BOOLEAN /\ confused \in BOOLEAN

Init ==
  /\ device = Null /\ panelDevice = Null /\ testDevice = Null
  /\ open = {}
  /\ refreshing = FALSE
  /\ pipe = <<>>
  /\ todo = [t \in Threads |-> <<>>]
  /\ using = [t \in Threads |-> Null]
  /\ awaits = [t \in Threads |-> "none"]
  /\ running = FALSE /\ step = "off"
  /\ faults = 0
  /\ crashed = FALSE /\ unplugged = FALSE /\ overlapped = FALSE
  /\ desynced = FALSE /\ confused = FALSE

\* The thread is between two queries; its handler has none left.
Between(t) == ~crashed /\ awaits[t] = "none"
Free(t) == Between(t) /\ todo[t] = <<>>

Crash ==
  /\ crashed' = TRUE
  /\ UNCHANGED <<handleVars, queryVars, diagVars, faults, unplugged, overlapped, desynced, confused>>

-----------------------------------------------------------------------------
(* One query of a thread: uls_get_status, uls_get_position,                *)
(* uls_get_firmware_version, or a command of the hex console.              *)

\* The next query of the thread has been called, with the handle using[t].
Called(t) == Between(t) /\ todo[t] # <<>> /\ (t = "diag" => step = "call")

\* The call goes on to its read, or returns.
Leaves(t) == step' = (IF t = "diag" THEN "query" ELSE step) /\ UNCHANGED running

Fault == faults < MaxFaults /\ faults' = faults + 1

\* The query returns without having been sent (NULL handle, failed write).
Skip(t) ==
  /\ todo' = [todo EXCEPT ![t] = Tail(@)]
  /\ Leaves(t)
  /\ UNCHANGED <<pipe, using, awaits>>

\* Mutants of Written: the answer of a query that was not sent is awaited; the query
\* is sent twice; every command is answered.
WrittenNot(t, query) ==
  /\ UNCHANGED pipe
  /\ awaits' = [awaits EXCEPT ![t] = query]

WrittenTwice(t, query) ==
  /\ pipe' = IF query = "mute" THEN pipe ELSE Append(Append(pipe, query), query)
  /\ awaits' = [awaits EXCEPT ![t] = query]

WrittenAnswered(t, query) ==
  /\ pipe' = Append(pipe, query)
  /\ awaits' = [awaits EXCEPT ![t] = query]

\* The machine has the query and will answer it, unless it is mute.
Written(t, query) ==
  /\ pipe' = IF query = "mute" THEN pipe ELSE Append(pipe, query)
  /\ awaits' = [awaits EXCEPT ![t] = query]

Send(t) ==
  /\ Called(t)
  /\ using[t] \in open
  /\ Written(t, Head(todo[t]))
  /\ todo' = [todo EXCEPT ![t] = Tail(@)]
  /\ Leaves(t)
  /\ overlapped' = (overlapped \/ \E other \in Threads \ {t} : awaits[other] # "none")
  /\ desynced' = (desynced \/ Head(todo[t]) = "mute")
  /\ UNCHANGED <<handleVars, using, faults, crashed, unplugged, confused>>

\* A write that reports an error may have been delivered: its answer is left behind.
SendFails(t) ==
  /\ Called(t)
  /\ using[t] \in open
  /\ Fault
  /\ \/ Skip(t) /\ UNCHANGED desynced
     \/ /\ Head(todo[t]) # "mute"
        /\ pipe' = Append(pipe, Head(todo[t]))
        /\ todo' = [todo EXCEPT ![t] = Tail(@)]
        /\ desynced' = TRUE
        /\ Leaves(t)
        /\ UNCHANGED <<using, awaits>>
  /\ UNCHANGED <<handleVars, crashed, unplugged, overlapped, confused>>

\* ULS_ERROR_INVALID_PARAM.
SendToNull(t) ==
  /\ Called(t)
  /\ using[t] = Null
  /\ Skip(t)
  /\ UNCHANGED <<handleVars, faults, history>>

\* The handle has been freed: isOpen reads as false, or anything happens.
SendToFreed(t) ==
  /\ Called(t)
  /\ using[t] # Null /\ using[t] \notin open
  /\ \/ Crash
     \/ Skip(t) /\ UNCHANGED <<handleVars, faults, history>>

Returns(t) == awaits' = [awaits EXCEPT ![t] = "none"] /\ UNCHANGED <<todo, using>>

\* The read takes whatever comes first.
Receive(t) ==
  /\ ~crashed /\ awaits[t] # "none"
  /\ using[t] \in open
  /\ pipe # <<>>
  /\ pipe' = Tail(pipe)
  /\ confused' = (confused \/ Head(pipe) # awaits[t])
  /\ Returns(t)
  /\ UNCHANGED <<handleVars, diagVars, faults, crashed, unplugged, overlapped, desynced>>

\* A failed read leaves the answer to whoever reads next.
ReceiveFails(t) ==
  /\ ~crashed /\ awaits[t] # "none"
  /\ using[t] \in open
  /\ Fault
  /\ desynced' = TRUE
  /\ Returns(t)
  /\ UNCHANGED <<handleVars, pipe, diagVars, crashed, unplugged, overlapped, confused>>

\* The handle is closed before or during the read: the read is aborted, or begins on
\* freed memory.
ReceiveOnFreed(t) ==
  /\ ~crashed /\ awaits[t] # "none"
  /\ using[t] \notin open
  /\ \/ Crash
     \/ /\ Len(pipe) <= MaxAborted
        /\ desynced' = TRUE
        /\ Returns(t)
        /\ UNCHANGED <<handleVars, pipe, diagVars, faults, crashed, unplugged, overlapped, confused>>

-----------------------------------------------------------------------------
(* The main thread.                                                        *)

MainQueries(handle, queries) ==
  /\ todo' = [todo EXCEPT !["main"] = queries]
  /\ using' = [using EXCEPT !["main"] = handle]
  /\ UNCHANGED <<pipe, awaits>>

\* A device can be opened once at a time, by whichever thread.
Opens(handle) ==
  /\ open = {}
  /\ open' = {handle}

\* connectLaser, setDevice, and the refresh setDevice ends with.
ConnectOpens ==
  /\ Free("main")
  /\ \E handle \in Handles :
       /\ Opens(handle)
       /\ device' = handle /\ panelDevice' = handle
       /\ MainQueries(handle, <<"position", "status">>)
  /\ refreshing' = TRUE
  /\ UNCHANGED <<testDevice, diagVars, faults, history>>

\* connectLaser while the device is held: the window loses its pointer, the panel
\* keeps its own.
ConnectRefused ==
  /\ Free("main")
  /\ open # {}
  /\ device' = Null
  /\ UNCHANGED <<panelDevice, testDevice, open, refreshing, queryVars, diagVars, faults, history>>

\* The diagnostics have found the panel connected and go on using its device.
Sharing == step \in {"endpoints", "query", "call"} /\ testDevice = Null

\* Mutant of PanelForgets: setDevice:NULL is left out.
PanelKeeps == UNCHANGED <<panelDevice, refreshing>>

\* setDevice:NULL.
PanelForgets == panelDevice' = Null /\ refreshing' = FALSE

DisconnectLaser ==
  /\ Free("main")
  /\ device # Null
  /\ PanelForgets
  /\ open' = open \ {device}
  /\ device' = Null
  /\ unplugged' = (unplugged \/ Sharing)
  /\ UNCHANGED <<testDevice, queryVars, diagVars, faults, crashed, overlapped, desynced, confused>>

\* The panel's timer, every 0.5 s.
RefreshStatus ==
  /\ Free("main")
  /\ refreshing /\ panelDevice # Null
  /\ MainQueries(panelDevice, <<"position", "status">>)
  /\ UNCHANGED <<handleVars, diagVars, faults, history>>

\* updatePosition, updateJobProgress, startJob's check, a jog's position.
WindowQuery ==
  /\ Free("main")
  /\ device # Null
  /\ \E query \in {"position", "status"} : MainQueries(device, <<query>>)
  /\ UNCHANGED <<handleVars, diagVars, faults, history>>

\* The hex console writes any bytes and then reads; not every command is answered.
SendHexCommand ==
  /\ Free("main")
  /\ panelDevice # Null
  /\ \/ \E query \in Queries : MainQueries(panelDevice, <<query>>) /\ UNCHANGED faults
     \/ MainQueries(panelDevice, <<"mute">>) /\ Fault
  /\ UNCHANGED <<handleVars, diagVars, history>>

RunDiagnostics ==
  /\ Free("main")
  /\ ~running
  /\ running' = TRUE
  /\ step' = "search"
  /\ UNCHANGED <<handleVars, queryVars, faults, history>>

\* Mutant of DiagnosticsComplete: the button stays disabled.
DiagnosticsNeverComplete == step' = "off" /\ UNCHANGED running

DiagnosticsComplete == step' = "off" /\ running' = FALSE

\* The block the diagnostics leave on the main queue.
DiagnosticsBlock ==
  /\ Free("main")
  /\ step = "ended"
  /\ DiagnosticsComplete
  /\ UNCHANGED <<handleVars, queryVars, faults, history>>

-----------------------------------------------------------------------------
(* The diagnostics thread.                                                 *)

Goto(from, to) ==
  /\ ~crashed
  /\ step = from
  /\ step' = to
  /\ UNCHANGED running

\* Steps 2 and 3: without a device the diagnostics end.
DiagSearch ==
  /\ Goto("search", "check") \/ Goto("search", "ended")
  /\ UNCHANGED <<handleVars, queryVars, faults, history>>

\* self.isConnected, read once.
DiagCheck ==
  /\ IF panelDevice # Null THEN Goto("check", "endpoints") ELSE Goto("check", "open")
  /\ UNCHANGED <<handleVars, queryVars, faults, history>>

DiagQueries ==
  /\ todo' = [todo EXCEPT !["diag"] = <<"firmware", "status", "position">>]
  /\ UNCHANGED <<pipe, using, awaits>>

\* Not connected: a device of their own, if it can be opened.
DiagOpens ==
  /\ Goto("open", "query")
  /\ \E handle \in Handles : Opens(handle) /\ testDevice' = handle
  /\ DiagQueries
  /\ UNCHANGED <<device, panelDevice, refreshing, faults, history>>

DiagRefused ==
  /\ Goto("open", "ended")
  /\ UNCHANGED <<handleVars, queryVars, faults, history>>

\* Connected: step 6 reads _device->bulkOutPipe.
DiagEndpoints ==
  /\ panelDevice # Null
  /\ Goto("endpoints", "query")
  /\ DiagQueries
  /\ UNCHANGED <<handleVars, faults, history>>

DiagFollowsNull ==
  /\ ~crashed /\ step = "endpoints"
  /\ panelDevice = Null
  /\ Crash

\* Each query is called with the pointer of that moment.
DiagCalls ==
  /\ Between("diag") /\ todo["diag"] # <<>>
  /\ Goto("query", "call")
  /\ using' = [using EXCEPT !["diag"] = IF testDevice # Null THEN testDevice ELSE panelDevice]
  /\ UNCHANGED <<handleVars, pipe, todo, awaits, faults, history>>

\* Mutant of TestDeviceCloses: uls_close_device is left out.
TestDeviceStays == testDevice' = Null /\ UNCHANGED open

TestDeviceCloses == testDevice' = Null /\ open' = open \ {testDevice}

\* After step 9.
DiagEnds ==
  /\ Free("diag")
  /\ Goto("query", "ended")
  /\ TestDeviceCloses
  /\ UNCHANGED <<device, panelDevice, refreshing, queryVars, faults, history>>

-----------------------------------------------------------------------------
Transfer(t) ==
  \/ Send(t) \/ SendFails(t) \/ SendToNull(t) \/ SendToFreed(t)
  \/ Receive(t) \/ ReceiveFails(t) \/ ReceiveOnFreed(t)

Diagnostics ==
  \/ DiagSearch \/ DiagCheck \/ DiagOpens \/ DiagRefused
  \/ DiagEndpoints \/ DiagFollowsNull \/ DiagCalls \/ DiagEnds

Next ==
  \/ \E t \in Threads : Transfer(t)
  \/ ConnectOpens \/ ConnectRefused \/ DisconnectLaser
  \/ RefreshStatus \/ WindowQuery \/ SendHexCommand
  \/ RunDiagnostics \/ DiagnosticsBlock
  \/ Diagnostics

(***************************************************************************)
(* Both threads run, and the main thread comes back to its queue between   *)
(* its handlers.  Nobody promises a click.                                 *)
(***************************************************************************)
Fairness ==
  /\ \A t \in Threads : WF_vars(Transfer(t))
  /\ WF_vars(Diagnostics)
  /\ SF_vars(DiagnosticsBlock)

Spec == Init /\ [][Next]_vars
FairSpec == Spec /\ Fairness

-----------------------------------------------------------------------------
(* Properties.                                                             *)

\* The devices that are open are exactly those the panel and the diagnostics hold, and
\* what the window holds the panel holds: no handle is used after it was closed or
\* left open without a holder, whoever of the two threads opened first.
HandlesAccounted ==
  /\ open = {panelDevice, testDevice} \ {Null}
  /\ device \in {Null, panelDevice}

\* The process follows a dead pointer only if a device was closed while the
\* diagnostics shared it: the main thread on its own never does.
CrashNeedsUnplugging == crashed => unplugged

\* As long as no answer was left behind, there is one unread answer for each thread
\* that is reading, and none when both are at rest.
OneAnswerPerRead ==
  ~desynced /\ ~crashed =>
    Len(pipe) = (IF awaits["main"] = "none" THEN 0 ELSE 1) + (IF awaits["diag"] = "none" THEN 0 ELSE 1)

\* A query takes the answer to another one only after two queries have overlapped, or
\* after an answer was left behind.
OwnAnswers == confused => overlapped \/ desynced

\* Queries overlap only when the diagnostics run on the device of the panel.
\* With a device of their own they are alone.
TestDeviceAlone ==
  testDevice # Null => awaits["main"] = "none" /\ panelDevice = Null

\* A read of the main thread returns, so the window stays responsive, unless an answer
\* was left behind or the process crashes.
QueriesReturn == (awaits["main"] # "none") ~> (awaits["main"] = "none" \/ desynced \/ crashed)

\* The diagnostics end, and their button comes back.
DiagnosticsEnd == running ~> (~running \/ desynced \/ crashed)
=============================================================================
