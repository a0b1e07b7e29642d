------------------------- MODULE PanelQueriesProofs -------------------------
(***************************************************************************)
(* What PanelQueries keeps, for any addresses and any number of faults:    *)
(* the handles, why only a disconnect can make a pointer dangle, and the   *)
(* pairing of queries and answers.                                         *)
(***************************************************************************)
EXTENDS PanelQueries, TLAPS

\* The diagnostics hold a device of their own only while they query it, and then the
\* panel holds none.
TestHandle == testDevice # Null => step \in {"query", "call"} /\ panelDevice = Null

\* What the main thread works on is the panel's open device.
MainHandle ==
  todo["main"] # <<>> \/ awaits["main"] # "none"
    => using["main"] = panelDevice /\ panelDevice \in open

\* The diagnostics run once at a time; what they work on is open, unless it was closed under them.
DiagHandle ==
  /\ step # "off" => running
  /\ todo["diag"] # <<>> \/ awaits["diag"] # "none" => step \in {"query", "call"}
  /\ Sharing /\ ~unplugged => panelDevice # Null
  /\ (awaits["diag"] # "none" \/ step = "call") /\ ~unplugged
       => using["diag"] = (IF testDevice # Null THEN testDevice ELSE panelDevice)

HandleInvariant ==
  /\ TypeOK
  /\ HandlesAccounted
  /\ TestHandle
  /\ MainHandle
  /\ DiagHandle
  /\ CrashNeedsUnplugging

\* Without an overlap and without a stray answer at most one thread reads, and the
\* pipe holds its answer and no other.
PipePaired ==
  ~overlapped /\ ~desynced /\ ~crashed =>
    \/ awaits["main"] = "none" /\ awaits["diag"] = "none" /\ pipe = <<>>
    \/ awaits["main"] # "none" /\ awaits["diag"] = "none" /\ pipe = <<awaits["main"]>>
    \/ awaits["main"] = "none" /\ awaits["diag"] # "none" /\ pipe = <<awaits["diag"]>>

-----------------------------------------------------------------------------
(* Types.                                                                  *)

\* An update of one thread's entry, and what it leaves of the other's.
LEMMA ThreadUpdate ==
  ASSUME NEW S, NEW f \in [Threads -> S], NEW t \in Threads, NEW v \in S
  PROVE  /\ [f EXCEPT ![t] = v] \in [Threads -> S]
         /\ [f EXCEPT ![t] = v][t] = v
         /\ \A u \in Threads \ {t} : [f EXCEPT ![t] = v][u] = f[u]
OBVIOUS

\* The lists of queries the handlers send.
LEMMA QueryLists ==
  /\ <<"position", "status">> \in Seq(Queries \cup {"mute"})
  /\ <<"firmware", "status", "position">> \in Seq(Queries \cup {"mute"})
  /\ <<"mute">> \in Seq(Queries \cup {"mute"})
  /\ \A query \in Queries : <<query>> \in Seq(Queries \cup {"mute"})
BY DEF Queries

\* Nothing to send, nothing in the pipe.
LEMMA NoTodo == <<>> \in Seq(Queries \cup {"mute"}) /\ <<>> \in Seq(Queries)
OBVIOUS

\* A fault keeps its counter in bounds.
LEMMA FaultCounted ==
  ASSUME TypeOK, Fault
  PROVE  faults' \in 0..MaxFaults
BY PanelAssumption DEF TypeOK, Fault

\* Leaving a query is a step of the diagnostics or of nobody.
LEMMA LeavesType ==
  ASSUME TypeOK, NEW t \in Threads, Leaves(t)
  PROVE  step' \in Steps /\ running' \in BOOLEAN
BY DEF TypeOK, Leaves, Steps

\* Each action on the queues keeps their types.
LEMMA SkipType ==
  ASSUME TypeOK, NEW t \in Threads, todo[t] # <<>>, Skip(t)
  PROVE  /\ pipe' \in Seq(Queries) /\ using' \in [Threads -> Handles \cup {Null}]
         /\ awaits' \in [Threads -> Queries \cup {"mute", "none"}]
         /\ todo' \in [Threads -> Seq(Queries \cup {"mute"})]
         /\ step' \in Steps /\ running' \in BOOLEAN
<1>1. todo[t] \in Seq(Queries \cup {"mute"}) /\ todo \in [Threads -> Seq(Queries \cup {"mute"})]
  BY DEF TypeOK
<1>2. Tail(todo[t]) \in Seq(Queries \cup {"mute"})
  BY <1>1
<1> QED
  BY <1>1, <1>2, ThreadUpdate, LeavesType DEF TypeOK, Skip

\* A handler of the main thread begins its queries.
LEMMA MainQueriesType ==
  ASSUME TypeOK, NEW handle \in Handles, NEW queries \in Seq(Queries \cup {"mute"}),
         MainQueries(handle, queries)
  PROVE  /\ pipe' \in Seq(Queries) /\ using' \in [Threads -> Handles \cup {Null}]
         /\ awaits' \in [Threads -> Queries \cup {"mute", "none"}]
         /\ todo' \in [Threads -> Seq(Queries \cup {"mute"})]
<1>1. "main" \in Threads
  BY DEF Threads
<1> QED
  BY <1>1, ThreadUpdate DEF TypeOK, MainQueries

\* A write keeps the types.
LEMMA SendType ==
  ASSUME TypeOK, NEW t \in Threads, Send(t)
  PROVE  TypeOK'
<1> USE DEF Send, Called
<1>1. todo[t] \in Seq(Queries \cup {"mute"}) /\ todo \in [Threads -> Seq(Queries \cup {"mute"})]
  BY DEF TypeOK
<1>2. Head(todo[t]) \in Queries \cup {"mute"} /\ Tail(todo[t]) \in Seq(Queries \cup {"mute"})
  BY <1>1
<1>3. todo' \in [Threads -> Seq(Queries \cup {"mute"})]
  BY <1>1, <1>2, ThreadUpdate
<1>4. using' \in [Threads -> Handles \cup {Null}]
  BY DEF TypeOK
<1>5. awaits' \in [Threads -> Queries \cup {"mute", "none"}]
  BY <1>2, ThreadUpdate DEF TypeOK, Written
<1>6. pipe' \in Seq(Queries)
  BY <1>2 DEF TypeOK, Written
<1>7. overlapped' \in BOOLEAN /\ desynced' \in BOOLEAN
  BY DEF TypeOK
<1> QED
  BY <1>3, <1>4, <1>5, <1>6, <1>7, LeavesType DEF TypeOK, handleVars

\* So does each half of a query, and each way it fails.
LEMMA TransferType ==
  ASSUME TypeOK, NEW t \in Threads, Transfer(t)
  PROVE  TypeOK'
<1>1. CASE Send(t)
  BY <1>1, SendType
<1>2. CASE SendFails(t)
  <2>1. /\ pipe' \in Seq(Queries) /\ using' \in [Threads -> Handles \cup {Null}]
        /\ awaits' \in [Threads -> Queries \cup {"mute", "none"}]
        /\ todo' \in [Threads -> Seq(Queries \cup {"mute"})]
        /\ step' \in Steps /\ running' \in BOOLEAN
    <3>1. CASE Skip(t)
      BY <1>2, <3>1, SkipType DEF SendFails, Called
    <3>2. CASE /\ Head(todo[t]) # "mute"
               /\ pipe' = Append(pipe, Head(todo[t]))
               /\ todo' = [todo EXCEPT ![t] = Tail(@)]
               /\ Leaves(t)
               /\ UNCHANGED <<using, awaits>>
      <4>1. todo[t] \in Seq(Queries \cup {"mute"}) /\ todo \in [Threads -> Seq(Queries \cup {"mute"})]
        BY DEF TypeOK
      <4>2. Head(todo[t]) \in Queries \cup {"mute"} /\ Tail(todo[t]) \in Seq(Queries \cup {"mute"})
        BY <1>2, <4>1 DEF SendFails, Called
      <4>3. todo' \in [Threads -> Seq(Queries \cup {"mute"})]
        BY <3>2, <4>1, <4>2, ThreadUpdate
      <4>4. pipe' \in Seq(Queries)
        BY <3>2, <4>2 DEF TypeOK
      <4> QED
        BY <3>2, <4>3, <4>4, LeavesType DEF TypeOK
    <3> QED
      BY <1>2, <3>1, <3>2 DEF SendFails
  <2>2. faults' \in 0..MaxFaults /\ desynced' \in BOOLEAN
    BY <1>2, FaultCounted DEF SendFails, TypeOK
  <2> QED
    BY <1>2, <2>1, <2>2 DEF SendFails, TypeOK, handleVars
<1>3. CASE SendToNull(t)
  BY <1>3, SkipType DEF SendToNull, Called, TypeOK, handleVars, history
<1>4. CASE SendToFreed(t)
  BY <1>4, SkipType DEF SendToFreed, Called, Crash, TypeOK, handleVars, diagVars, queryVars, history
<1>5. CASE Receive(t)
  <2>1. awaits' \in [Threads -> Queries \cup {"mute", "none"}]
    BY <1>5, ThreadUpdate DEF Receive, Returns, TypeOK
  <2>2. pipe' \in Seq(Queries) /\ confused' \in BOOLEAN
    BY <1>5 DEF Receive, TypeOK
  <2> QED
    BY <1>5, <2>1, <2>2 DEF Receive, Returns, TypeOK, handleVars, diagVars
<1>6. CASE ReceiveFails(t)
  <2>1. awaits' \in [Threads -> Queries \cup {"mute", "none"}]
    BY <1>6, ThreadUpdate DEF ReceiveFails, Returns, TypeOK
  <2> QED
    BY <1>6, <2>1, FaultCounted DEF ReceiveFails, Returns, TypeOK, handleVars, diagVars
<1>7. CASE ReceiveOnFreed(t)
  <2>1. awaits' \in [Threads -> Queries \cup {"mute", "none"}]
    <3>1. CASE Crash
      BY <3>1 DEF Crash, TypeOK, queryVars
    <3>2. CASE Returns(t)
      BY <3>2, ThreadUpdate DEF Returns, TypeOK
    <3> QED
      BY <1>7, <3>1, <3>2 DEF ReceiveOnFreed
  <2> QED
    BY <1>7, <2>1 DEF ReceiveOnFreed, Crash, Returns, TypeOK, handleVars, diagVars, queryVars
<1> QED
  BY <1>1, <1>2, <1>3, <1>4, <1>5, <1>6, <1>7 DEF Transfer

\* So do the handlers of the main thread.
LEMMA MainType ==
  ASSUME TypeOK,
         \/ ConnectOpens \/ ConnectRefused \/ DisconnectLaser
         \/ RefreshStatus \/ WindowQuery \/ SendHexCommand
         \/ RunDiagnostics \/ DiagnosticsBlock
  PROVE  TypeOK'
<1>1. CASE ConnectOpens
  BY <1>1, MainQueriesType, QueryLists DEF ConnectOpens, Opens, TypeOK, diagVars, history
<1>2. CASE ConnectRefused
  BY <1>2 DEF ConnectRefused, TypeOK, queryVars, diagVars, history
<1>3. CASE DisconnectLaser
  BY <1>3 DEF DisconnectLaser, PanelForgets, TypeOK, queryVars, diagVars
<1>4. CASE RefreshStatus
  <2>1. panelDevice \in Handles
    BY <1>4 DEF RefreshStatus, TypeOK
  <2> QED
    BY <1>4, <2>1, MainQueriesType, QueryLists DEF RefreshStatus, TypeOK, handleVars, diagVars, history
<1>5. CASE WindowQuery
  <2>1. device \in Handles
    BY <1>5 DEF WindowQuery, TypeOK
  <2>2. PICK query \in {"position", "status"} : MainQueries(device, <<query>>)
    BY <1>5 DEF WindowQuery
  <2>3. <<query>> \in Seq(Queries \cup {"mute"})
    BY QueryLists DEF Queries
  <2> QED
    BY <1>5, <2>1, <2>2, <2>3, MainQueriesType DEF WindowQuery, TypeOK, handleVars, diagVars, history
<1>6. CASE SendHexCommand
  <2>1. panelDevice \in Handles
    BY <1>6 DEF SendHexCommand, TypeOK
  <2>2. PICK queries \in Seq(Queries \cup {"mute"}) : MainQueries(panelDevice, queries)
    BY <1>6, QueryLists DEF SendHexCommand
  <2>3. faults' \in 0..MaxFaults
    BY <1>6, FaultCounted DEF SendHexCommand, TypeOK
  <2> QED
    BY <1>6, <2>1, <2>2, <2>3, MainQueriesType DEF SendHexCommand, TypeOK, handleVars, diagVars, history
<1>7. CASE RunDiagnostics
  BY <1>7 DEF RunDiagnostics, TypeOK, Steps, handleVars, queryVars, history
<1>8. CASE DiagnosticsBlock
  BY <1>8 DEF DiagnosticsBlock, DiagnosticsComplete, TypeOK, Steps, handleVars, queryVars, history
<1> QED
  BY <1>1, <1>2, <1>3, <1>4, <1>5, <1>6, <1>7, <1>8

\* And the blocks of the diagnostics.
LEMMA DiagType ==
  ASSUME TypeOK, Diagnostics
  PROVE  TypeOK'
<1>1. ASSUME DiagQueries
      PROVE  /\ pipe' \in Seq(Queries) /\ using' \in [Threads -> Handles \cup {Null}]
             /\ awaits' \in [Threads -> Queries \cup {"mute", "none"}]
             /\ todo' \in [Threads -> Seq(Queries \cup {"mute"})]
  <2>1. "diag" \in Threads
    BY DEF Threads
  <2> QED
    BY <1>1, <2>1, QueryLists, ThreadUpdate DEF DiagQueries, TypeOK
<1>2. CASE DiagSearch
  BY <1>2 DEF DiagSearch, Goto, TypeOK, Steps, handleVars, queryVars, history
<1>3. CASE DiagCheck
  BY <1>3 DEF DiagCheck, Goto, TypeOK, Steps, handleVars, queryVars, history
<1>4. CASE DiagOpens
  BY <1>4, <1>1 DEF DiagOpens, Opens, Goto, TypeOK, Steps, history
<1>5. CASE DiagRefused
  BY <1>5 DEF DiagRefused, Goto, TypeOK, Steps, handleVars, queryVars, history
<1>6. CASE DiagEndpoints
  BY <1>6, <1>1 DEF DiagEndpoints, Goto, TypeOK, Steps, handleVars, history
<1>7. CASE DiagFollowsNull
  BY <1>7 DEF DiagFollowsNull, Crash, TypeOK, handleVars, queryVars, diagVars
<1>8. CASE DiagCalls
  <2>1. using' \in [Threads -> Handles \cup {Null}]
    BY <1>8, ThreadUpdate DEF DiagCalls, TypeOK, Threads
  <2> QED
    BY <1>8, <2>1 DEF DiagCalls, Goto, TypeOK, Steps, handleVars, history
<1>9. CASE DiagEnds
  BY <1>9 DEF DiagEnds, TestDeviceCloses, Goto, TypeOK, Steps, queryVars, history
<1> QED
  BY <1>2, <1>3, <1>4, <1>5, <1>6, <1>7, <1>8, <1>9 DEF Diagnostics

\* The panel as it opens.
LEMMA InitType == Init => TypeOK
<1> SUFFICES ASSUME Init PROVE TypeOK
  OBVIOUS
<1>1. /\ todo \in [Threads -> Seq(Queries \cup {"mute"})] /\ pipe \in Seq(Queries)
      /\ using \in [Threads -> Handles \cup {Null}]
      /\ awaits \in [Threads -> Queries \cup {"mute", "none"}]
  BY NoTodo DEF Init
<1>2. faults \in 0..MaxFaults
  BY PanelAssumption DEF Init
<1> QED
  BY <1>1, <1>2 DEF Init, TypeOK, Steps

\* Every step keeps the types.
LEMMA NextType == TypeOK /\ [Next]_vars => TypeOK'
<1> SUFFICES ASSUME TypeOK, [Next]_vars
             PROVE  TypeOK'
  OBVIOUS
<1>1. CASE UNCHANGED vars
  BY <1>1 DEF vars, handleVars, queryVars, diagVars, history, TypeOK
<1> QED
  BY <1>1, TransferType, MainType, DiagType DEF Next

\* Every variable keeps its type, whatever the two threads do.
THEOREM PanelType == Spec => []TypeOK
BY InitType, NextType, PTL DEF Spec

-----------------------------------------------------------------------------
(* Handles.                                                                *)

\* Which actions touch the handles, and which the diagnostics' progress.
LEMMA TransferSpares ==
  ASSUME NEW t \in Threads, Transfer(t)
  PROVE  /\ UNCHANGED <<handleVars, running, unplugged>>
         /\ step' = step \/ (t = "diag" /\ step = "call" /\ step' = "query")
<1>1. ASSUME Called(t), Leaves(t)
      PROVE  running' = running /\ (step' = step \/ (t = "diag" /\ step = "call" /\ step' = "query"))
  BY <1>1 DEF Called, Leaves
<1>2. CASE Send(t)
  BY <1>1, <1>2 DEF Send
<1>3. CASE SendFails(t)
  BY <1>1, <1>3 DEF SendFails, Skip
<1>4. CASE SendToNull(t) \/ SendToFreed(t)
  BY <1>1, <1>4 DEF SendToNull, SendToFreed, Skip, Crash, diagVars, history
<1>5. CASE Receive(t) \/ ReceiveFails(t) \/ ReceiveOnFreed(t)
  BY <1>5 DEF Receive, ReceiveFails, ReceiveOnFreed, Crash, diagVars
<1> QED
  BY <1>2, <1>3, <1>4, <1>5 DEF Transfer

\* A transfer of one thread leaves the other thread's work alone; its own work only
\* shrinks.
LEMMA TransferWork ==
  ASSUME TypeOK, NEW t \in Threads, Transfer(t)
  PROVE  /\ using' = using
         /\ \A u \in Threads \ {t} : todo'[u] = todo[u] /\ awaits'[u] = awaits[u]
         /\ todo'[t] # <<>> => todo[t] # <<>>
         /\ awaits'[t] # "none" => awaits[t] # "none" \/ (todo[t] # <<>> /\ (t = "diag" => step = "call"))
<1>1. /\ todo \in [Threads -> Seq(Queries \cup {"mute"})]
      /\ using \in [Threads -> Handles \cup {Null}]
      /\ awaits \in [Threads -> Queries \cup {"mute", "none"}]
  BY DEF TypeOK
<1>2. CASE Send(t)
  BY <1>1, <1>2 DEF Send, Called, Written, Between
<1>3. CASE SendFails(t)
  BY <1>1, <1>3 DEF SendFails, Called, Skip, Between
<1>4. CASE SendToNull(t)
  BY <1>1, <1>4 DEF SendToNull, Called, Skip, Between
<1>5. CASE SendToFreed(t)
  BY <1>1, <1>5 DEF SendToFreed, Called, Skip, Crash, Between, queryVars
<1>6. CASE Receive(t) \/ ReceiveFails(t)
  BY <1>1, <1>6 DEF Receive, ReceiveFails, Returns
<1>7. CASE ReceiveOnFreed(t)
  BY <1>1, <1>7 DEF ReceiveOnFreed, Returns, Crash, queryVars
<1>8. \/ Send(t) \/ SendFails(t) \/ SendToNull(t) \/ SendToFreed(t)
      \/ Receive(t) \/ ReceiveFails(t) \/ ReceiveOnFreed(t)
  BY DEF Transfer
<1> QED
  BY <1>2, <1>3, <1>4, <1>5, <1>6, <1>7, <1>8

\* A crash is possible only after a disconnect under the diagnostics.
LEMMA TransferCrash ==
  ASSUME HandleInvariant, NEW t \in Threads, Transfer(t)
  PROVE  crashed' => unplugged
<1>1. ASSUME Called(t), using[t] # Null, ~unplugged PROVE using[t] \in open
  <2>1. CASE t = "main"
    BY <1>1, <2>1 DEF HandleInvariant, MainHandle, Called
  <2>2. CASE t = "diag"
    BY <1>1, <2>2 DEF HandleInvariant, HandlesAccounted, DiagHandle, Called
  <2> QED
    BY <2>1, <2>2 DEF Threads
<1>2. ASSUME awaits[t] # "none", ~unplugged PROVE using[t] \in open
  <2>1. CASE t = "main"
    BY <1>2, <2>1 DEF HandleInvariant, MainHandle
  <2>2. CASE t = "diag"
    <3>1. step \in {"query", "call"} /\ using["diag"] = (IF testDevice # Null THEN testDevice ELSE panelDevice)
      BY <1>2, <2>2 DEF HandleInvariant, DiagHandle
    <3>2. testDevice = Null => panelDevice # Null
      BY <1>2, <3>1 DEF HandleInvariant, DiagHandle, Sharing
    <3> QED
      BY <2>2, <3>1, <3>2 DEF HandleInvariant, HandlesAccounted
  <2> QED
    BY <2>1, <2>2 DEF Threads
<1>3. crashed => unplugged
  BY DEF HandleInvariant, CrashNeedsUnplugging
<1> QED
  BY <1>1, <1>2, <1>3 DEF Transfer, Send, SendFails, SendToNull, SendToFreed, Receive, ReceiveFails,
       ReceiveOnFreed, history

\* A transfer opens and closes nothing, so it keeps the account of the handles.
LEMMA TransferHandles ==
  ASSUME HandleInvariant, NEW t \in Threads, Transfer(t)
  PROVE  HandleInvariant'
<1>1. TypeOK /\ TypeOK'
  BY TransferType DEF HandleInvariant
<1>2. /\ UNCHANGED <<handleVars, running, unplugged>>
      /\ step' = step \/ (t = "diag" /\ step = "call" /\ step' = "query")
  BY TransferSpares
<1>3. HandlesAccounted'
  BY <1>2 DEF HandleInvariant, HandlesAccounted, handleVars
<1>4. TestHandle'
  BY <1>2 DEF HandleInvariant, TestHandle, handleVars
<1>5. MainHandle'
  <2>1. using' = using
    BY <1>1, TransferWork
  <2>2. todo'["main"] # <<>> \/ awaits'["main"] # "none" => todo["main"] # <<>> \/ awaits["main"] # "none"
    BY <1>1, TransferWork DEF Threads
  <2> QED
    BY <1>2, <2>1, <2>2 DEF HandleInvariant, MainHandle, handleVars
<1>6. DiagHandle'
  <2>1. using' = using
    BY <1>1, TransferWork
  <2>2. todo'["diag"] # <<>> \/ awaits'["diag"] # "none" => todo["diag"] # <<>> \/ awaits["diag"] # "none"
    BY <1>1, TransferWork DEF Threads
  <2>3. awaits'["diag"] # "none" => awaits["diag"] # "none" \/ step = "call"
    BY <1>1, TransferWork DEF Threads
  <2> QED
    BY <1>2, <2>1, <2>2, <2>3 DEF HandleInvariant, DiagHandle, Sharing, handleVars
<1>7. CrashNeedsUnplugging'
  BY <1>2, TransferCrash DEF CrashNeedsUnplugging
<1> QED
  BY <1>1, <1>3, <1>4, <1>5, <1>6, <1>7 DEF HandleInvariant

\* A handler of the main thread that begins to query the panel's open device.
LEMMA MainQueriesHandles ==
  ASSUME TypeOK, NEW handle, NEW queries, MainQueries(handle, queries)
  PROVE  /\ using'["main"] = handle
         /\ todo'["diag"] = todo["diag"] /\ using'["diag"] = using["diag"] /\ awaits' = awaits
BY DEF TypeOK, MainQueries, Threads

\* The handlers of the main thread keep it.
LEMMA MainHandles ==
  ASSUME HandleInvariant, TypeOK',
         \/ ConnectOpens \/ ConnectRefused \/ DisconnectLaser
         \/ RefreshStatus \/ WindowQuery \/ SendHexCommand
         \/ RunDiagnostics \/ DiagnosticsBlock
  PROVE  HandleInvariant'
<1> USE DEF HandleInvariant
<1>1. CASE ConnectOpens
  <2>1. PICK handle \in Handles :
          /\ open = {} /\ open' = {handle}
          /\ device' = handle /\ panelDevice' = handle
          /\ MainQueries(handle, <<"position", "status">>)
    BY <1>1 DEF ConnectOpens, Opens
  <2>2. panelDevice = Null /\ testDevice = Null
    BY <2>1 DEF HandlesAccounted
  <2>3. /\ using'["main"] = handle
        /\ todo'["diag"] = todo["diag"] /\ using'["diag"] = using["diag"] /\ awaits' = awaits
    BY <2>1, MainQueriesHandles
  <2>4. UNCHANGED <<testDevice, diagVars, history>>
    BY <1>1 DEF ConnectOpens
  <2>5. handle # Null
    BY PanelAssumption
  <2>6. HandlesAccounted'
    BY <2>1, <2>2, <2>4, <2>5 DEF HandlesAccounted
  <2>7. TestHandle' /\ CrashNeedsUnplugging'
    BY <2>2, <2>4 DEF TestHandle, CrashNeedsUnplugging, history
  <2>8. MainHandle'
    BY <2>1, <2>3 DEF MainHandle
  <2>9. DiagHandle'
    BY <2>1, <2>2, <2>3, <2>4, <2>5 DEF DiagHandle, Sharing, diagVars, history
  <2> QED
    BY <2>6, <2>7, <2>8, <2>9
<1>2. CASE ConnectRefused
  BY <1>2 DEF ConnectRefused, HandlesAccounted, TestHandle, MainHandle, DiagHandle, Sharing,
              CrashNeedsUnplugging, queryVars, diagVars, history
<1>3. CASE DisconnectLaser
  <2>1. /\ device # Null /\ panelDevice' = Null /\ device' = Null /\ open' = open \ {device}
        /\ unplugged' = (unplugged \/ Sharing) /\ UNCHANGED <<testDevice, queryVars, diagVars, crashed>>
        /\ Free("main")
    BY <1>3 DEF DisconnectLaser, PanelForgets
  <2>2. device = panelDevice /\ testDevice = Null
    BY <2>1 DEF HandlesAccounted, TestHandle
  <2>3. HandlesAccounted' /\ TestHandle' /\ CrashNeedsUnplugging'
    BY <2>1, <2>2 DEF HandlesAccounted, TestHandle, CrashNeedsUnplugging
  <2>4. MainHandle'
    BY <2>1 DEF MainHandle, Free, Between, queryVars
  <2>5. DiagHandle'
    BY <2>1, <2>2 DEF DiagHandle, Sharing, queryVars, diagVars
  <2> QED
    BY <2>3, <2>4, <2>5
<1>4. CASE RefreshStatus
  <2>1. /\ panelDevice # Null /\ UNCHANGED <<handleVars, diagVars, history>>
        /\ MainQueries(panelDevice, <<"position", "status">>)
    BY <1>4 DEF RefreshStatus
  <2> QED
    BY <2>1, MainQueriesHandles DEF HandlesAccounted, TestHandle, MainHandle, DiagHandle, Sharing,
              CrashNeedsUnplugging, handleVars, diagVars, history
<1>5. CASE WindowQuery
  <2>1. PICK query : MainQueries(device, <<query>>)
    BY <1>5 DEF WindowQuery
  <2>2. device # Null /\ UNCHANGED <<handleVars, diagVars, history>>
    BY <1>5 DEF WindowQuery
  <2> QED
    BY <2>1, <2>2, MainQueriesHandles DEF HandlesAccounted, TestHandle, MainHandle, DiagHandle, Sharing,
              CrashNeedsUnplugging, handleVars, diagVars, history
<1>6. CASE SendHexCommand
  <2>1. PICK queries : MainQueries(panelDevice, queries)
    BY <1>6 DEF SendHexCommand
  <2>2. panelDevice # Null /\ UNCHANGED <<handleVars, diagVars, history>>
    BY <1>6 DEF SendHexCommand
  <2> QED
    BY <2>1, <2>2, MainQueriesHandles DEF HandlesAccounted, TestHandle, MainHandle, DiagHandle, Sharing,
              CrashNeedsUnplugging, handleVars, diagVars, history
<1>7. CASE RunDiagnostics \/ DiagnosticsBlock
  <2>1. UNCHANGED <<handleVars, queryVars, history>> /\ step' \in {"search", "off"} /\ (step' # "off" => running')
    BY <1>7 DEF RunDiagnostics, DiagnosticsBlock, DiagnosticsComplete
  <2>2. step \notin {"query", "call", "endpoints"}
    BY <1>7 DEF DiagnosticsBlock, RunDiagnostics, DiagHandle
  <2> QED
    BY <2>1, <2>2 DEF HandlesAccounted, TestHandle, MainHandle, DiagHandle, Sharing,
              CrashNeedsUnplugging, handleVars, queryVars, history
<1> QED
  BY <1>1, <1>2, <1>3, <1>4, <1>5, <1>6, <1>7

\* And the blocks of the diagnostics, whatever was closed under them.
LEMMA DiagHandles ==
  ASSUME HandleInvariant, TypeOK', Diagnostics
  PROVE  HandleInvariant'
<1> USE DEF HandleInvariant
<1>1. ASSUME DiagQueries
      PROVE  /\ todo'["main"] = todo["main"] /\ using' = using /\ awaits' = awaits
  BY <1>1 DEF DiagQueries, TypeOK, Threads
<1>2. CASE DiagSearch \/ DiagRefused
  <2>1. /\ UNCHANGED <<handleVars, queryVars, history, running>> /\ step' \in {"check", "ended"}
        /\ step \in {"search", "open"}
    BY <1>2 DEF DiagSearch, DiagRefused, Goto
  <2> QED
    BY <2>1 DEF HandlesAccounted, TestHandle, MainHandle, DiagHandle, Sharing,
              CrashNeedsUnplugging, handleVars, queryVars, history
<1>3. CASE DiagCheck
  <2>1. /\ UNCHANGED <<handleVars, queryVars, history, running>> /\ step = "check"
        /\ step' = (IF panelDevice # Null THEN "endpoints" ELSE "open")
    BY <1>3 DEF DiagCheck, Goto
  <2> QED
    BY <2>1 DEF HandlesAccounted, TestHandle, MainHandle, DiagHandle, Sharing,
              CrashNeedsUnplugging, handleVars, queryVars, history
<1>4. CASE DiagOpens
  <2>1. PICK handle \in Handles : open = {} /\ open' = {handle} /\ testDevice' = handle
    BY <1>4 DEF DiagOpens, Opens
  <2>2. /\ UNCHANGED <<device, panelDevice, history, running>> /\ step = "open" /\ step' = "query"
        /\ DiagQueries
    BY <1>4 DEF DiagOpens, Goto
  <2>3. panelDevice = Null /\ handle # Null
    BY <2>1, PanelAssumption DEF HandlesAccounted
  <2>4. HandlesAccounted' /\ TestHandle' /\ CrashNeedsUnplugging'
    BY <2>1, <2>2, <2>3 DEF HandlesAccounted, TestHandle, CrashNeedsUnplugging, history
  <2>5. MainHandle'
    BY <2>1, <2>2, <1>1 DEF MainHandle
  <2>6. DiagHandle'
    BY <2>1, <2>2, <2>3, <1>1 DEF DiagHandle, Sharing
  <2> QED
    BY <2>4, <2>5, <2>6
<1>5. CASE DiagEndpoints
  <2>1. /\ UNCHANGED <<handleVars, history, running>> /\ step = "endpoints" /\ step' = "query"
        /\ DiagQueries /\ panelDevice # Null
    BY <1>5 DEF DiagEndpoints, Goto
  <2> QED
    BY <2>1, <1>1 DEF HandlesAccounted, TestHandle, MainHandle, DiagHandle, Sharing,
              CrashNeedsUnplugging, handleVars, history
<1>6. CASE DiagFollowsNull
  <2>1. /\ UNCHANGED <<handleVars, queryVars, diagVars, unplugged>>
        /\ step = "endpoints" /\ panelDevice = Null
    BY <1>6 DEF DiagFollowsNull, Crash
  <2>2. unplugged
    BY <2>1 DEF DiagHandle, TestHandle, Sharing
  <2> QED
    BY <2>1, <2>2 DEF HandlesAccounted, TestHandle, MainHandle, DiagHandle, Sharing,
              CrashNeedsUnplugging, handleVars, queryVars, diagVars
<1>7. CASE DiagCalls
  <2>1. /\ UNCHANGED <<handleVars, todo, awaits, history, running>> /\ step = "query" /\ step' = "call"
        /\ using'["main"] = using["main"]
        /\ using'["diag"] = (IF testDevice # Null THEN testDevice ELSE panelDevice)
    BY <1>7 DEF DiagCalls, Goto, TypeOK, Threads
  <2> QED
    BY <2>1 DEF HandlesAccounted, TestHandle, MainHandle, DiagHandle, Sharing,
              CrashNeedsUnplugging, handleVars, history
<1>8. CASE DiagEnds
  <2>1. /\ UNCHANGED <<device, panelDevice, queryVars, history, running>> /\ step = "query" /\ step' = "ended"
        /\ testDevice' = Null /\ open' = open \ {testDevice} /\ Free("diag")
    BY <1>8 DEF DiagEnds, Goto, TestDeviceCloses
  <2>2. testDevice # Null => panelDevice = Null
    BY DEF TestHandle
  <2>3. HandlesAccounted' /\ TestHandle' /\ CrashNeedsUnplugging'
    BY <2>1, <2>2 DEF HandlesAccounted, TestHandle, CrashNeedsUnplugging, history
  <2>4. MainHandle'
    BY <2>1, <2>2 DEF MainHandle, HandlesAccounted, queryVars
  <2>5. DiagHandle'
    BY <2>1 DEF DiagHandle, Sharing, Free, Between, queryVars
  <2> QED
    BY <2>3, <2>4, <2>5
<1> QED
  BY <1>2, <1>3, <1>4, <1>5, <1>6, <1>7, <1>8 DEF Diagnostics

\* The account of the handles holds in every reachable state.
LEMMA HandlesInductive == Spec => []HandleInvariant
<1>1. Init => HandleInvariant
  <2> SUFFICES ASSUME Init PROVE HandleInvariant
    OBVIOUS
  <2>1. todo["main"] = <<>> /\ todo["diag"] = <<>> /\ awaits["main"] = "none" /\ awaits["diag"] = "none"
    BY DEF Init, Threads
  <2> QED
    BY <2>1, InitType DEF Init, HandleInvariant, HandlesAccounted, TestHandle, MainHandle, DiagHandle,
       Sharing, CrashNeedsUnplugging
<1>2. HandleInvariant /\ [Next]_vars => HandleInvariant'
  <2> SUFFICES ASSUME HandleInvariant, [Next]_vars
               PROVE  HandleInvariant'
    OBVIOUS
  <2>1. TypeOK'
    BY NextType DEF HandleInvariant
  <2>2. CASE UNCHANGED vars
    BY <2>1, <2>2 DEF vars, handleVars, queryVars, diagVars, history, HandleInvariant, HandlesAccounted,
       TestHandle, MainHandle, DiagHandle, Sharing, CrashNeedsUnplugging
  <2> QED
    BY <2>1, <2>2, TransferHandles, MainHandles, DiagHandles DEF Next
<1> QED
  BY <1>1, <1>2, PTL DEF Spec

\* The devices that are open are those the panel and the diagnostics hold, whatever the
\* order in which the two threads open and close.
THEOREM PanelHandles == Spec => []HandlesAccounted
BY HandlesInductive, PTL DEF HandleInvariant

\* Only a disconnect while the diagnostics share the device makes a pointer dangle.
THEOREM PanelCrash == Spec => []CrashNeedsUnplugging
BY HandlesInductive, PTL DEF HandleInvariant

\* While the diagnostics have a device of their own no query of the main thread is under way.
THEOREM PanelAlone == Spec => []TestDeviceAlone
<1>1. HandleInvariant => TestDeviceAlone
  BY PanelAssumption DEF HandleInvariant, TypeOK, TestHandle, MainHandle, TestDeviceAlone
<1> QED
  BY <1>1, HandlesInductive, PTL
-----------------------------------------------------------------------------
(* Queries and answers.                                                    *)

\* What a transfer does to the pipe as long as nothing is left behind: it sends a query
\* and waits, takes an answer and waits no more, or leaves pipe and waiting alone.
LEMMA TransferPipe ==
  ASSUME TypeOK, NEW t \in Threads, Transfer(t), ~desynced', ~crashed'
  PROVE  /\ ~desynced /\ ~crashed
         /\ overlapped => overlapped'
         /\ \A u \in Threads \ {t} : awaits'[u] = awaits[u]
         /\ \/ /\ awaits[t] = "none" /\ awaits'[t] \in Queries
               /\ pipe' = Append(pipe, awaits'[t])
               /\ overlapped' = (overlapped \/ \E u \in Threads \ {t} : awaits[u] # "none")
               /\ UNCHANGED confused
            \/ /\ awaits[t] # "none" /\ awaits'[t] = "none"
               /\ pipe # <<>> /\ pipe' = Tail(pipe)
               /\ confused' = (confused \/ Head(pipe) # awaits[t])
               /\ UNCHANGED overlapped
            \/ UNCHANGED <<pipe, awaits, overlapped, confused>>
<1>1. \A u \in Threads \ {t} : awaits'[u] = awaits[u]
  BY TransferWork
<1>2. /\ todo[t] \in Seq(Queries \cup {"mute"})
      /\ awaits \in [Threads -> Queries \cup {"mute", "none"}]
  BY DEF TypeOK
<1>3. CASE Send(t)
  <2>1. Head(todo[t]) \in Queries
    <3>1. todo[t] # <<>> /\ Head(todo[t]) # "mute"
      BY <1>3 DEF Send, Called
    <3> QED
      BY <1>2, <3>1
  <2>2. awaits'[t] = Head(todo[t]) /\ pipe' = Append(pipe, Head(todo[t])) /\ awaits[t] = "none"
    BY <1>2, <1>3, <2>1 DEF Send, Called, Written, Between, Queries
  <2> QED
    BY <1>1, <1>3, <2>1, <2>2 DEF Send
<1>4. CASE SendFails(t)
  BY <1>1, <1>4 DEF SendFails, Skip
<1>5. CASE SendToNull(t) \/ SendToFreed(t)
  BY <1>1, <1>5 DEF SendToNull, SendToFreed, Skip, Crash, history
<1>6. CASE Receive(t)
  BY <1>1, <1>2, <1>6 DEF Receive, Returns
<1>7. CASE ReceiveFails(t) \/ ReceiveOnFreed(t)
  BY <1>7 DEF ReceiveFails, ReceiveOnFreed, Crash
<1> QED
  BY <1>3, <1>4, <1>5, <1>6, <1>7 DEF Transfer

\* Every other action leaves the pipe and the waiting threads alone.
LEMMA OthersSparePipe ==
  ASSUME [Next]_vars, ~\E t \in Threads : Transfer(t)
  PROVE  /\ UNCHANGED <<pipe, awaits, overlapped, desynced, confused>>
         /\ crashed => crashed'
<1>1. CASE UNCHANGED vars
  BY <1>1 DEF vars, queryVars, history
<1>2. CASE \/ ConnectOpens \/ ConnectRefused \/ DisconnectLaser
           \/ RefreshStatus \/ WindowQuery \/ SendHexCommand
           \/ RunDiagnostics \/ DiagnosticsBlock
  BY <1>2 DEF ConnectOpens, ConnectRefused, DisconnectLaser, RefreshStatus, WindowQuery,
     SendHexCommand, RunDiagnostics, DiagnosticsBlock, MainQueries, queryVars, history
<1>3. CASE Diagnostics
  BY <1>3 DEF Diagnostics, DiagSearch, DiagCheck, DiagOpens, DiagRefused, DiagEndpoints,
     DiagFollowsNull, DiagCalls, DiagEnds, DiagQueries, Crash, queryVars, history
<1> QED
  BY <1>1, <1>2, <1>3 DEF Next

\* Until an answer is left behind there is one unread answer per waiting thread.
THEOREM PanelAnswers == Spec => []OneAnswerPerRead
<1>1. Init => OneAnswerPerRead
  BY DEF Init, OneAnswerPerRead, Threads
<1>2. TypeOK /\ OneAnswerPerRead /\ [Next]_vars => OneAnswerPerRead'
  <2> SUFFICES ASSUME TypeOK, OneAnswerPerRead, [Next]_vars, ~desynced', ~crashed'
               PROVE  Len(pipe') = (IF awaits'["main"] = "none" THEN 0 ELSE 1)
                                   + (IF awaits'["diag"] = "none" THEN 0 ELSE 1)
    BY DEF OneAnswerPerRead
  <2>1. ASSUME NEW t \in Threads, Transfer(t)
        PROVE  Len(pipe') = (IF awaits'["main"] = "none" THEN 0 ELSE 1)
                            + (IF awaits'["diag"] = "none" THEN 0 ELSE 1)
    <3>1. pipe \in Seq(Queries)
      BY DEF TypeOK
    <3>2. \A query \in Queries : Len(Append(pipe, query)) = Len(pipe) + 1
      BY <3>1
    <3>3. pipe # <<>> => Len(Tail(pipe)) = Len(pipe) - 1
      BY <3>1
    <3>4. Len(pipe) \in Nat /\ "none" \notin Queries
      BY <3>1 DEF Queries
    <3>5. CASE t = "main"
      BY <2>1, <3>2, <3>3, <3>4, <3>5, TransferPipe DEF OneAnswerPerRead, Threads
    <3>6. CASE t = "diag"
      BY <2>1, <3>2, <3>3, <3>4, <3>6, TransferPipe DEF OneAnswerPerRead, Threads
    <3> QED
      BY <3>5, <3>6 DEF Threads
  <2>2. CASE ~\E t \in Threads : Transfer(t)
    BY <2>2, OthersSparePipe DEF OneAnswerPerRead
  <2> QED
    BY <2>1, <2>2
<1> QED
  BY <1>1, <1>2, PanelType, PTL DEF Spec

\* Two threads on one device mix up their answers only by overlapping, or after an
\* answer was left behind.
THEOREM PanelOwnAnswers == Spec => []OwnAnswers
<1> DEFINE Paired == PipePaired /\ OwnAnswers
<1>1. Init => Paired
  BY DEF Init, PipePaired, OwnAnswers, Threads
<1>2. TypeOK /\ Paired /\ [Next]_vars => Paired'
  <2> SUFFICES ASSUME TypeOK, Paired, [Next]_vars
               PROVE  Paired'
    OBVIOUS
  <2>1. ASSUME NEW t \in Threads, Transfer(t), ~desynced', ~crashed', ~overlapped'
        PROVE  Paired'
    <3>1. ~desynced /\ ~crashed /\ ~overlapped /\ ~confused
      BY <2>1, TransferPipe DEF OwnAnswers
    <3>2. \A query \in Queries : /\ Append(<<>>, query) = <<query>>
                                 /\ Head(<<query>>) = query /\ Tail(<<query>>) = <<>>
      OBVIOUS
    <3>3. "none" \notin Queries /\ pipe \in Seq(Queries)
      BY DEF Queries, TypeOK
    <3>4. \A query : pipe = <<query>> => Head(pipe) = query /\ Tail(pipe) = <<>>
      BY <3>3
    <3>5. CASE t = "main"
      BY <2>1, <3>1, <3>2, <3>3, <3>4, <3>5, TransferPipe DEF PipePaired, OwnAnswers, Threads
    <3>6. CASE t = "diag"
      BY <2>1, <3>1, <3>2, <3>3, <3>4, <3>6, TransferPipe DEF PipePaired, OwnAnswers, Threads
    <3> QED
      BY <3>5, <3>6 DEF Threads
  <2>2. ASSUME NEW t \in Threads, Transfer(t), crashed'
        PROVE  Paired'
    <3>1. confused' => confused
      BY <2>2 DEF Transfer, Send, SendFails, SendToNull, SendToFreed, Receive, ReceiveFails,
                  ReceiveOnFreed, Crash, history
    <3>2. overlapped => overlapped'
      BY <2>2 DEF Transfer, Send, SendFails, SendToNull, SendToFreed, Receive, ReceiveFails,
                  ReceiveOnFreed, Crash, history
    <3>3. desynced => desynced'
      BY <2>2 DEF Transfer, Send, SendFails, SendToNull, SendToFreed, Receive, ReceiveFails,
                  ReceiveOnFreed, Crash, history
    <3> QED
      BY <2>2, <3>1, <3>2, <3>3 DEF PipePaired, OwnAnswers
  <2>3. ASSUME desynced' \/ overlapped'
        PROVE  Paired'
    BY <2>3 DEF PipePaired, OwnAnswers
  <2>4. CASE ~\E t \in Threads : Transfer(t)
    BY <2>4, OthersSparePipe DEF PipePaired, OwnAnswers
  <2> QED
    BY <2>1, <2>2, <2>3, <2>4
<1> QED
  BY <1>1, <1>2, PanelType, PTL DEF Spec

\* As long as no answer was left behind, a thread that reads finds an answer in the
\* pipe and its handle open; only the diagnostics can lose theirs, to a disconnect.
\* No thread waits for an answer that the other one has taken.
ReaderServed ==
  ~crashed /\ ~desynced =>
    \A t \in Threads :
      awaits[t] # "none" => pipe # <<>> /\ (using[t] \in open \/ (t = "diag" /\ unplugged))

\* The safety half of QueriesReturn: whoever reads has an answer to read.
THEOREM PanelReaders == Spec => []ReaderServed
<1>1. HandleInvariant /\ OneAnswerPerRead => ReaderServed
  <2> SUFFICES ASSUME HandleInvariant, OneAnswerPerRead, ~crashed, ~desynced,
                      NEW t \in Threads, awaits[t] # "none"
               PROVE  pipe # <<>> /\ (using[t] \in open \/ (t = "diag" /\ unplugged))
    BY DEF ReaderServed
  <2>1. pipe # <<>>
    <3>1. Len(pipe) # 0
      BY DEF OneAnswerPerRead, Threads
    <3> QED
      BY <3>1
  <2>2. CASE t = "main"
    BY <2>1, <2>2 DEF HandleInvariant, MainHandle
  <2>3. CASE t = "diag" /\ ~unplugged
    <3>1. /\ step \in {"query", "call"}
          /\ using["diag"] = (IF testDevice # Null THEN testDevice ELSE panelDevice)
      BY <2>3 DEF HandleInvariant, DiagHandle
    <3>2. testDevice = Null => panelDevice # Null
      BY <2>3, <3>1 DEF HandleInvariant, DiagHandle, Sharing
    <3> QED
      BY <2>1, <2>3, <3>1, <3>2 DEF HandleInvariant, HandlesAccounted
  <2> QED
    BY <2>1, <2>2, <2>3 DEF Threads
<1> QED
  BY <1>1, HandlesInductive, PanelAnswers, PTL

-----------------------------------------------------------------------------
(* The diagnostics come to an end if they go on at all.                    *)

\* How many steps the diagnostics may still make before their last block, from place st
\* with n queries to come: three for each (the call, the write, the read), less what is
\* under way.
Left(st, n, await) ==
  IF st = "query" THEN 1 + 3 * n + (IF await = "none" THEN 0 ELSE 1)
  ELSE IF st = "call" THEN 3 * n
  ELSE [search |-> 13, check |-> 12, open |-> 11, endpoints |-> 11, ended |-> 0, off |-> 0][st]

DiagLeft == Left(step, Len(todo["diag"]), awaits["diag"])

\* Its values, place by place.
LEMMA LeftValues ==
  ASSUME NEW n \in Nat, NEW r
  PROVE  /\ Left("search", n, r) = 13 /\ Left("check", n, r) = 12
         /\ Left("open", n, r) = 11 /\ Left("endpoints", n, r) = 11
         /\ r # "none" => Left("query", n, r) = 2 + 3 * n
         /\ Left("query", n, "none") = 1 + 3 * n
         /\ Left("call", n, r) = 3 * n
         /\ Left("off", n, r) = 0 /\ Left("ended", n, r) = 0
BY DEF Left

\* It is a number of steps everywhere.
LEMMA LeftNat ==
  ASSUME NEW st \in Steps, NEW n \in Nat, NEW r
  PROVE  Left(st, n, r) \in Nat
BY LeftValues DEF Steps

DiagStep == Diagnostics \/ Transfer("diag")

\* A query that was called is the next one, and its answer is not awaited yet.
CallReady == step = "call" => awaits["diag"] = "none" /\ todo["diag"] # <<>>

\* What a transfer of the diagnostics does to their list, their waiting and their place.
LEMMA DiagTransfer ==
  ASSUME TypeOK, CallReady, DiagHandle, Transfer("diag")
  PROVE  \/ crashed' /\ UNCHANGED <<step, todo, awaits>>
         \/ /\ step = "call" /\ step' = "query"
            /\ todo["diag"] # <<>> /\ todo'["diag"] = Tail(todo["diag"])
         \/ /\ step = "query" /\ step' = "query"
            /\ awaits["diag"] # "none" /\ awaits'["diag"] = "none"
            /\ todo'["diag"] = todo["diag"]
<1>1. /\ todo \in [Threads -> Seq(Queries \cup {"mute"})]
      /\ awaits \in [Threads -> Queries \cup {"mute", "none"}] /\ "diag" \in Threads
  BY DEF TypeOK, Threads
<1>2. awaits["diag"] # "none" => step = "query"
  BY DEF DiagHandle, CallReady
<1>3. CASE Send("diag") \/ SendFails("diag") \/ SendToNull("diag")
  BY <1>1, <1>3 DEF Send, SendFails, SendToNull, Called, Skip, Leaves
<1>4. CASE SendToFreed("diag")
  BY <1>1, <1>4 DEF SendToFreed, Called, Skip, Leaves, Crash, queryVars, diagVars
<1>5. CASE Receive("diag") \/ ReceiveFails("diag")
  BY <1>1, <1>2, <1>5 DEF Receive, ReceiveFails, Returns, diagVars
<1>6. CASE ReceiveOnFreed("diag")
  BY <1>1, <1>2, <1>6 DEF ReceiveOnFreed, Returns, Crash, queryVars, diagVars
<1> QED
  BY <1>3, <1>4, <1>5, <1>6 DEF Transfer

\* One step of the diagnostics of their own.
LEMMA DiagAdvance ==
  ASSUME TypeOK, CallReady, DiagHandle, Diagnostics
  PROVE  /\ CallReady'
         /\ DiagLeft' < DiagLeft \/ (crashed' /\ DiagLeft' = DiagLeft)
<1>t. Len(todo["diag"]) \in Nat /\ (todo["diag"] = <<>> <=> Len(todo["diag"]) = 0)
  <2>1. todo["diag"] \in Seq(Queries \cup {"mute"})
    BY DEF TypeOK, Threads
  <2> QED
    BY <2>1
<1> USE LeftValues DEF DiagLeft, CallReady
<1>1. CASE DiagSearch
  <2>1. step = "search" /\ step' \in {"check", "ended"}
    BY <1>1 DEF DiagSearch, Goto
  <2>2. DiagLeft = 13 /\ DiagLeft' \in {12, 0}
    BY <2>1
  <2> QED
    BY <2>1, <2>2
<1>2. CASE DiagCheck
  <2>1. step = "check" /\ step' \in {"endpoints", "open"}
    BY <1>2 DEF DiagCheck, Goto
  <2>2. DiagLeft = 12 /\ DiagLeft' = 11
    BY <2>1
  <2> QED
    BY <2>1, <2>2
<1>3. CASE DiagOpens \/ DiagEndpoints
  <2>1. /\ step \in {"open", "endpoints"} /\ step' = "query"
        /\ todo'["diag"] = <<"firmware", "status", "position">>
        /\ UNCHANGED awaits
    BY <1>3 DEF DiagOpens, DiagEndpoints, Goto, DiagQueries, TypeOK, Threads
  <2>2. awaits["diag"] = "none" /\ Len(<<"firmware", "status", "position">>) = 3
    BY <2>1 DEF DiagHandle
  <2>3. DiagLeft = 11 /\ DiagLeft' = Left("query", 3, "none")
    BY <2>1, <2>2
  <2> QED
    BY <2>1, <2>3
<1>4. CASE DiagRefused
  <2>1. step = "open" /\ step' = "ended"
    BY <1>4 DEF DiagRefused, Goto
  <2>2. DiagLeft = 11 /\ DiagLeft' = 0
    BY <2>1
  <2> QED
    BY <2>1, <2>2
<1>5. CASE DiagFollowsNull
  BY <1>5 DEF DiagFollowsNull, Crash, queryVars, diagVars
<1>6. CASE DiagCalls
  <2>1. /\ step = "query" /\ step' = "call" /\ UNCHANGED <<todo, awaits>>
        /\ awaits["diag"] = "none" /\ todo["diag"] # <<>>
    BY <1>6 DEF DiagCalls, Goto, Between
  <2>2. DiagLeft = 1 + 3 * Len(todo["diag"]) /\ DiagLeft' = 3 * Len(todo["diag"])
    BY <1>t, <2>1
  <2> QED
    BY <1>t, <2>1, <2>2
<1>7. CASE DiagEnds
  <2>1. step = "query" /\ step' = "ended" /\ awaits["diag"] = "none" /\ todo["diag"] = <<>>
    BY <1>7 DEF DiagEnds, Goto, Free, Between
  <2>2. DiagLeft = 1 /\ DiagLeft' = 0
    BY <1>t, <2>1
  <2> QED
    BY <2>1, <2>2
<1> QED
  BY <1>1, <1>2, <1>3, <1>4, <1>5, <1>6, <1>7 DEF Diagnostics

\* One transfer of theirs.
LEMMA DiagTransferAdvances ==
  ASSUME TypeOK, CallReady, DiagHandle, Transfer("diag")
  PROVE  /\ CallReady'
         /\ DiagLeft' < DiagLeft \/ (crashed' /\ DiagLeft' = DiagLeft)
<1>t. todo["diag"] \in Seq(Queries \cup {"mute"})
  BY DEF TypeOK, Threads
<1>1. CASE crashed' /\ UNCHANGED <<step, todo, awaits>>
  BY <1>1 DEF CallReady, DiagLeft
<1>2. CASE /\ step = "call" /\ step' = "query"
           /\ todo["diag"] # <<>> /\ todo'["diag"] = Tail(todo["diag"])
  <2>1. Len(todo["diag"]) \in Nat \ {0} /\ Len(todo'["diag"]) = Len(todo["diag"]) - 1
    BY <1>t, <1>2
  <2>2. /\ DiagLeft = 3 * Len(todo["diag"])
        /\ DiagLeft' \in {1 + 3 * Len(todo'["diag"]), 2 + 3 * Len(todo'["diag"])}
    <3>1. DiagLeft = 3 * Len(todo["diag"])
      BY <1>2, LeftValues DEF DiagLeft
    <3>2. Len(todo'["diag"]) \in Nat
      BY <2>1
    <3>3. DiagLeft' \in {1 + 3 * Len(todo'["diag"]), 2 + 3 * Len(todo'["diag"])}
      BY <1>2, <3>2, LeftValues DEF DiagLeft
    <3> QED
      BY <3>1, <3>3
  <2> QED
    BY <1>2, <2>1, <2>2 DEF CallReady
<1>3. CASE /\ step = "query" /\ step' = "query"
           /\ awaits["diag"] # "none" /\ awaits'["diag"] = "none"
           /\ todo'["diag"] = todo["diag"]
  <2>1. Len(todo["diag"]) \in Nat
    BY <1>t
  <2>2. DiagLeft = 2 + 3 * Len(todo["diag"]) /\ DiagLeft' = 1 + 3 * Len(todo["diag"])
    BY <1>3, <2>1, LeftValues DEF DiagLeft
  <2> QED
    BY <1>3, <2>1, <2>2 DEF CallReady
<1> QED
  BY <1>1, <1>2, <1>3, DiagTransfer

\* What the main thread, and a start of the diagnostics, do to it.
LEMMA MainSparesDiag ==
  ASSUME TypeOK, CallReady, [Next]_vars, ~DiagStep
  PROVE  /\ CallReady'
         /\ IF RunDiagnostics THEN DiagLeft' = 13 ELSE DiagLeft' = DiagLeft
<1> USE DEF CallReady, DiagLeft
<1>1. CASE RunDiagnostics
  <2>1. step' = "search" /\ UNCHANGED <<todo, awaits>>
    BY <1>1 DEF RunDiagnostics, queryVars
  <2>2. Len(todo["diag"]) \in Nat
    <3>1. todo["diag"] \in Seq(Queries \cup {"mute"})
      BY DEF TypeOK, Threads
    <3> QED
      BY <3>1
  <2>3. DiagLeft' = 13
    BY <2>1, <2>2, LeftValues
  <2> QED
    BY <1>1, <2>1, <2>3
<1>2. CASE DiagnosticsBlock
  BY <1>2, LeftValues DEF DiagnosticsBlock, DiagnosticsComplete, RunDiagnostics, queryVars
<1>3. CASE UNCHANGED vars
  BY <1>3 DEF vars, queryVars, diagVars, RunDiagnostics
<1>4. CASE Transfer("main")
  <2>1. UNCHANGED <<step, running>> /\ todo'["diag"] = todo["diag"] /\ awaits'["diag"] = awaits["diag"]
    BY <1>4, TransferSpares, TransferWork DEF Threads
  <2> QED
    BY <2>1 DEF RunDiagnostics
<1>5. CASE \/ ConnectOpens \/ ConnectRefused \/ DisconnectLaser
           \/ RefreshStatus \/ WindowQuery \/ SendHexCommand
  <2>1. UNCHANGED <<step, running, awaits>> /\ todo'["diag"] = todo["diag"]
    BY <1>5 DEF ConnectOpens, ConnectRefused, DisconnectLaser, RefreshStatus, WindowQuery,
       SendHexCommand, MainQueries, queryVars, diagVars, TypeOK, Threads
  <2> QED
    BY <2>1 DEF RunDiagnostics
<1> QED
  BY <1>1, <1>2, <1>3, <1>4, <1>5 DEF Next, DiagStep, Threads

\* Every step the diagnostics make, of their own or a transfer, brings them closer to
\* their last block, whatever the main thread does to the device, the pipe and the
\* handles meanwhile; nothing but a new start sends them back, and a run makes at
\* most 13 of those steps.
DiagAdvances ==
  [][/\ DiagStep => DiagLeft' < DiagLeft \/ (crashed' /\ DiagLeft' = DiagLeft)
     /\ ~DiagStep => DiagLeft' = (IF RunDiagnostics THEN 13 ELSE DiagLeft)]_vars

\* The safety half of DiagnosticsEnd: thirteen steps at most, and none of them twice.
THEOREM PanelDiagAdvances == Spec => DiagAdvances /\ [](DiagLeft \in 0..13)
<1> DEFINE Ranked == CallReady /\ DiagLeft \in 0..13
<1>1. Init => Ranked
  BY LeftValues DEF Init, CallReady, DiagLeft
<1>2. HandleInvariant /\ Ranked /\ [Next]_vars
        => /\ DiagStep => DiagLeft' < DiagLeft \/ (crashed' /\ DiagLeft' = DiagLeft)
           /\ ~DiagStep => DiagLeft' = (IF RunDiagnostics THEN 13 ELSE DiagLeft)
           /\ CallReady'
  BY DiagAdvance, DiagTransferAdvances, MainSparesDiag DEF HandleInvariant, DiagStep
<1>3. HandleInvariant /\ HandleInvariant' /\ Ranked /\ [Next]_vars => Ranked'
  <2> SUFFICES ASSUME HandleInvariant, HandleInvariant', Ranked, [Next]_vars
               PROVE  Ranked'
    OBVIOUS
  <2>1. /\ step \in Steps /\ Len(todo["diag"]) \in Nat
        /\ step' \in Steps /\ Len(todo'["diag"]) \in Nat
    <3>1. /\ step \in Steps /\ todo["diag"] \in Seq(Queries \cup {"mute"})
          /\ step' \in Steps /\ todo'["diag"] \in Seq(Queries \cup {"mute"})
      BY DEF HandleInvariant, TypeOK, Threads
    <3> QED
      BY <3>1
  <2>2. DiagLeft \in Nat /\ DiagLeft' \in Nat
    BY <2>1, LeftNat DEF DiagLeft
  <2> QED
    BY <1>2, <2>2
<1> QED
  BY <1>1, <1>2, <1>3, HandlesInductive, PTL DEF Spec, DiagAdvances
=============================================================================
