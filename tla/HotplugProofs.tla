--------------------------- MODULE HotplugProofs ----------------------------
(* What TLAPS proves of Hotplug, for every number of events. *)
EXTENDS Hotplug, TLAPS

\* The types of the globals, the thread's place and the iterators.
THEOREM TypeCorrect == Spec => []TypeOK
<1>1. Init => TypeOK
  <2> SUFFICES ASSUME Init PROVE TypeOK
    OBVIOUS
  <2>1. events \in 0..MaxEvents /\ handling \in Kinds
    BY EventsAssumption DEF Init, Kinds
  <2>2. pending \in [Kinds -> Nat]
    BY DEF Init
  <2> QED
    BY <2>1, <2>2 DEF Init, TypeOK
<1>2. TypeOK /\ [Next]_vars => TypeOK'
  <2> SUFFICES ASSUME TypeOK, [Next]_vars
               PROVE  TypeOK'
    OBVIOUS
  <2> USE DEF TypeOK, globals, iterators
  <2>1. CASE Register
    BY <2>1 DEF Register, ReadToTheEnd
  <2>2. CASE RegisterFails \/ Unregister
    BY <2>2 DEF RegisterFails, Unregister
  <2>3. CASE Unregistered
    BY <2>3 DEF Unregistered
  <2>4. CASE SetRunLoop \/ RunRunLoop \/ Exit \/ UserReturns
    BY <2>4 DEF SetRunLoop, RunRunLoop, Exit, UserReturns
  <2>5. CASE Callout
    BY <2>5 DEF Callout
  <2>6. CASE NextDevice
    BY <2>6 DEF NextDevice
  <2>7. CASE NoMoreDevices
    BY <2>7 DEF NoMoreDevices, CalloutEnds
  <2>8. CASE DeviceEvent
    <3>1. events' \in 0..MaxEvents /\ UNCHANGED <<client, globals, thread, handling, stop>>
      BY <2>8, EventsAssumption DEF DeviceEvent
    <3>2. pending' \in [Kinds -> Nat] /\ armed' \subseteq Kinds /\ notified' \subseteq Kinds
      BY <2>8 DEF DeviceEvent
    <3> QED
      BY <3>1, <3>2
  <2>9. CASE UNCHANGED vars
    BY <2>9 DEF vars
  <2> QED
    BY <2>1, <2>2, <2>3, <2>4, <2>5, <2>6, <2>7, <2>8, <2>9 DEF Next, ThreadStep
<1> QED
  BY <1>1, <1>2, PTL DEF Spec

\* Without a registration there is no thread that could call back.
NoThread == client = "off" => thread \in {"none", "exited"}

\* pthread_join is the last thing that waits: a thread that has left the run loop
\* takes no other step, and registration starts one only with client "on".
LEMMA ThreadAbsent == Spec => []NoThread
<1>1. Init => NoThread
  BY DEF Init, NoThread
<1>2. NoThread /\ [Next]_vars => NoThread'
  <2> SUFFICES ASSUME NoThread, [Next]_vars
               PROVE  NoThread'
    OBVIOUS
  <2> USE DEF NoThread
  <2>1. CASE Register \/ RegisterFails \/ Unregister
    BY <2>1 DEF Register, RegisterFails, Unregister
  <2>2. CASE Unregistered
    BY <2>2 DEF Unregistered, Joined
  <2>3. CASE ThreadStep
    BY <2>3 DEF ThreadStep, SetRunLoop, RunRunLoop, Callout, NextDevice, UserReturns,
                NoMoreDevices, CalloutEnds, Exit
  <2>4. CASE DeviceEvent
    BY <2>4 DEF DeviceEvent
  <2>5. CASE UNCHANGED vars
    BY <2>5 DEF vars
  <2> QED
    BY <2>1, <2>2, <2>3, <2>4, <2>5 DEF Next
<1> QED
  BY <1>1, <1>2, PTL DEF Spec

\* After unregistration nothing calls back.
THEOREM Quiet == Spec => []QuietWhenUnregistered
<1>1. NoThread => QuietWhenUnregistered
  BY DEF NoThread, QuietWhenUnregistered, InRunLoop
<1> QED
  BY <1>1, ThreadAbsent, PTL

-----------------------------------------------------------------------------
(* What the two threads share without a lock.                              *)

\* As long as the thread may call out, what its callouts use is there: the stored
\* callback and the port with its iterators from the start, the run loop from the
\* thread's first step on.  Nothing is released under it, and no registration
\* replaces it, although uls_unregister_hotplug_callback takes no lock.
ThreadResources ==
  thread \notin {"none", "exited"} =>
    /\ client # "off"
    /\ callback /\ port
    /\ thread # "created" => runLoop

\* The flag the client tests, its own state and the stop of the run loop agree: a
\* second registration is refused exactly while one is in force, only an
\* unregistration stops the loop, only a stop ends the thread, and the iterators
\* last as long as the registration.
FlagsAgree ==
  /\ running <=> client = "on"
  /\ stop # "no" => client # "on" /\ (InRunLoop \/ thread = "exited")
  /\ thread = "exited" => stop # "no"
  /\ client # "off" => port

\* Holds from registration to the return of uls_unregister_hotplug_callback, through
\* bursts, races of the stop with the start of the run loop, and re-registration.
THEOREM ResourcesOutliveThread == Spec => [](ThreadResources /\ FlagsAgree)
<1>1. Init => ThreadResources /\ FlagsAgree
  BY DEF Init, ThreadResources, FlagsAgree
<1>2. NoThread /\ ThreadResources /\ FlagsAgree /\ [Next]_vars => (ThreadResources /\ FlagsAgree)'
  <2> SUFFICES ASSUME NoThread, ThreadResources, FlagsAgree, [Next]_vars
               PROVE  (ThreadResources /\ FlagsAgree)'
    OBVIOUS
  <2> USE DEF ThreadResources, FlagsAgree, InRunLoop, globals, iterators
  <2>1. CASE Register
    BY <2>1 DEF Register
  <2>2. CASE RegisterFails
    BY <2>2 DEF RegisterFails, NoThread
  <2>3. CASE Unregister
    BY <2>3 DEF Unregister
  <2>4. CASE Unregistered
    BY <2>4 DEF Unregistered, Joined
  <2>5. CASE SetRunLoop \/ RunRunLoop
    BY <2>5 DEF SetRunLoop, RunRunLoop
  <2>6. CASE Callout
    BY <2>6 DEF Callout
  <2>7. CASE NextDevice
    BY <2>7 DEF NextDevice
  <2>8. CASE UserReturns \/ NoMoreDevices
    BY <2>8 DEF UserReturns, NoMoreDevices, CalloutEnds
  <2>9. CASE Exit
    BY <2>9 DEF Exit
  <2>10. CASE DeviceEvent
    BY <2>10 DEF DeviceEvent
  <2>11. CASE UNCHANGED vars
    BY <2>11 DEF vars
  <2> QED
    BY <2>1, <2>2, <2>3, <2>4, <2>5, <2>6, <2>7, <2>8, <2>9, <2>10, <2>11 DEF Next, ThreadStep
<1> QED
  BY <1>1, <1>2, ThreadAbsent, PTL DEF Spec

-----------------------------------------------------------------------------
(* A stop that comes too early.                                            *)

\* The client waits in pthread_join for a thread whose run loop was not told to stop:
\* CFRunLoopStop found no run loop running (or gRunLoop was still NULL).
StopMissed == client = "join" /\ stop = "no"

\* Such a wait never ends: no step of the thread, of a device or of the client leads
\* out of it.  What UnregisterReturns says of an unregistration that found the loop
\* running cannot be said of the others.
THEOREM MissedStopHangs == Spec => [][StopMissed => StopMissed']_vars
<1>1. FlagsAgree /\ [Next]_vars => [StopMissed => StopMissed']_vars
  <2> SUFFICES ASSUME FlagsAgree, Next, StopMissed
               PROVE  StopMissed'
    OBVIOUS
  <2> USE DEF StopMissed
  <2>1. ~Register /\ ~RegisterFails /\ ~Unregister
    BY DEF Register, RegisterFails, Unregister
  <2>2. ~Unregistered
    BY DEF Unregistered, Joined, FlagsAgree
  <2>3. CASE ThreadStep
    BY <2>3 DEF ThreadStep, SetRunLoop, RunRunLoop, Callout, NextDevice, UserReturns,
                NoMoreDevices, Exit
  <2>4. CASE DeviceEvent
    BY <2>4 DEF DeviceEvent
  <2> QED
    BY <2>1, <2>2, <2>3, <2>4 DEF Next
<1> QED
  BY <1>1, ResourcesOutliveThread, PTL DEF Spec

-----------------------------------------------------------------------------
(* No device is forgotten.                                                 *)

\* The thread reads iterator k in a callout.
Reads(k) == thread \in {"callout", "user"} /\ handling = k

\* An armed iterator is empty, and one that is not armed has a notification in the
\* port or is being read.
ArmedOrServed ==
  port => \A k \in Kinds :
            /\ k \in armed => pending[k] = 0
            /\ k \notin armed => k \in notified \/ Reads(k)

\* No wakeup is lost: a device that came or went has a notification waiting for it or
\* a callout reading its iterator, also when it comes between registration's reading
\* and the run loop, or into an iterator that is being read.
DeviceWakes == port => \A k \in Kinds : pending[k] > 0 => k \in notified \/ Reads(k)

\* With it EventsHandled asks of the run loop only that it delivers what waits for it.
THEOREM NoLostWakeup == Spec => []DeviceWakes
<1>1. Init => ArmedOrServed
  BY DEF Init, ArmedOrServed
<1>2. TypeOK /\ ArmedOrServed /\ [Next]_vars => ArmedOrServed'
  <2> SUFFICES ASSUME TypeOK, ArmedOrServed, [Next]_vars, port'
               PROVE  \A k \in Kinds : /\ k \in armed' => pending'[k] = 0
                                       /\ k \notin armed' => k \in notified' \/ Reads(k)'
    BY DEF ArmedOrServed
  <2> TAKE k \in Kinds
  <2>t. pending \in [Kinds -> Nat] /\ armed \subseteq Kinds /\ notified \subseteq Kinds
    BY DEF TypeOK
  <2> USE DEF ArmedOrServed, Reads, globals, iterators
  <2>1. CASE Register
    BY <2>1 DEF Register, ReadToTheEnd
  <2>2. CASE RegisterFails \/ Unregister
    BY <2>2 DEF RegisterFails, Unregister
  <2>3. CASE Unregistered
    BY <2>3 DEF Unregistered
  <2>4. CASE SetRunLoop \/ RunRunLoop \/ Exit
    BY <2>4 DEF SetRunLoop, RunRunLoop, Exit
  <2>5. CASE Callout
    <3>1. ~Reads(k)
      BY <2>5 DEF Callout
    <3>2. UNCHANGED <<port, pending, armed>> /\ notified' = notified \ {handling'}
          /\ thread' = "callout"
      BY <2>5 DEF Callout
    <3> QED
      BY <3>1, <3>2
  <2>6. CASE NextDevice
    <3>1. UNCHANGED <<port, handling, armed, notified>> /\ thread' \in {"callout", "user"}
          /\ thread = "callout"
      BY <2>6 DEF NextDevice
    <3>2. pending[k] = 0 => pending'[k] = 0
      BY <2>6, <2>t DEF NextDevice
    <3> QED
      BY <3>1, <3>2
  <2>7. CASE UserReturns
    BY <2>7 DEF UserReturns
  <2>8. CASE NoMoreDevices
    BY <2>8 DEF NoMoreDevices, CalloutEnds
  <2>9. CASE DeviceEvent
    BY <2>9, <2>t DEF DeviceEvent
  <2>10. CASE UNCHANGED vars
    BY <2>10 DEF vars
  <2> QED
    BY <2>1, <2>2, <2>3, <2>4, <2>5, <2>6, <2>7, <2>8, <2>9, <2>10 DEF Next, ThreadStep
<1>3. TypeOK /\ ArmedOrServed => DeviceWakes
  BY DEF ArmedOrServed, DeviceWakes, TypeOK
<1> QED
  BY <1>1, <1>2, <1>3, TypeCorrect, PTL DEF Spec

-----------------------------------------------------------------------------
(* A stop that was heard.                                                  *)

\* What keeps the thread of a stopped run loop busy: the devices in the iterators and
\* those that may still come, and its own way to the end of CFRunLoopRun, with one
\* more callout if none was made since the loop was asked to stop.
WorkLeft == pending["added"] + pending["removed"] + (MaxEvents - events)
StageLeft ==
  (IF thread = "exited" THEN 0 ELSE IF thread = "loop" THEN 1
   ELSE IF thread = "callout" THEN 2 ELSE 3)
  + (IF thread # "exited" /\ stop = "asked" THEN 3 ELSE 0)
StopLeft == 2 * WorkLeft + StageLeft

\* While uls_unregister_hotplug_callback waits for a stopped run loop, every step of the
\* thread brings its end nearer, and no device that comes or goes moves it away: no
\* burst keeps the client in pthread_join, whatever its number of events.
StopAdvances ==
  [][client = "join" /\ stop # "no" =>
       (ThreadStep => StopLeft' < StopLeft) /\ (~Unregistered => StopLeft' <= StopLeft)]_vars

\* The measure is a natural number, so it cannot fall for ever.
MeasureOK == WorkLeft \in Nat /\ StageLeft \in 0..6 /\ StopLeft \in Nat
LEMMA StopLeftType == TypeOK => MeasureOK
<1> SUFFICES ASSUME TypeOK PROVE MeasureOK
  OBVIOUS
<1>1. pending["added"] \in Nat /\ pending["removed"] \in Nat
  BY DEF TypeOK, Kinds
<1>2. MaxEvents - events \in Nat
  BY EventsAssumption DEF TypeOK
<1>3. StageLeft \in 0..6
  BY DEF StageLeft
<1> QED
  BY <1>1, <1>2, <1>3 DEF MeasureOK, WorkLeft, StopLeft

\* The measure falls when the stage does, or when a device is done with and the stage
\* goes back by no more than one.
LEMMA LessLeft ==
  ASSUME NEW w1 \in Nat, NEW s1 \in Nat, NEW w2 \in Nat, NEW s2 \in Nat,
         (w2 = w1 /\ s2 < s1) \/ (w2 = w1 - 1 /\ s2 <= s1 + 1)
  PROVE  2 * w2 + s2 < 2 * w1 + s1
OBVIOUS

\* The safety half of UnregisterReturns; the other half is that the run loop runs.
THEOREM UnregisterAdvances == Spec => StopAdvances
<1>1. TypeOK /\ MeasureOK /\ MeasureOK' /\ FlagsAgree /\ [Next]_vars
      => [client = "join" /\ stop # "no" =>
            (ThreadStep => StopLeft' < StopLeft) /\ (~Unregistered => StopLeft' <= StopLeft)]_vars
  <2> SUFFICES ASSUME TypeOK, MeasureOK, MeasureOK', FlagsAgree, Next, client = "join", stop # "no"
               PROVE  (ThreadStep => StopLeft' < StopLeft)
                      /\ (~Unregistered => StopLeft' <= StopLeft)
    OBVIOUS
  <2>a. WorkLeft \in Nat /\ StageLeft \in Nat /\ StopLeft \in Nat
    BY DEF MeasureOK
  <2>b. WorkLeft' \in Nat /\ StageLeft' \in Nat /\ StopLeft' \in Nat
    BY DEF MeasureOK
  <2>c. StopLeft = 2 * WorkLeft + StageLeft
    BY DEF StopLeft
  <2>d. StopLeft' = 2 * WorkLeft' + StageLeft'
    BY DEF StopLeft
  <2>k. handling \in Kinds /\ pending["added"] \in Nat /\ pending["removed"] \in Nat
        /\ DOMAIN pending = Kinds /\ events \in Nat
    BY EventsAssumption DEF TypeOK, Kinds
  <2>w. thread \in {"loop", "callout", "user", "exited"} /\ stop \in {"asked", "last"}
    BY DEF FlagsAgree, InRunLoop, TypeOK
  <2>1. ~Register /\ ~RegisterFails /\ ~Unregister /\ ~SetRunLoop /\ ~RunRunLoop
    BY <2>w DEF Register, RegisterFails, Unregister, SetRunLoop, RunRunLoop
  <2>2. UNCHANGED iterators => WorkLeft' = WorkLeft
    BY DEF WorkLeft, iterators
  <2>3. CASE Callout
    <3>1. WorkLeft' = WorkLeft
      BY <2>3 DEF Callout, WorkLeft
    <3>2. StageLeft' < StageLeft
      BY <2>3, <2>w DEF Callout, StageLeft
    <3>3. StopLeft' < StopLeft
      BY <3>1, <3>2, <2>a, <2>b, <2>c, <2>d, LessLeft
    <3> QED
      BY <3>3, <2>a, <2>b
  <2>4. CASE NextDevice
    <3>1. WorkLeft' = WorkLeft - 1
      <4>1. /\ pending' = [pending EXCEPT ![handling] = @ - 1]
            /\ pending[handling] > 0 /\ events' = events
        BY <2>4 DEF NextDevice
      <4>2. CASE handling = "added"
        BY <4>1, <4>2, <2>k, EventsAssumption DEF WorkLeft, Kinds
      <4>3. CASE handling = "removed"
        BY <4>1, <4>3, <2>k, EventsAssumption DEF WorkLeft, Kinds
      <4> QED
        BY <4>2, <4>3, <2>k DEF Kinds
    <3>2. StageLeft' <= StageLeft + 1
      BY <2>4, <2>w DEF NextDevice, StageLeft
    <3>3. StopLeft' < StopLeft
      BY <3>1, <3>2, <2>a, <2>b, <2>c, <2>d, LessLeft
    <3> QED
      BY <3>3, <2>a, <2>b
  <2>5. CASE UserReturns \/ Exit
    <3>1. WorkLeft' = WorkLeft
      BY <2>5, <2>2 DEF UserReturns, Exit
    <3>2. StageLeft' < StageLeft
      BY <2>5, <2>w DEF UserReturns, Exit, StageLeft
    <3>3. StopLeft' < StopLeft
      BY <3>1, <3>2, <2>a, <2>b, <2>c, <2>d, LessLeft
    <3> QED
      BY <3>3, <2>a, <2>b
  <2>6. CASE NoMoreDevices
    <3>1. WorkLeft' = WorkLeft
      BY <2>6 DEF NoMoreDevices, WorkLeft
    <3>2. StageLeft' < StageLeft
      BY <2>6, <2>w DEF NoMoreDevices, CalloutEnds, StageLeft
    <3>3. StopLeft' < StopLeft
      BY <3>1, <3>2, <2>a, <2>b, <2>c, <2>d, LessLeft
    <3> QED
      BY <3>3, <2>a, <2>b
  <2>7. CASE DeviceEvent
    <3>1. WorkLeft' = WorkLeft
      <4>1. PICK k \in Kinds : pending' = [pending EXCEPT ![k] = @ + 1]
        BY <2>7 DEF DeviceEvent
      <4>2. events' = events + 1
        BY <2>7 DEF DeviceEvent
      <4>3. CASE k = "added"
        BY <4>1, <4>2, <4>3, <2>k, EventsAssumption DEF WorkLeft, Kinds
      <4>4. CASE k = "removed"
        BY <4>1, <4>2, <4>4, <2>k, EventsAssumption DEF WorkLeft, Kinds
      <4> QED
        BY <4>3, <4>4 DEF Kinds
    <3>2. StageLeft' = StageLeft
      BY <2>7 DEF DeviceEvent, StageLeft
    <3>3. ~ThreadStep
      <4>1. events' # events
        BY <2>7, <2>k DEF DeviceEvent
      <4> QED
        BY <4>1 DEF ThreadStep, SetRunLoop, RunRunLoop, Callout, NextDevice, UserReturns,
                    NoMoreDevices, Exit, iterators
    <3>4. StopLeft' <= StopLeft
      BY <3>1, <3>2, <2>a, <2>b, <2>c, <2>d, LessLeft
    <3> QED
      BY <3>3, <3>4
  <2>8. CASE Unregistered
    <3>1. ~ThreadStep
      BY <2>8 DEF Unregistered, ThreadStep, SetRunLoop, RunRunLoop, Callout, NextDevice,
                  UserReturns, NoMoreDevices, Exit
    <3> QED
      BY <3>1, <2>8
  <2> QED
    BY <2>1, <2>3, <2>4, <2>5, <2>6, <2>7, <2>8 DEF Next, ThreadStep
<1> QED
  BY <1>1, StopLeftType, TypeCorrect, ResourcesOutliveThread, PTL DEF Spec, StopAdvances
=============================================================================
