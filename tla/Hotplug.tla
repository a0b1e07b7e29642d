------------------------------ MODULE Hotplug -------------------------------
(***************************************************************************)
(* The hotplug notifications of uls_usb.c: a client that registers and     *)
(* unregisters its callback, the notification thread that runs it, and the *)
(* devices that come and go meanwhile.                                     *)
(*                                                                         *)
(* The globals are shared without a lock.  The IOKit iterators and the run *)
(* loop are external: an iterator notifies again only after it was read to *)
(* its end, and CFRunLoopStop stops a loop that runs, no later one.        *)
(*                                                                         *)
(* Left out: a callback that unregisters itself, a second client thread,   *)
(* failing creation of the thread, and what the client does with a device. *)
(***************************************************************************)
EXTENDS Naturals

CONSTANTS
  MaxEvents  \* bound: devices plugged in or out

ASSUME EventsAssumption == MaxEvents \in Nat

Kinds == {"added", "removed"}

VARIABLES
  client,     \* the client: "off", "on" (registered), "join" (in unregister)
  callback,   \* gHotplugCallback # NULL
  running,    \* gNotificationThreadRunning
  runLoop,    \* gRunLoop # NULL
  port,       \* gNotifyPort # NULL, with its two iterators
  thread,     \* where the notification thread is
  handling,   \* the iterator it reads in a callout
  stop,       \* the run loop: "no", "asked" to stop, "last" callout since then
  pending,    \* objects in each iterator
  armed,      \* iterators that were read to their end since they last notified
  notified,   \* notifications waiting in the port
  events      \* devices that came or went so far

globals == <<callback, running, runLoop, port>>
iterators == <<pending, armed, notified, events>>
vars == <<client, globals, thread, handling, stop, iterators>>

TypeOK ==
  /\ client \in {"off", "on", "join"}
  /\ callback \in BOOLEAN /\ running \in BOOLEAN /\ runLoop \in BOOLEAN /\ port \in BOOLEAN
  /\ thread \in {"none", "created", "ready", "loop", "callout", "user", "exited"}
  /\ handling \in Kinds
  /\ stop \in {"no", "asked", "last"}
  /\ pending \in [Kinds -> Nat]
  /\ armed \subseteq Kinds /\ notified \subseteq Kinds
  /\ events \in 0..MaxEvents

Init ==
  /\ client = "off"
  /\ callback = FALSE /\ running = FALSE /\ runLoop = FALSE /\ port = FALSE
  /\ thread = "none" /\ handling = "added" /\ stop = "no"
  /\ pending = [k \in Kinds |-> 0]
  /\ armed = {} /\ notified = {}
  /\ events = 0

-----------------------------------------------------------------------------
(* The client's thread.                                                    *)

\* Mutant of ReadToTheEnd: the devices that are there are left in the iterators.
NotRead == armed' = {} /\ pending' \in [Kinds -> 0..1]

\* "Iterate to arm the notifications".
ReadToTheEnd == armed' = Kinds /\ pending' = [k \in Kinds |-> 0]

\* uls_register_hotplug_callback; a second registration is refused.
Register ==
  /\ client = "off" /\ ~running
  /\ callback' = TRUE
  /\ port' = TRUE
  /\ ReadToTheEnd
  /\ notified' = {}
  /\ running' = TRUE
  /\ thread' = "created" /\ stop' = "no"
  /\ client' = "on"
  /\ UNCHANGED <<runLoop, handling, events>>

\* No port: an error, with the callback already stored.
RegisterFails ==
  /\ client = "off" /\ ~running
  /\ callback' = TRUE
  /\ UNCHANGED <<client, running, runLoop, port, thread, handling, stop, iterators>>

InRunLoop == thread \in {"loop", "callout", "user"}

\* uls_unregister_hotplug_callback up to pthread_join.
Unregister ==
  /\ client = "on"
  /\ running' = FALSE
  /\ stop' = IF runLoop /\ InRunLoop THEN "asked" ELSE stop
  /\ client' = "join"
  /\ UNCHANGED <<callback, runLoop, port, thread, handling, iterators>>

\* Mutant of Joined: the thread is not waited for.
NotJoined == TRUE

Joined == thread = "exited"

\* The rest of it.
Unregistered ==
  /\ client = "join" /\ Joined
  /\ port' = FALSE /\ armed' = {} /\ notified' = {} /\ pending' = [k \in Kinds |-> 0]
  /\ callback' = FALSE /\ runLoop' = FALSE
  /\ client' = "off"
  /\ UNCHANGED <<running, thread, handling, stop, events>>

-----------------------------------------------------------------------------
(* The notification thread.                                                *)

\* notification_thread_func, up to the run loop.
SetRunLoop ==
  /\ thread = "created"
  /\ runLoop' = TRUE
  /\ thread' = "ready"
  /\ UNCHANGED <<client, callback, running, port, handling, stop, iterators>>

RunRunLoop ==
  /\ thread = "ready"
  /\ thread' = "loop"
  /\ UNCHANGED <<client, globals, handling, stop, iterators>>

\* The run loop calls device_added_callback or device_removed_callback; one that was
\* asked to stop may do so once more.
Callout ==
  /\ thread = "loop" /\ stop # "last"
  /\ handling' \in notified
  /\ notified' = notified \ {handling'}
  /\ thread' = "callout"
  /\ stop' = IF stop = "asked" THEN "last" ELSE stop
  /\ UNCHANGED <<client, globals, pending, armed, events>>

\* The callback is told, unless the device that was added cannot be opened.
NextDevice ==
  /\ thread = "callout" /\ pending[handling] > 0
  /\ pending' = [pending EXCEPT ![handling] = @ - 1]
  /\ \/ callback /\ thread' = "user"
     \/ (~callback \/ handling = "added") /\ UNCHANGED thread
  /\ UNCHANGED <<client, globals, handling, stop, armed, notified, events>>

UserReturns ==
  /\ thread = "user"
  /\ thread' = "callout"
  /\ UNCHANGED <<client, globals, handling, stop, iterators>>

\* Mutant of CalloutEnds: the loop goes on at the end of the iterator.
CalloutGoesOn == UNCHANGED thread

CalloutEnds == thread' = "loop"

NoMoreDevices ==
  /\ thread = "callout" /\ pending[handling] = 0
  /\ armed' = armed \cup {handling}
  /\ CalloutEnds
  /\ UNCHANGED <<client, globals, handling, stop, pending, notified, events>>

\* CFRunLoopRun returns.
Exit ==
  /\ thread = "loop" /\ stop # "no"
  /\ thread' = "exited"
  /\ UNCHANGED <<client, globals, handling, stop, iterators>>

-----------------------------------------------------------------------------
(* A device comes or goes.                                                 *)

DeviceEvent ==
  /\ port /\ events < MaxEvents
  /\ \E k \in Kinds :
       /\ pending' = [pending EXCEPT ![k] = @ + 1]
       /\ notified' = notified \cup ({k} \cap armed)
       /\ armed' = armed \ {k}
  /\ events' = events + 1
  /\ UNCHANGED <<client, globals, thread, handling, stop>>

ThreadStep ==
  SetRunLoop \/ RunRunLoop \/ Callout \/ NextDevice \/ UserReturns \/ NoMoreDevices \/ Exit

Next ==
  Register \/ RegisterFails \/ Unregister \/ Unregistered \/ ThreadStep \/ DeviceEvent

Spec == Init /\ [][Next]_vars

\* Both threads are run, and the client's callback returns.
FairSpec == Spec /\ WF_vars(ThreadStep) /\ WF_vars(Unregistered)

-----------------------------------------------------------------------------
(* Properties.                                                             *)

\* Once uls_unregister_hotplug_callback has returned, the callback does not run and
\* will not be called: its context may be freed.
QuietWhenUnregistered == client = "off" => ~InRunLoop /\ thread \notin {"created", "ready"}

\* Every device that comes or goes while the callback is registered is taken from its
\* iterator, also one that comes while another is being reported.
EventsHandled ==
  \A k \in Kinds : pending[k] > 0 /\ client = "on" ~> pending[k] = 0 \/ client # "on"

\* An unregistration that found the run loop running returns.
UnregisterReturns == client = "join" /\ stop # "no" ~> client = "off"
=============================================================================
