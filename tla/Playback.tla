------------------------------ MODULE Playback ------------------------------
(***************************************************************************)
(* The simulation of a job: the timed trace that uls_job_simulate builds,  *)
(* the binary search in it (uls_simulation_index_at_time) and the playback *)
(* that updateSimulation of the control window runs over it.               *)
(*                                                                         *)
(* A point of the trace is the end of a stroke, known here by the time at  *)
(* which it is reached.  Times are floats; what the search rests on is     *)
(* only that they never decrease.  A stroke takes any duration up to       *)
(* MaxDuration, none if it has no length or if its time is lost in the     *)
(* rounding of a larger sum.                                               *)
(*                                                                         *)
(* Left out: where the points are and what is a cut (module ToolPath), the *)
(* velocity profile, memory, and pause, stop and restart of the playback   *)
(* (module LaserControl).                                                  *)
(***************************************************************************)
EXTENDS Naturals, Sequences

CONSTANTS
  MaxPoints,    \* bound: points of a trace
  MaxDuration,  \* bound: time of one stroke
  MaxTick       \* bound: simulated time between two ticks (the playback speed)

ASSUME BoundsAssumption ==
  /\ MaxPoints \in Nat \ {0}
  /\ MaxDuration \in Nat
  /\ MaxTick \in Nat \ {0}

VARIABLES
  phase,     \* "vector", "raster": the trace is built; then the playback
  sim,       \* the trace: numPoints points, and curTime (at the end totalTime)
  cutBatch,  \* strokes whose times are not in the trace yet, from 0 on
  batchLong, \* cutBatchDist > 0
  simTime,   \* _simTime
  lo, hi,    \* locals of the search
  shown      \* preview.simCurrentIndex: the trace is drawn up to here

vars == <<phase, sim, cutBatch, batchLong, simTime, lo, hi, shown>>

Index == 0..(MaxPoints - 1)
Last == sim.numPoints - 1
Playing == {"play", "search"}

TypeOK ==
  /\ phase \in {"vector", "raster", "ended"} \cup Playing
  /\ sim \in [time : [Index -> Nat], numPoints : 1..MaxPoints, now : Nat]
  /\ cutBatch \in Seq(Nat)
  /\ batchLong \in BOOLEAN
  /\ simTime \in Nat
  /\ lo \in 0..Last /\ hi \in 0..Last
  /\ shown \in 0..Last

\* uls_job_simulate begins with the home position, at time 0.
Init ==
  /\ phase = "vector"
  /\ sim = [time |-> [i \in Index |-> 0], numPoints |-> 1, now |-> 0]
  /\ cutBatch = <<>> /\ batchLong = FALSE
  /\ simTime = 0
  /\ lo = 0 /\ hi = 0
  /\ shown = 0

playVars == <<simTime, lo, hi, shown>>

-----------------------------------------------------------------------------
(* uls_job_simulate.                                                       *)

\* sim_add_point, d after the point before.
AddPoint(s, d) ==
  [time |-> [s.time EXCEPT ![s.numPoints] = s.now + d],
   numPoints |-> s.numPoints + 1,
   now |-> s.now + d]

\* The strokes of the batch take their places in the trace.
InTrace(s, i) == s.numPoints <= i /\ i < s.numPoints + Len(cutBatch)
BatchTime(s, i) == s.now + cutBatch[i - s.numPoints + 1]

\* sim_flush_cut_batch: a batch without any length is dropped.
Flushed(s) ==
  IF batchLong
  THEN [s EXCEPT !.time = [i \in Index |-> IF InTrace(s, i) THEN BatchTime(s, i) ELSE @[i]],
                 !.numPoints = @ + Len(cutBatch),
                 !.now = @ + cutBatch[Len(cutBatch)]]
  ELSE s

BatchEmptied == cutBatch' = <<>> /\ batchLong' = FALSE

\* Bound: a trace that has room for n more points.
RoomFor(n) == sim.numPoints + Len(cutBatch) + n <= MaxPoints

\* MOVE: the batch, then a rapid traverse.
RapidMove ==
  /\ phase = "vector" /\ RoomFor(1)
  /\ \E d \in 0..MaxDuration : sim' = AddPoint(Flushed(sim), d)
  /\ BatchEmptied
  /\ UNCHANGED <<phase, playVars>>

\* A stroke of LINE, BEZIER or CLOSE: its time is known when the batch is.
AddCutPoint ==
  /\ phase = "vector" /\ RoomFor(1)
  /\ \E d \in 0..MaxDuration, long \in BOOLEAN :
       /\ ~long => d = 0
       /\ cutBatch' = Append(cutBatch, d + IF cutBatch = <<>> THEN 0 ELSE cutBatch[Len(cutBatch)])
       /\ batchLong' = (batchLong \/ long)
  /\ UNCHANGED <<phase, sim, playVars>>

\* The end of a path; after the last one, the raster images follow.
EndPath ==
  /\ phase = "vector"
  /\ phase' \in {"vector", "raster"}
  /\ sim' = Flushed(sim)
  /\ BatchEmptied
  /\ UNCHANGED playVars

\* One line of a raster image: a rapid move to its start, then across with the laser.
RasterLine ==
  /\ phase = "raster" /\ RoomFor(2)
  /\ \E d, across \in 0..MaxDuration :
       sim' = AddPoint(AddPoint(sim, d), across)
  /\ UNCHANGED <<phase, cutBatch, batchLong, playVars>>

\* The trace is complete, its clock the total time; simulateJob starts the playback.
SimulateJob ==
  /\ phase = "raster"
  /\ phase' = "play"
  /\ UNCHANGED <<sim, cutBatch, batchLong, playVars>>

-----------------------------------------------------------------------------
(* The playback.  A tick of the timer advances the simulated time; the     *)
(* trace is drawn up to the index the search returns for it.               *)

\* Mutant of SearchedUpTo: one past the last point.
SearchedUpToCount == sim.numPoints

SearchedUpTo == Last

\* updateSimulation, before the end: the early returns of the search (time <= 0, time
\* >= totalTime) cannot be taken.
Tick ==
  /\ phase = "play"
  /\ \E dt \in 1..MaxTick :
       /\ simTime + dt < sim.now
       /\ simTime' = simTime + dt
  /\ phase' = "search"
  /\ lo' = 0 /\ hi' = SearchedUpTo
  /\ UNCHANGED <<sim, cutBatch, batchLong, shown>>

\* updateSimulation, at the end: simulationCompleted.
SimulationCompleted ==
  /\ phase = "play"
  /\ \E dt \in 1..MaxTick : simTime + dt >= sim.now
  /\ simTime' = sim.now
  /\ phase' = "ended"
  /\ UNCHANGED <<sim, cutBatch, batchLong, lo, hi, shown>>

\* Mutant of Middle: rounded down.
MiddleDown == (lo + hi) \div 2

Middle == (lo + hi + 1) \div 2

\* Mutant of Reached: a point at the very time is not counted.
ReachedBefore(i) == sim.time[i] < simTime

Reached(i) == sim.time[i] <= simTime

\* One round of the loop.
Halve ==
  /\ phase = "search" /\ lo < hi
  /\ IF Reached(Middle) THEN lo' = Middle /\ UNCHANGED hi
                        ELSE hi' = Middle - 1 /\ UNCHANGED lo
  /\ UNCHANGED <<phase, sim, cutBatch, batchLong, simTime, shown>>

\* The loop is over: the preview gets the index, the crosshair the point between it
\* and the next, and the label the laser flag of the next.
ShowPosition ==
  /\ phase = "search" /\ lo >= hi
  /\ phase' = "play"
  /\ shown' = lo
  /\ UNCHANGED <<sim, cutBatch, batchLong, simTime, lo, hi>>

Simulate == RapidMove \/ AddCutPoint \/ EndPath \/ RasterLine \/ SimulateJob
Play == Tick \/ SimulationCompleted \/ Halve \/ ShowPosition

Next == Simulate \/ Play

Spec == Init /\ [][Next]_vars

\* The playback timer fires.
FairSpec == Spec /\ WF_vars(Play)

-----------------------------------------------------------------------------
(* Properties.                                                             *)

\* After a tick the trace is drawn up to the present of the simulated time and no
\* further, also at a time at which several points lie or one point lies exactly: the
\* crosshair is on the stroke that follows.
PresentIsShown ==
  phase = "play" /\ simTime > 0 =>
    \A i \in 0..Last : i <= shown <=> sim.time[i] <= simTime

\* The playback of every trace ends, also one of equal times or of one point.
PlaybackEnds == phase \in Playing ~> phase = "ended"
=============================================================================
