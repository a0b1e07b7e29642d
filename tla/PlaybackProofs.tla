--------------------------- MODULE PlaybackProofs ---------------------------
(* What TLAPS proves of Playback, for every length of traces and strokes. *)
EXTENDS Playback, TLAPS

\* A trace in the order of its times, all of them up to its clock.
Trace(s) ==
  /\ s \in [time : [Index -> Nat], numPoints : 1..MaxPoints, now : Nat]
  /\ s.time[0] = 0
  /\ \A i \in 0..(s.numPoints - 1) :
       /\ s.time[i] <= s.now
       /\ \A j \in 0..(s.numPoints - 1) : i <= j => s.time[i] <= s.time[j]

\* The same of the batch, whose times count from the clock on.
Batch ==
  /\ cutBatch \in Seq(Nat)
  /\ batchLong \in BOOLEAN
  /\ batchLong => Len(cutBatch) > 0
  /\ \A i, j \in 1..Len(cutBatch) : i <= j => cutBatch[i] <= cutBatch[j]

\* A batch that was just emptied is in order.
LEMMA EmptyBatch == cutBatch = <<>> /\ batchLong = FALSE => Batch
<1> SUFFICES ASSUME cutBatch = <<>>, batchLong = FALSE PROVE Batch
  OBVIOUS
<1>1. cutBatch \in Seq(Nat) /\ Len(cutBatch) = 0 /\ 1..Len(cutBatch) = {}
  OBVIOUS
<1> QED
  BY <1>1 DEF Batch

\* sim_add_point keeps the order.
LEMMA AddPointTrace ==
  ASSUME NEW s, Trace(s), s.numPoints < MaxPoints, NEW d \in Nat
  PROVE  Trace(AddPoint(s, d)) /\ AddPoint(s, d).numPoints = s.numPoints + 1
<1> DEFINE t == AddPoint(s, d)
<1>0. s.numPoints \in Index /\ s.numPoints \in Nat /\ s.numPoints > 0 /\ s.now \in Nat /\ 0 \in Index
      /\ s.time \in [Index -> Nat] /\ s.numPoints + 1 \in 1..MaxPoints
  BY BoundsAssumption DEF Trace, Index
<1>1. t.time = [s.time EXCEPT ![s.numPoints] = s.now + d] /\ t.now = s.now + d
      /\ t.numPoints = s.numPoints + 1
  BY DEF AddPoint
<1>2. t \in [time : [Index -> Nat], numPoints : 1..MaxPoints, now : Nat]
  BY <1>0 DEF AddPoint
<1>3. t.time[0] = 0
  BY <1>0, <1>1 DEF Trace
<1>4. \A i \in 0..(s.numPoints - 1) : t.time[i] = s.time[i] /\ s.time[i] \in Nat
  <2> SUFFICES ASSUME NEW i \in 0..(s.numPoints - 1)
               PROVE  t.time[i] = s.time[i] /\ s.time[i] \in Nat
    OBVIOUS
  <2>1. i \in Index /\ i # s.numPoints
    BY <1>0, BoundsAssumption DEF Index
  <2> QED
    BY <1>0, <1>1, <2>1
<1>5. t.time[s.numPoints] = s.now + d
  BY <1>0, <1>1
<1>6. ASSUME NEW i \in 0..(t.numPoints - 1)
      PROVE  i \in 0..(s.numPoints - 1) \/ i = s.numPoints
  BY <1>0, <1>1
<1>7. ASSUME NEW i \in 0..(t.numPoints - 1)
      PROVE  /\ t.time[i] <= t.now
             /\ \A j \in 0..(t.numPoints - 1) : i <= j => t.time[i] <= t.time[j]
  <2>1. \A k \in 0..(s.numPoints - 1) : t.time[k] <= s.now /\ t.time[k] \in Nat
    BY <1>4 DEF Trace
  <2>2. t.time[s.numPoints] \in Nat /\ \A k \in 0..(s.numPoints - 1) : t.time[k] <= s.now + d
    BY <1>0, <1>5, <2>1
  <2>3. t.time[i] <= t.now
    <3>1. CASE i = s.numPoints
      BY <1>0, <1>1, <1>5, <3>1
    <3> QED
      BY <1>1, <1>6, <2>2, <3>1
  <2>4. ASSUME NEW j \in 0..(t.numPoints - 1), i <= j PROVE t.time[i] <= t.time[j]
    <3>1. CASE j = s.numPoints
      BY <1>1, <1>5, <2>3, <3>1
    <3>2. CASE j \in 0..(s.numPoints - 1)
      <4>1. i \in 0..(s.numPoints - 1)
        BY <1>0, <1>6, <2>4, <3>2
      <4>2. s.time[i] <= s.time[j]
        BY <2>4, <3>2, <4>1 DEF Trace
      <4> QED
        BY <1>4, <3>2, <4>1, <4>2
    <3> QED
      BY <1>0, <1>1, <2>4, <3>1, <3>2
  <2> QED
    BY <2>3, <2>4
<1> QED
  BY <1>1, <1>2, <1>3, <1>7 DEF Trace

\* Adding the clock keeps the order (the provers want it said).
LEMMA LaterByNow ==
  ASSUME NEW now \in Nat, NEW x \in Nat, NEW y \in Nat, x <= y
  PROVE  now + x <= now + y
OBVIOUS

\* sim_flush_cut_batch keeps the order.
LEMMA FlushedTrace ==
  ASSUME NEW s, Trace(s), Batch, s.numPoints + Len(cutBatch) <= MaxPoints
  PROVE  /\ Trace(Flushed(s))
         /\ s.numPoints <= Flushed(s).numPoints
         /\ Flushed(s).numPoints <= s.numPoints + Len(cutBatch)
<1> DEFINE t == Flushed(s)
<1>0. s.numPoints \in Nat /\ s.numPoints > 0 /\ s.now \in Nat /\ s.time \in [Index -> Nat]
      /\ Len(cutBatch) \in Nat
  BY DEF Trace, Batch
<1>1. CASE ~batchLong
  BY <1>0, <1>1 DEF Flushed
<1>2. CASE batchLong
  <2>1. /\ t.time = [i \in Index |-> IF InTrace(s, i) THEN BatchTime(s, i) ELSE s.time[i]]
        /\ t.numPoints = s.numPoints + Len(cutBatch)
        /\ t.now = s.now + cutBatch[Len(cutBatch)]
    BY <1>0, <1>2 DEF Flushed, Trace
  <2>2. Len(cutBatch) \in 1..Len(cutBatch) /\ cutBatch[Len(cutBatch)] \in Nat
    BY <1>0, <1>2 DEF Batch
  <2>3. ASSUME NEW i \in Index, InTrace(s, i)
        PROVE  i - s.numPoints + 1 \in 1..Len(cutBatch) /\ BatchTime(s, i) \in Nat
               /\ BatchTime(s, i) <= t.now /\ s.now <= BatchTime(s, i)
    <3>1. i \in Nat
      BY DEF Index
    <3>2. i - s.numPoints + 1 \in 1..Len(cutBatch)
      BY <1>0, <2>3, <3>1 DEF InTrace
    <3>3. cutBatch[i - s.numPoints + 1] \in Nat
      BY <3>2 DEF Batch
    <3>4. cutBatch[i - s.numPoints + 1] <= cutBatch[Len(cutBatch)]
      BY <2>2, <3>2 DEF Batch
    <3> QED
      BY <1>0, <2>1, <2>2, <3>2, <3>3, <3>4 DEF BatchTime
  <2>4. \A i \in Index : ~InTrace(s, i) => t.time[i] = s.time[i]
    BY <2>1
  <2>5. \A i \in Index : InTrace(s, i) => t.time[i] = BatchTime(s, i)
    BY <2>1
  <2>6. ASSUME NEW i \in 0..(t.numPoints - 1)
        PROVE  i \in Index /\ i \in Nat /\ (InTrace(s, i) \/ i \in 0..(s.numPoints - 1))
               /\ (i \in 0..(s.numPoints - 1) => ~InTrace(s, i))
    BY <1>0, <2>1, BoundsAssumption DEF Index, InTrace
  <2>7. 0 \in Index /\ ~InTrace(s, 0)
    BY <1>0, BoundsAssumption DEF Index, InTrace
  <2>8. t.time \in [Index -> Nat]
    BY <2>1, <2>3, <1>0
  <2>9. t \in [time : [Index -> Nat], numPoints : 1..MaxPoints, now : Nat]
    <3>1. t = [time |-> t.time, numPoints |-> t.numPoints, now |-> t.now]
      BY <1>2 DEF Flushed, Trace
    <3>2. t.numPoints \in 1..MaxPoints /\ t.now \in Nat
      BY <1>0, <2>1, <2>2, BoundsAssumption
    <3> QED
      BY <2>8, <3>1, <3>2
  <2>10. \A i \in 0..(s.numPoints - 1) : s.time[i] \in Nat /\ s.time[i] <= s.now
    BY <1>0, BoundsAssumption DEF Trace, Index
  <2>11. s.now <= t.now /\ t.now \in Nat
    BY <1>0, <2>1, <2>2
  <2>12. ASSUME NEW i \in 0..(t.numPoints - 1) PROVE t.time[i] <= t.now
    <3>1. CASE InTrace(s, i)
      BY <2>3, <2>5, <2>6, <3>1
    <3>2. CASE i \in 0..(s.numPoints - 1)
      BY <1>0, <2>4, <2>6, <2>10, <2>11, <3>2
    <3> QED
      BY <2>6, <3>1, <3>2
  <2>13. ASSUME NEW i \in 0..(t.numPoints - 1), NEW j \in 0..(t.numPoints - 1), i <= j
         PROVE  t.time[i] <= t.time[j]
    <3>1. CASE InTrace(s, i) /\ InTrace(s, j)
      <4>1. i - s.numPoints + 1 <= j - s.numPoints + 1
        BY <1>0, <2>6, <2>13
      <4>2. cutBatch[i - s.numPoints + 1] <= cutBatch[j - s.numPoints + 1]
        BY <2>3, <2>6, <3>1, <4>1 DEF Batch
      <4>3. cutBatch[i - s.numPoints + 1] \in Nat /\ cutBatch[j - s.numPoints + 1] \in Nat
        <5>1. i - s.numPoints + 1 \in 1..Len(cutBatch) /\ j - s.numPoints + 1 \in 1..Len(cutBatch)
          BY <2>3, <2>6, <3>1
        <5>2. cutBatch \in Seq(Nat)
          BY DEF Batch
        <5> QED
          BY <5>1, <5>2
      <4>4. t.time[i] = s.now + cutBatch[i - s.numPoints + 1]
            /\ t.time[j] = s.now + cutBatch[j - s.numPoints + 1]
        BY <2>5, <2>6, <3>1 DEF BatchTime
      <4>5. s.now + cutBatch[i - s.numPoints + 1] <= s.now + cutBatch[j - s.numPoints + 1]
        BY <1>0, <4>2, <4>3, LaterByNow
      <4> QED
        BY <4>4, <4>5
    <3>2. CASE i \in 0..(s.numPoints - 1) /\ InTrace(s, j)
      <4>1. t.time[i] = s.time[i] /\ s.time[i] \in Nat /\ s.time[i] <= s.now
        BY <2>4, <2>6, <2>10, <3>2
      <4>2. t.time[j] = BatchTime(s, j) /\ s.now <= BatchTime(s, j) /\ BatchTime(s, j) \in Nat
        BY <2>3, <2>5, <2>6, <3>2
      <4> QED
        BY <1>0, <4>1, <4>2
    <3>3. CASE j \in 0..(s.numPoints - 1)
      <4>1. i \in 0..(s.numPoints - 1)
        BY <1>0, <2>6, <2>13, <3>3
      <4> QED
        BY <2>4, <2>6, <2>13, <3>3, <4>1 DEF Trace
    <3> QED
      BY <2>6, <3>1, <3>2, <3>3
  <2>14. t.time[0] = 0
    BY <2>4, <2>7 DEF Trace
  <2>15. Trace(t)
    BY <2>9, <2>12, <2>13, <2>14 DEF Trace
  <2>16. s.numPoints <= t.numPoints /\ t.numPoints <= s.numPoints + Len(cutBatch)
    BY <1>0, <2>1
  <2> QED
    BY <2>15, <2>16
<1> QED
  BY <1>1, <1>2

\* The loop invariant of the search: the point at lo is past, those after hi are not.
Searching ==
  phase = "search" =>
    /\ lo <= hi
    /\ sim.time[lo] <= simTime
    /\ \A i \in 0..Last : hi < i => simTime < sim.time[i]

IInv ==
  /\ TypeOK
  /\ Trace(sim) /\ Batch
  /\ sim.numPoints + Len(cutBatch) <= MaxPoints
  /\ phase \in {"vector", "raster"} => simTime = 0
  /\ Searching
  /\ PresentIsShown

\* A middle between lo and hi, and never lo itself: the search goes on.
LEMMA MiddleBetween ==
  ASSUME lo \in Nat, hi \in Nat, lo < hi
  PROVE  Middle \in Nat /\ lo < Middle /\ Middle <= hi
BY DEF Middle

\* The trace begins as one point at time 0.
LEMMA InitIInv == Init => IInv
<1> SUFFICES ASSUME Init PROVE IInv
  OBVIOUS
<1>1. 0 \in Index /\ 1 \in 1..MaxPoints
  BY BoundsAssumption DEF Index
<1>2. sim \in [time : [Index -> Nat], numPoints : 1..MaxPoints, now : Nat]
      /\ sim.numPoints = 1 /\ sim.now = 0 /\ \A i \in Index : sim.time[i] = 0
  BY <1>1 DEF Init
<1>3. 0..(sim.numPoints - 1) = {0} /\ 0..Last = {0}
  BY <1>2 DEF Last
<1>4. Trace(sim)
  BY <1>1, <1>2, <1>3 DEF Trace
<1>5. cutBatch = <<>> /\ Len(cutBatch) = 0 /\ cutBatch \in Seq(Nat)
  BY DEF Init
<1>6. Batch
  BY <1>5, EmptyBatch DEF Init
<1>7. TypeOK
  BY <1>2, <1>3, <1>5 DEF Init, TypeOK
<1> QED
  BY <1>2, <1>4, <1>5, <1>6, <1>7, BoundsAssumption DEF Init, IInv, Searching, PresentIsShown

\* Building the trace: whatever is added to it keeps it in order, and the playback
\* still stands at the beginning.
LEMMA BuildIInv ==
  ASSUME IInv, phase \in {"vector", "raster"}, phase' \in {"vector", "raster"},
         UNCHANGED playVars, Trace(sim'), Batch',
         sim.numPoints <= sim'.numPoints, sim'.numPoints + Len(cutBatch') <= MaxPoints
  PROVE  IInv'
<1>1. lo' \in 0..Last' /\ hi' \in 0..Last' /\ shown' \in 0..Last'
  <2>1. sim.numPoints \in Nat /\ sim'.numPoints \in Nat
    BY DEF IInv, Trace
  <2> QED
    BY <2>1 DEF IInv, TypeOK, playVars, Last
<1>2. TypeOK'
  BY <1>1 DEF IInv, TypeOK, playVars, Trace, Batch
<1>3. Searching' /\ PresentIsShown'
  BY DEF Searching, PresentIsShown
<1> QED
  BY <1>2, <1>3 DEF IInv, playVars

\* Every step of the simulation and of the playback keeps the invariant.
LEMMA StepIInv == IInv /\ [Next]_vars => IInv'
<1> SUFFICES ASSUME IInv, [Next]_vars
             PROVE  IInv'
  OBVIOUS
<1>t. sim.numPoints \in Nat /\ sim.numPoints > 0 /\ sim.numPoints <= MaxPoints
      /\ Len(cutBatch) \in Nat /\ lo \in Nat /\ hi \in Nat /\ shown \in Nat /\ simTime \in Nat
      /\ Last \in Nat /\ Last < sim.numPoints
  BY DEF IInv, TypeOK, Last, Trace, Batch
<1>e. BatchEmptied => Batch' /\ Len(cutBatch') = 0
  <2> SUFFICES ASSUME BatchEmptied PROVE Batch' /\ Len(cutBatch') = 0
    OBVIOUS
  <2>1. cutBatch' = <<>> /\ batchLong' = FALSE
    BY DEF BatchEmptied
  <2>2. cutBatch' \in Seq(Nat) /\ Len(cutBatch') = 0 /\ 1..Len(cutBatch') = {}
    BY <2>1
  <2> QED
    BY <2>1, <2>2 DEF Batch
<1>1. CASE RapidMove
  <2>1. PICK d \in 0..MaxDuration : sim' = AddPoint(Flushed(sim), d)
    BY <1>1 DEF RapidMove
  <2>2. Trace(Flushed(sim)) /\ Flushed(sim).numPoints <= sim.numPoints + Len(cutBatch)
        /\ sim.numPoints <= Flushed(sim).numPoints
    BY FlushedTrace DEF IInv
  <2>3. Flushed(sim).numPoints \in Nat /\ Flushed(sim).numPoints < MaxPoints
    BY <1>1, <1>t, <2>2, BoundsAssumption DEF RapidMove, RoomFor, Trace
  <2>4. Trace(sim') /\ sim'.numPoints = Flushed(sim).numPoints + 1
    BY <2>1, <2>2, <2>3, AddPointTrace
  <2>5. phase = "vector" /\ phase' = "vector" /\ UNCHANGED playVars /\ Batch' /\ Len(cutBatch') = 0
    BY <1>1, <1>e DEF RapidMove
  <2> QED
    BY <1>t, <2>2, <2>3, <2>4, <2>5, BoundsAssumption, BuildIInv
<1>2. CASE AddCutPoint
  <2>1. PICK d \in 0..MaxDuration, long \in BOOLEAN :
          /\ cutBatch' = Append(cutBatch, d + IF cutBatch = <<>> THEN 0 ELSE cutBatch[Len(cutBatch)])
          /\ batchLong' = (batchLong \/ long)
    BY <1>2 DEF AddCutPoint
  <2> DEFINE e == d + IF cutBatch = <<>> THEN 0 ELSE cutBatch[Len(cutBatch)]
  <2>2. cutBatch \in Seq(Nat) /\ \A i, j \in 1..Len(cutBatch) : i <= j => cutBatch[i] <= cutBatch[j]
    BY DEF IInv, Batch
  <2>3. e \in Nat /\ \A i \in 1..Len(cutBatch) : cutBatch[i] \in Nat /\ cutBatch[i] <= e
    <3>1. CASE cutBatch = <<>>
      BY <3>1
    <3>2. CASE cutBatch # <<>>
      <4>1. Len(cutBatch) \in 1..Len(cutBatch)
        BY <2>2, <3>2, <1>t
      <4>2. \A i \in 1..Len(cutBatch) : cutBatch[i] \in Nat /\ cutBatch[i] <= cutBatch[Len(cutBatch)]
        BY <2>2, <4>1
      <4>3. e = d + cutBatch[Len(cutBatch)] /\ d \in Nat
        BY <3>2
      <4> QED
        BY <4>1, <4>2, <4>3
    <3> QED
      BY <3>1, <3>2
  <2>4. cutBatch' = Append(cutBatch, e)
    BY <2>1
  <2> HIDE DEF e
  <2>5. cutBatch' \in Seq(Nat) /\ Len(cutBatch') = Len(cutBatch) + 1
        /\ cutBatch'[Len(cutBatch) + 1] = e
        /\ \A i \in 1..Len(cutBatch) : cutBatch'[i] = cutBatch[i]
    BY <2>2, <2>3, <2>4
  <2>6. \A i, j \in 1..Len(cutBatch') : i <= j => cutBatch'[i] <= cutBatch'[j]
    <3> SUFFICES ASSUME NEW i \in 1..Len(cutBatch'), NEW j \in 1..Len(cutBatch'), i <= j
                 PROVE  cutBatch'[i] <= cutBatch'[j]
      OBVIOUS
    <3>1. CASE j \in 1..Len(cutBatch)
      <4>1. i \in 1..Len(cutBatch)
        BY <1>t, <2>5, <3>1
      <4> QED
        BY <2>2, <2>5, <3>1, <4>1
    <3>2. CASE j = Len(cutBatch) + 1 /\ i \in 1..Len(cutBatch)
      BY <2>3, <2>5, <3>2
    <3>3. CASE i = Len(cutBatch) + 1 /\ j = i
      BY <2>3, <2>5, <3>3
    <3> QED
      BY <1>t, <2>5, <3>1, <3>2, <3>3
  <2>7. Batch'
    BY <1>t, <2>1, <2>5, <2>6 DEF IInv, Batch
  <2>8. phase = "vector" /\ UNCHANGED <<phase, sim, playVars>>
        /\ sim.numPoints + Len(cutBatch) + 1 <= MaxPoints
    BY <1>2 DEF AddCutPoint, RoomFor
  <2>9. Trace(sim')
    BY <2>8 DEF IInv
  <2> QED
    BY <1>t, <2>5, <2>7, <2>8, <2>9, BoundsAssumption, BuildIInv
<1>3. CASE EndPath
  <2>1. Trace(Flushed(sim)) /\ Flushed(sim).numPoints <= sim.numPoints + Len(cutBatch)
        /\ sim.numPoints <= Flushed(sim).numPoints
    BY FlushedTrace DEF IInv
  <2>2. sim' = Flushed(sim) /\ Batch' /\ Len(cutBatch') = 0
        /\ phase = "vector" /\ phase' \in {"vector", "raster"} /\ UNCHANGED playVars
    BY <1>3, <1>e DEF EndPath
  <2>3. sim'.numPoints \in Nat /\ sim'.numPoints <= MaxPoints
    BY <2>1, <2>2, BoundsAssumption DEF Trace
  <2> QED
    BY <2>1, <2>2, <2>3, BuildIInv
<1>4. CASE RasterLine
  <2>1. PICK d \in 0..MaxDuration, across \in 0..MaxDuration :
          sim' = AddPoint(AddPoint(sim, d), across)
    BY <1>4 DEF RasterLine
  <2>2. phase = "raster" /\ UNCHANGED <<phase, cutBatch, batchLong, playVars>>
        /\ sim.numPoints + Len(cutBatch) + 2 <= MaxPoints
    BY <1>4 DEF RasterLine, RoomFor
  <2>3. Trace(AddPoint(sim, d)) /\ AddPoint(sim, d).numPoints = sim.numPoints + 1
    BY <1>t, <2>2, BoundsAssumption, AddPointTrace DEF IInv
  <2>4. Trace(sim') /\ sim'.numPoints = sim.numPoints + 2
    BY <1>t, <2>1, <2>2, <2>3, BoundsAssumption, AddPointTrace
  <2>5. Batch'
    BY <2>2 DEF IInv, Batch
  <2> QED
    BY <1>t, <2>2, <2>4, <2>5, BoundsAssumption, BuildIInv
<1>5. CASE SimulateJob
  BY <1>5 DEF SimulateJob, playVars, IInv, TypeOK, Trace, Batch, Searching, PresentIsShown, Last, Playing
<1>6. CASE Tick
  <2>1. phase' = "search" /\ lo' = 0 /\ hi' = Last /\ simTime' \in Nat
        /\ UNCHANGED <<sim, cutBatch, batchLong, shown>>
    BY <1>6, <1>t, BoundsAssumption DEF Tick, SearchedUpTo
  <2>2. sim.time[0] <= simTime'
    BY <2>1 DEF IInv, Trace
  <2>3. Last' = Last
    BY <2>1 DEF Last
  <2>4. Searching' /\ PresentIsShown'
    BY <1>t, <2>1, <2>2, <2>3 DEF Searching, PresentIsShown
  <2>5. TypeOK'
    BY <1>t, <2>1, <2>3 DEF IInv, TypeOK, Playing
  <2> QED
    BY <2>1, <2>4, <2>5 DEF IInv, Trace, Batch
<1>7. CASE SimulationCompleted
  <2>1. phase' = "ended" /\ simTime' = sim.now /\ UNCHANGED <<sim, cutBatch, batchLong, lo, hi, shown>>
    BY <1>7 DEF SimulationCompleted
  <2>2. TypeOK'
    BY <2>1 DEF IInv, TypeOK, Last
  <2> QED
    BY <2>1, <2>2 DEF IInv, Trace, Batch, Searching, PresentIsShown
<1>8. CASE Halve
  <2>1. phase = "search" /\ lo < hi /\ UNCHANGED <<phase, sim, cutBatch, batchLong, simTime, shown>>
    BY <1>8 DEF Halve
  <2>2. Middle \in Nat /\ lo < Middle /\ Middle <= hi
    BY <1>t, <2>1, MiddleBetween
  <2>3. hi <= Last /\ Last' = Last
    BY <2>1 DEF IInv, TypeOK, Last
  <2>4. Middle \in 0..Last
    BY <1>t, <2>2, <2>3
  <2>5. CASE Reached(Middle) /\ lo' = Middle /\ hi' = hi
    <3>1. TypeOK' /\ Searching'
      BY <1>t, <2>1, <2>2, <2>3, <2>4, <2>5 DEF IInv, TypeOK, Searching, Reached
    <3> QED
      BY <2>1, <3>1 DEF IInv, Trace, Batch, PresentIsShown
  <2>6. CASE ~Reached(Middle) /\ lo' = lo /\ hi' = Middle - 1
    <3>1. simTime < sim.time[Middle]
      <4>1. sim.time[Middle] \in Nat
        BY <1>t, <2>4, BoundsAssumption DEF IInv, Trace, Index
      <4> QED
        BY <1>t, <2>6, <4>1 DEF Reached
    <3>2. ASSUME NEW i \in 0..Last, Middle - 1 < i PROVE simTime < sim.time[i]
      <4>1. Middle <= i /\ i \in 0..(sim.numPoints - 1) /\ Middle \in 0..(sim.numPoints - 1)
        BY <1>t, <2>2, <2>4, <3>2 DEF Last
      <4>2. sim.time[Middle] <= sim.time[i]
        BY <4>1 DEF IInv, Trace
      <4>3. sim.time[i] \in Nat /\ sim.time[Middle] \in Nat
        BY <1>t, <4>1, BoundsAssumption DEF IInv, Trace, Index
      <4> QED
        BY <1>t, <3>1, <4>2, <4>3
    <3>3. Searching'
      BY <1>t, <2>1, <2>2, <2>3, <2>6, <3>2 DEF IInv, Searching
    <3>4. TypeOK'
      BY <1>t, <2>1, <2>2, <2>3, <2>6 DEF IInv, TypeOK
    <3> QED
      BY <2>1, <3>3, <3>4 DEF IInv, Trace, Batch, PresentIsShown
  <2> QED
    BY <1>8, <2>5, <2>6 DEF Halve
<1>9. CASE ShowPosition
  <2>1. phase = "search" /\ lo >= hi /\ phase' = "play" /\ shown' = lo
        /\ UNCHANGED <<sim, cutBatch, batchLong, simTime, lo, hi>>
    BY <1>9 DEF ShowPosition
  <2>2. lo = hi /\ sim.time[lo] <= simTime /\ lo <= Last /\ Last' = Last
    BY <1>t, <2>1 DEF IInv, TypeOK, Searching, Last
  <2>3. ASSUME NEW i \in 0..Last PROVE i <= lo <=> sim.time[i] <= simTime
    <3>1. i \in 0..(sim.numPoints - 1) /\ lo \in 0..(sim.numPoints - 1)
      BY <1>t, <2>2 DEF Last
    <3>2. sim.time[i] \in Nat /\ sim.time[lo] \in Nat
      BY <1>t, <3>1, BoundsAssumption DEF IInv, Trace, Index
    <3>3. CASE i <= lo
      <4>1. sim.time[i] <= sim.time[lo]
        BY <3>1, <3>3 DEF IInv, Trace
      <4> QED
        BY <1>t, <2>2, <3>2, <3>3, <4>1
    <3>4. CASE lo < i
      <4>1. simTime < sim.time[i]
        BY <2>1, <2>2, <3>4 DEF IInv, Searching
      <4> QED
        BY <1>t, <3>1, <3>2, <3>4, <4>1
    <3> QED
      BY <1>t, <3>1, <3>3, <3>4
  <2>4. PresentIsShown' /\ Searching'
    BY <2>1, <2>2, <2>3 DEF PresentIsShown, Searching
  <2>5. TypeOK'
    BY <1>t, <2>1, <2>2 DEF IInv, TypeOK, Playing
  <2> QED
    BY <2>1, <2>4, <2>5 DEF IInv, Trace, Batch
<1>10. CASE UNCHANGED vars
  BY <1>10 DEF vars, IInv, TypeOK, Trace, Batch, Searching, PresentIsShown, Last
<1> QED
  BY <1>1, <1>2, <1>3, <1>4, <1>5, <1>6, <1>7, <1>8, <1>9, <1>10 DEF Next, Simulate, Play

\* No step of building or searching leaves the arrays.
THEOREM TypeCorrect == Spec => []TypeOK
<1>1. IInv => TypeOK
  BY DEF IInv
<1> QED
  BY InitIInv, StepIInv, <1>1, PTL DEF Spec

\* The binary search is right: what is drawn after a tick is exactly the past.
THEOREM ShowsThePast == Spec => []PresentIsShown
<1>1. IInv => PresentIsShown
  BY DEF IInv
<1> QED
  BY InitIInv, StepIInv, <1>1, PTL DEF Spec

\* The order in time that the search rests on: the points of the trace, flushed batch
\* by batch and mixed with rapid moves and raster lines, never go back in time, start
\* at 0 and end by the total time.
TraceInOrder ==
  \A i, j \in 0..Last : i <= j => sim.time[i] <= sim.time[j] /\ sim.time[j] <= sim.now

\* Follows from the inductive invariant at the two ends of the trace.
THEOREM TraceOrdered == Spec => []TraceInOrder
<1>1. IInv => TraceInOrder
  BY DEF IInv, Trace, TraceInOrder, Last
<1> QED
  BY InitIInv, StepIInv, <1>1, PTL DEF Spec

-----------------------------------------------------------------------------
(* What is in the trace stays in it.                                       *)

\* t is s with later points behind it.
ExtendedBy(s, t) ==
  /\ s.numPoints <= t.numPoints /\ s.now <= t.now
  /\ \A i \in 0..(s.numPoints - 1) : t.time[i] = s.time[i]
  /\ \A i \in s.numPoints..(t.numPoints - 1) : s.now <= t.time[i]

\* Extending twice is extending.
LEMMA ExtendedTwice ==
  ASSUME NEW r, NEW s, NEW t, Trace(r), Trace(s), Trace(t), ExtendedBy(r, s), ExtendedBy(s, t)
  PROVE  ExtendedBy(r, t)
<1>1. /\ r.numPoints \in Nat /\ s.numPoints \in Nat /\ t.numPoints \in Nat
      /\ r.now \in Nat /\ s.now \in Nat /\ t.now \in Nat
  BY DEF Trace
<1>2. r.numPoints <= t.numPoints /\ r.now <= t.now
  BY <1>1 DEF ExtendedBy
<1>3. ASSUME NEW i \in 0..(r.numPoints - 1) PROVE t.time[i] = r.time[i]
  <2>1. i \in 0..(s.numPoints - 1)
    BY <1>1 DEF ExtendedBy
  <2> QED
    BY <2>1 DEF ExtendedBy
<1>4. ASSUME NEW i \in r.numPoints..(t.numPoints - 1) PROVE r.now <= t.time[i]
  <2>1. t.time[i] \in Nat
    <3>1. t.time \in [Index -> Nat] /\ t.numPoints <= MaxPoints
      BY <1>1, BoundsAssumption DEF Trace
    <3>2. i \in Index
      BY <1>1, <3>1, BoundsAssumption DEF Index
    <3> QED
      BY <3>1, <3>2
  <2>2. CASE i < s.numPoints
    <3>1. i \in r.numPoints..(s.numPoints - 1) /\ i \in 0..(s.numPoints - 1)
      BY <1>1, <2>2
    <3> QED
      BY <3>1 DEF ExtendedBy
  <2>3. CASE i >= s.numPoints
    <3>1. i \in s.numPoints..(t.numPoints - 1)
      BY <1>1, <2>3
    <3>2. s.now <= t.time[i] /\ r.now <= s.now
      BY <3>1 DEF ExtendedBy
    <3> QED
      BY <1>1, <2>1, <3>2
  <2> QED
    BY <1>1, <2>2, <2>3
<1> QED
  BY <1>2, <1>3, <1>4 DEF ExtendedBy

\* sim_add_point writes behind the last point.
LEMMA AddPointExtends ==
  ASSUME NEW s, Trace(s), s.numPoints < MaxPoints, NEW d \in Nat
  PROVE  ExtendedBy(s, AddPoint(s, d))
<1> DEFINE t == AddPoint(s, d)
<1>1. /\ s.numPoints \in Index /\ s.numPoints \in Nat /\ s.now \in Nat
      /\ s.time \in [Index -> Nat]
  BY BoundsAssumption DEF Trace, Index
<1>2. t.time = [s.time EXCEPT ![s.numPoints] = s.now + d] /\ t.now = s.now + d
      /\ t.numPoints = s.numPoints + 1
  BY DEF AddPoint
<1>3. ASSUME NEW i \in 0..(s.numPoints - 1) PROVE t.time[i] = s.time[i]
  BY <1>1, <1>2 DEF Index
<1>4. ASSUME NEW i \in s.numPoints..(t.numPoints - 1) PROVE s.now <= t.time[i]
  <2>1. i = s.numPoints /\ t.time[i] = s.now + d
    BY <1>1, <1>2
  <2> QED
    BY <1>1, <2>1
<1> QED
  BY <1>1, <1>2, <1>3, <1>4 DEF ExtendedBy

\* sim_flush_cut_batch writes behind the last point, or drops the batch.
LEMMA FlushedExtends ==
  ASSUME NEW s, Trace(s), Batch, s.numPoints + Len(cutBatch) <= MaxPoints
  PROVE  ExtendedBy(s, Flushed(s))
<1> DEFINE t == Flushed(s)
<1>1. s.numPoints \in Nat /\ s.numPoints > 0 /\ s.now \in Nat /\ Len(cutBatch) \in Nat
  BY DEF Trace, Batch
<1>2. CASE ~batchLong
  <2>1. t = s /\ s.numPoints..(s.numPoints - 1) = {}
    BY <1>1, <1>2 DEF Flushed
  <2> QED
    BY <1>1, <2>1 DEF ExtendedBy
<1>3. CASE batchLong
  <2>1. /\ t.time = [i \in Index |-> IF InTrace(s, i) THEN BatchTime(s, i) ELSE s.time[i]]
        /\ t.numPoints = s.numPoints + Len(cutBatch)
        /\ t.now = s.now + cutBatch[Len(cutBatch)]
    BY <1>1, <1>3 DEF Flushed, Trace
  <2>2. cutBatch[Len(cutBatch)] \in Nat
    BY <1>1, <1>3 DEF Batch
  <2>3. ASSUME NEW i \in 0..(s.numPoints - 1) PROVE t.time[i] = s.time[i]
    <3>1. i \in Index /\ ~InTrace(s, i)
      BY <1>1, BoundsAssumption DEF Index, InTrace
    <3> QED
      BY <2>1, <3>1
  <2>4. ASSUME NEW i \in s.numPoints..(t.numPoints - 1) PROVE s.now <= t.time[i]
    <3>1. i \in Index /\ InTrace(s, i) /\ i - s.numPoints + 1 \in 1..Len(cutBatch)
      BY <1>1, <2>1, BoundsAssumption DEF Index, InTrace
    <3>2. cutBatch[i - s.numPoints + 1] \in Nat /\ t.time[i] = s.now + cutBatch[i - s.numPoints + 1]
      BY <2>1, <3>1 DEF Batch, BatchTime
    <3> QED
      BY <1>1, <3>2
  <2>5. s.numPoints <= t.numPoints /\ s.now <= t.now
    BY <1>1, <2>1, <2>2
  <2> HIDE DEF t
  <2>6. ExtendedBy(s, t)
    BY <2>3, <2>4, <2>5 DEF ExtendedBy
  <2> QED
    BY <2>6 DEF t
<1> QED
  BY <1>2, <1>3

\* No step gives a point of the trace another time or takes it away, and what is added
\* comes after everything that is there: a later flush cannot reorder it, and during
\* the playback the trace does not change.
THEOREM TraceOnlyGrows == Spec => [][ExtendedBy(sim, sim')]_vars
<1>1. IInv /\ IInv' /\ [Next]_vars => [ExtendedBy(sim, sim')]_vars
  <2> SUFFICES ASSUME IInv, IInv', Next
               PROVE  ExtendedBy(sim, sim')
    OBVIOUS
  <2>t. /\ Trace(sim) /\ Trace(sim') /\ Batch
        /\ sim.numPoints \in Nat /\ Len(cutBatch) \in Nat /\ sim.now \in Nat
        /\ sim.numPoints + Len(cutBatch) <= MaxPoints
    BY DEF IInv, Trace, Batch
  <2>f. ExtendedBy(sim, Flushed(sim)) /\ Trace(Flushed(sim))
        /\ Flushed(sim).numPoints <= sim.numPoints + Len(cutBatch)
    BY <2>t, FlushedExtends, FlushedTrace
  <2>1. CASE RapidMove
    <3>1. PICK d \in 0..MaxDuration : sim' = AddPoint(Flushed(sim), d)
      BY <2>1 DEF RapidMove
    <3>2. Flushed(sim).numPoints < MaxPoints
      BY <2>1, <2>t, <2>f, BoundsAssumption DEF RapidMove, RoomFor, Trace
    <3>3. ExtendedBy(Flushed(sim), sim')
      BY <2>f, <3>1, <3>2, AddPointExtends
    <3> QED
      BY <2>t, <2>f, <3>3, ExtendedTwice
  <2>2. CASE EndPath
    BY <2>2, <2>f DEF EndPath
  <2>3. CASE RasterLine
    <3>1. PICK d \in 0..MaxDuration, across \in 0..MaxDuration :
            sim' = AddPoint(AddPoint(sim, d), across)
      BY <2>3 DEF RasterLine
    <3>2. sim.numPoints < MaxPoints /\ sim.numPoints + 1 < MaxPoints
      BY <2>3, <2>t, BoundsAssumption DEF RasterLine, RoomFor
    <3>3. Trace(AddPoint(sim, d)) /\ AddPoint(sim, d).numPoints = sim.numPoints + 1
          /\ ExtendedBy(sim, AddPoint(sim, d))
      BY <2>t, <3>2, AddPointTrace, AddPointExtends
    <3>4. ExtendedBy(AddPoint(sim, d), sim')
      BY <3>1, <3>2, <3>3, AddPointExtends
    <3> QED
      BY <2>t, <3>3, <3>4, ExtendedTwice
  <2>4. CASE UNCHANGED sim
    <3>1. sim.numPoints..(sim.numPoints - 1) = {}
      BY <2>t
    <3> QED
      BY <2>4, <2>t, <3>1 DEF ExtendedBy
  <2>5. AddCutPoint \/ SimulateJob \/ Play => UNCHANGED sim
    BY DEF AddCutPoint, SimulateJob, Play, Tick, SimulationCompleted, Halve, ShowPosition
  <2> QED
    BY <2>1, <2>2, <2>3, <2>4, <2>5 DEF Next, Simulate
<1> QED
  BY <1>1, InitIInv, StepIInv, PTL DEF Spec

-----------------------------------------------------------------------------
(* The playback comes to an end if its timer fires.                        *)

\* Each round at least halves what is left to search, so the loop of a trace of n
\* points makes no more than log2(n) + 1 rounds: it cannot hang the main thread.
SearchHalves == [][Halve => lo' <= hi' /\ 2 * (hi' - lo') <= hi - lo]_vars

\* For every trace the simulation can build, of any length.
THEOREM SearchEnds == Spec => SearchHalves
<1>1. IInv /\ [Next]_vars => [Halve => lo' <= hi' /\ 2 * (hi' - lo') <= hi - lo]_vars
  <2> SUFFICES ASSUME IInv, Halve
               PROVE  lo' <= hi' /\ 2 * (hi' - lo') <= hi - lo
    OBVIOUS
  <2>1. lo \in Nat /\ hi \in Nat /\ lo < hi
    BY DEF IInv, TypeOK, Halve
  <2>2. (lo' = Middle /\ hi' = hi) \/ (lo' = lo /\ hi' = Middle - 1)
    BY DEF Halve
  <2>3. Middle \in Nat /\ lo < Middle /\ Middle <= hi
    BY <2>1, MiddleBetween
  <2>4. 2 * Middle >= lo + hi /\ 2 * Middle <= lo + hi + 1
    BY <2>1 DEF Middle
  <2> QED
    BY <2>1, <2>2, <2>3, <2>4
<1> QED
  BY <1>1, InitIInv, StepIInv, PTL DEF Spec, SearchHalves

\* The playback stands somewhere between what it shows and the end of the trace.
Midway ==
  /\ phase \in {"vector", "raster"} => shown = 0
  /\ phase \in Playing => sim.time[shown] <= simTime /\ simTime <= sim.now

\* It does in every reachable state.
LEMMA MidwayInvariant == Spec => []Midway
<1>1. Init => Midway
  BY DEF Init, Midway, Playing
<1>2. IInv /\ IInv' /\ Midway /\ [Next]_vars => Midway'
  <2> SUFFICES ASSUME IInv, IInv', Midway, [Next]_vars
               PROVE  Midway'
    OBVIOUS
  <2> USE DEF Midway, Playing
  <2>t. /\ simTime \in Nat /\ simTime' \in Nat /\ sim.now \in Nat /\ shown \in 0..Last
        /\ sim.numPoints \in 1..MaxPoints /\ sim.time \in [Index -> Nat]
    BY DEF IInv, TypeOK, Trace
  <2>s. sim.time[shown] \in Nat
    BY <2>t, BoundsAssumption DEF Last, Index
  <2>1. CASE RapidMove \/ AddCutPoint \/ EndPath \/ RasterLine
    BY <2>1 DEF RapidMove, AddCutPoint, EndPath, RasterLine, playVars
  <2>2. CASE SimulateJob
    <3>1. simTime = 0 /\ shown = 0 /\ UNCHANGED <<sim, simTime, shown>> /\ phase' = "play"
      BY <2>2 DEF SimulateJob, playVars, IInv
    <3>2. sim.time[0] = 0
      BY DEF IInv, Trace
    <3> QED
      BY <2>t, <3>1, <3>2
  <2>3. CASE Tick
    <3>1. PICK dt \in 1..MaxTick : simTime + dt < sim.now /\ simTime' = simTime + dt
      BY <2>3 DEF Tick
    <3>2. UNCHANGED <<sim, shown>> /\ phase = "play" /\ phase' = "search"
      BY <2>3 DEF Tick
    <3> QED
      BY <2>t, <2>s, <3>1, <3>2, BoundsAssumption
  <2>4. CASE SimulationCompleted
    BY <2>4 DEF SimulationCompleted
  <2>5. CASE Halve
    BY <2>5 DEF Halve
  <2>6. CASE ShowPosition
    <3>1. phase = "search" /\ phase' = "play" /\ shown' = lo /\ UNCHANGED <<sim, simTime>>
      BY <2>6 DEF ShowPosition
    <3> QED
      BY <3>1 DEF IInv, Searching
  <2>7. CASE UNCHANGED vars
    BY <2>7 DEF vars
  <2> QED
    BY <2>1, <2>2, <2>3, <2>4, <2>5, <2>6, <2>7 DEF Next, Simulate, Play
<1> QED
  BY <1>1, <1>2, InitIInv, StepIInv, PTL DEF Spec

\* The drawn part of the trace never shrinks while the simulation plays, though every
\* tick searches it anew from both ends, and the simulated time never goes back or
\* past the total.
NeverBack ==
  [][(phase \in Playing) => /\ shown <= shown'
                            /\ simTime <= simTime' /\ simTime' <= sim.now]_vars

\* Rests on the order of the trace and on the loop invariant of the search.
THEOREM PlaysForward == Spec => NeverBack
<1>1. IInv /\ Midway /\ Midway' /\ [Next]_vars
        => [(phase \in Playing) => /\ shown <= shown'
                                   /\ simTime <= simTime' /\ simTime' <= sim.now]_vars
  <2> SUFFICES ASSUME IInv, Midway, Next, phase \in Playing
               PROVE  shown <= shown' /\ simTime <= simTime' /\ simTime' <= sim.now
    OBVIOUS
  <2>t. /\ simTime \in Nat /\ sim.now \in Nat /\ shown \in 0..Last /\ lo \in 0..Last
        /\ hi \in 0..Last /\ Last \in Nat
        /\ sim.time[shown] <= simTime /\ simTime <= sim.now
    BY DEF IInv, TypeOK, Trace, Midway, Last
  <2>1. CASE Tick
    <3>1. PICK dt \in 1..MaxTick : simTime + dt < sim.now /\ simTime' = simTime + dt
      BY <2>1 DEF Tick
    <3> QED
      BY <2>1, <2>t, <3>1, BoundsAssumption DEF Tick
  <2>2. CASE SimulationCompleted
    BY <2>2, <2>t DEF SimulationCompleted
  <2>3. CASE Halve
    BY <2>3, <2>t DEF Halve
  <2>4. CASE ShowPosition
    <3>1. phase = "search" /\ lo >= hi /\ shown' = lo /\ UNCHANGED simTime
      BY <2>4 DEF ShowPosition
    <3>2. lo < shown => simTime < sim.time[shown]
      BY <2>t, <3>1 DEF IInv, Searching
    <3>3. sim.time[shown] \in Nat
      BY <2>t, BoundsAssumption DEF IInv, Trace, Index, Last
    <3> QED
      BY <2>t, <3>1, <3>2, <3>3
  <2>5. ~Simulate
    BY DEF Simulate, RapidMove, AddCutPoint, EndPath, RasterLine, SimulateJob, Playing
  <2> QED
    BY <2>1, <2>2, <2>3, <2>4, <2>5 DEF Next, Play
<1> QED
  BY <1>1, InitIInv, StepIInv, MidwayInvariant, PTL DEF Spec, NeverBack
=============================================================================
