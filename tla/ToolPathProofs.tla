--------------------------- MODULE ToolPathProofs ---------------------------
(***************************************************************************)
(* Theorems about ToolPath: for every set of points, every rounding to     *)
(* machine units, and jobs of any length.                                  *)
(***************************************************************************)
EXTENDS ToolPath, TLAPS

USE PointsAssumption DEF PointsAssumption

-----------------------------------------------------------------------------
(* Type correctness.                                                       *)

\* Rounding leads to the grid.
LEMMA UnitsType == \A p \in Points : Units[p] \in Grid
OBVIOUS

\* Whatever the machine is told, it stays on its grid.
LEMMA MachineType ==
  ASSUME TypeOK, NEW p \in Points, CompileMove(p) \/ CompileDraw(p)
  PROVE  /\ head' \in Grid
         /\ burned' \subseteq Burns
         /\ laserOn' \in BOOLEAN /\ beam' \in BOOLEAN
<1>1. Units[p] \in Grid
  BY UnitsType
<1>2. <<head, Units[p]>> \in Burns
  BY <1>1 DEF TypeOK, Burns
<1>3. laserOn' \in BOOLEAN /\ beam' \in BOOLEAN
  BY DEF CompileMove, CompileDraw
<1> QED
  BY <1>1, <1>2, <1>3 DEF TypeOK, CompileMove, CompileDraw, Travel

\* CLOSE, too, keeps the machine on it.
LEMMA CloseType ==
  ASSUME TypeOK, CompileClose
  PROVE  /\ head' \in Grid \cup {Somewhere}
         /\ burned' \subseteq Burns
         /\ laserOn' \in BOOLEAN /\ beam' \in BOOLEAN
<1>1. first # Nowhere => Units[first] \in Grid /\ <<head, Units[first]>> \in Burns
  BY UnitsType DEF TypeOK, Burns
<1> QED
  BY <1>1 DEF TypeOK, CompileClose, Travel

\* The simulation stays among the points.
LEMMA SimulationType ==
  ASSUME TypeOK,
         \/ \E p \in Points : SimulateMove(p) \/ SimulateCut(p)
         \/ SimulateClose \/ SimulateEnd
  PROVE  cur' \in Points /\ batch' \subseteq Strokes /\ shown' \subseteq Strokes
<1>1. CASE \E p \in Points : SimulateMove(p) \/ SimulateEnd
  BY <1>1 DEF TypeOK, SimulateMove, SimulateEnd, Flush
<1>2. ASSUME NEW p \in Points, SimulateCut(p)
      PROVE  cur' \in Points /\ batch' \subseteq Strokes /\ shown' \subseteq Strokes
  <2>1. <<cur, p>> \in Strokes
    BY DEF TypeOK, Strokes
  <2> QED BY <1>2, <2>1 DEF TypeOK, SimulateCut
<1>3. CASE SimulateClose
  <2>1. CASE first # Nowhere
    BY <1>2, <1>3, <2>1 DEF TypeOK, SimulateClose
  <2>2. CASE first = Nowhere
    BY <1>3, <2>2 DEF TypeOK, SimulateClose, simVars
  <2> QED BY <2>1, <2>2
<1>4. CASE SimulateEnd
  BY <1>4 DEF TypeOK, SimulateEnd, Flush
<1> QED
  BY <1>1, <1>2, <1>3, <1>4

\* So does the preview, and its pen exists when its subpath does.
LEMMA PreviewType ==
  ASSUME TypeOK, pen = Nowhere <=> subStart = Nowhere,
         PreviewClose \/ \E p \in Points : PreviewMove(p) \/ PreviewDraw(p)
  PROVE  /\ pen' \in Points \cup {Nowhere} /\ subStart' \in Points \cup {Nowhere}
         /\ drawn' \subseteq Strokes /\ blank' \in BOOLEAN
         /\ pen' = Nowhere <=> subStart' = Nowhere
<1>1. ASSUME NEW p \in Points, pen # Nowhere, Stroke(p)
      PROVE  /\ pen' \in Points \cup {Nowhere} /\ subStart' \in Points \cup {Nowhere}
             /\ drawn' \subseteq Strokes /\ blank' \in BOOLEAN
             /\ pen' = Nowhere <=> subStart' = Nowhere
  <2>1. <<pen, p>> \in Strokes
    BY <1>1 DEF TypeOK, Strokes
  <2> QED BY <1>1, <2>1 DEF TypeOK, Stroke
<1>2. ASSUME NEW p \in Points, PreviewMove(p) \/ (PreviewDraw(p) /\ pen = Nowhere)
      PROVE  /\ pen' \in Points \cup {Nowhere} /\ subStart' \in Points \cup {Nowhere}
             /\ drawn' \subseteq Strokes /\ blank' \in BOOLEAN
             /\ pen' = Nowhere <=> subStart' = Nowhere
  BY <1>2 DEF TypeOK, PreviewMove, PreviewDraw
<1>3. CASE PreviewClose
  <2>1. CASE pen = Nowhere
    BY <1>3, <2>1 DEF TypeOK, PreviewClose, previewVars
  <2>2. CASE pen # Nowhere
    BY <1>1, <1>3, <2>2 DEF TypeOK, PreviewClose
  <2> QED BY <2>1, <2>2
<1> QED
  BY <1>1, <1>2, <1>3 DEF PreviewDraw

-----------------------------------------------------------------------------
(* The inductive invariant.                                                *)

\* Between two paths nothing waits in the batch.
BatchFlushed == ~inPath => batch = {}

\* The preview's pen exists when its subpath does, and while the preview is on the
\* machine's track it is where the head is.
PenOnTrack ==
  /\ pen = Nowhere <=> subStart = Nowhere
  /\ inPath /\ ~strayed /\ ~blank /\ pen # Nowhere => head = Units[pen]

InterpretersAgree ==
  /\ TypeOK
  /\ BeamFollowsFlag
  /\ SimulationFollowsHead
  /\ BatchFlushed
  /\ CutsAreSimulated
  /\ PenOnTrack
  /\ SimpleCutsAreDrawn

-----------------------------------------------------------------------------
(* Facts about strokes.                                                    *)

\* What the flush drops has no length, in inches or in machine units.
LEMMA FlushKeeps ==
  ASSUME TypeOK, Flush
  PROVE  \A t \in shown \cup batch : HasLength(InUnits(t)) => t \in shown' \cup batch'
BY DEF Flush, HasLength, InUnits

\* A stroke is rounded at both ends.
LEMMA InUnitsPair ==
  \A p, q : InUnits(<<p, q>>) = <<Units[p], Units[q]>>
BY DEF InUnits

\* Cuts stay simulated when the machine burns nothing new and the trace loses no
\* stroke of any length.
LEMMA CutsKept ==
  ASSUME CutsAreSimulated, burned' = burned,
         \A t \in shown \cup batch : HasLength(InUnits(t)) => t \in shown' \cup batch'
  PROVE  CutsAreSimulated'
BY DEF CutsAreSimulated, HasLength, InUnits

\* A cut to p is simulated when the head was where the simulation was.
LEMMA CutTaken ==
  ASSUME TypeOK, SimulationFollowsHead, CutsAreSimulated, NEW p \in Points, NEW lit \in BOOLEAN,
         Travel(lit, Units[p]), SimulateCut(p)
  PROVE  CutsAreSimulated'
<1>1. \A t \in shown \cup batch : t \in shown' \cup batch'
  BY DEF SimulateCut
<1>2. ASSUME NEW s \in burned PROVE s[1] \in Grid /\ HasLength(s) => \E t \in shown' \cup batch' : InUnits(t) = s
  BY <1>1, <1>2 DEF CutsAreSimulated
<1>3. head \in Grid => \E t \in shown' \cup batch' : InUnits(t) = <<head, Units[p]>>
  <2> SUFFICES ASSUME head \in Grid PROVE \E t \in shown' \cup batch' : InUnits(t) = <<head, Units[p]>>
    OBVIOUS
  <2>1. <<cur, p>> \in shown' \cup batch'
    BY DEF SimulateCut
  <2>2. InUnits(<<cur, p>>) = <<head, Units[p]>>
    BY InUnitsPair DEF SimulationFollowsHead
  <2> QED BY <2>1, <2>2
<1>4. \A s \in burned' : s \in burned \/ s = <<head, Units[p]>>
  BY DEF Travel
<1>5. ASSUME NEW s \in burned', s[1] \in Grid, HasLength(s)
      PROVE  \E t \in shown' \cup batch' : InUnits(t) = s
  <2>1. CASE s \in burned
    BY <1>2, <1>5, <2>1
  <2>2. CASE s = <<head, Units[p]>>
    BY <1>3, <1>5, <2>2
  <2> QED BY <1>4, <2>1, <2>2
<1>6. CutsAreSimulated' <=> \A s \in burned' :
        s[1] \in Grid /\ HasLength(s) => \E t \in shown' \cup batch' : InUnits(t) = s
  BY DEF CutsAreSimulated, HasLength, InUnits
<1> QED
  BY <1>5, <1>6

\* A stroke to p drawn by a preview on the machine's track covers the one burned.
LEMMA StrokeCovers ==
  ASSUME NEW p \in Points, NEW lit \in BOOLEAN, Travel(lit, Units[p]), Stroke(p),
         ~blank, head = Units[pen],
         \A s \in burned : HasLength(s) => \E t \in drawn : InUnits(t) = s
  PROVE  SimpleCutsAreDrawn'
<1>1. drawn' = drawn \cup {<<pen, p>>}
  BY DEF Stroke
<1>2. InUnits(<<pen, p>>) = <<head, Units[p]>>
  BY InUnitsPair
<1>3. \A s \in burned' : s \in burned \/ s = <<head, Units[p]>>
  BY DEF Travel
<1>4. ASSUME NEW s \in burned', HasLength(s)
      PROVE  \E t \in drawn' : InUnits(t) = s
  BY <1>1, <1>2, <1>3, <1>4
<1>5. (\A s \in burned' : HasLength(s) => \E t \in drawn' : InUnits(t) = s) => SimpleCutsAreDrawn'
  BY DEF SimpleCutsAreDrawn, HasLength, InUnits
<1> QED
  BY <1>4, <1>5

\* Cuts stay drawn when the machine burns nothing new.
LEMMA DrawnKept ==
  ASSUME SimpleCutsAreDrawn, burned' = burned, drawn \subseteq drawn',
         ~strayed' => ~strayed, ~blank' => ~blank
  PROVE  SimpleCutsAreDrawn'
BY DEF SimpleCutsAreDrawn, HasLength, InUnits

-----------------------------------------------------------------------------
(* Each kind of element.                                                   *)

\* A MOVE keeps the three in agreement and burns nothing.
LEMMA MoveToKeeps ==
  ASSUME InterpretersAgree, NEW p \in Points, MoveTo(p)
  PROVE  InterpretersAgree' /\ burned' = burned
<1> USE DEF InterpretersAgree
<1>1. TypeOK'
  <2>1. /\ inPath' \in BOOLEAN /\ elements' \in BOOLEAN /\ walked' \in 0..MaxElements
        /\ first' \in Points \cup {Nowhere}
    BY DEF MoveTo, Element, TypeOK
  <2>2. strayed' \in BOOLEAN
    BY DEF MoveTo, TypeOK
  <2> QED BY <2>1, <2>2, MachineType, SimulationType, PreviewType DEF MoveTo, TypeOK, PenOnTrack
<1>2. beam' = FALSE /\ laserOn' = FALSE /\ burned' = burned /\ head' = Units[p]
  BY DEF MoveTo, CompileMove, Travel, BeamFollowsFlag, Element
<1>3. BeamFollowsFlag' /\ BatchFlushed'
  BY <1>2 DEF BeamFollowsFlag, BatchFlushed, MoveTo, Element
<1>4. SimulationFollowsHead'
  BY <1>2 DEF SimulationFollowsHead, MoveTo, SimulateMove
<1>5. CutsAreSimulated'
  BY <1>2, FlushKeeps, CutsKept DEF MoveTo, SimulateMove
<1>6. PenOnTrack'
  BY <1>2 DEF PenOnTrack, MoveTo, PreviewMove
<1>7. SimpleCutsAreDrawn'
  BY <1>2, DrawnKept DEF MoveTo, PreviewMove
<1> QED
  BY <1>1, <1>2, <1>3, <1>4, <1>5, <1>6, <1>7

\* A LINE or BEZIER cuts the same stroke in all of them.
LEMMA DrawToKeeps ==
  ASSUME InterpretersAgree, NEW p \in Points, DrawTo(p)
  PROVE  InterpretersAgree'
<1> USE DEF InterpretersAgree
<1>1. TypeOK'
  <2>1. /\ inPath' \in BOOLEAN /\ elements' \in BOOLEAN /\ walked' \in 0..MaxElements
        /\ first' \in Points \cup {Nowhere}
    BY DEF DrawTo, Element, TypeOK
  <2>2. strayed' \in BOOLEAN
    BY DEF DrawTo, TypeOK
  <2> QED BY <2>1, <2>2, MachineType, SimulationType, PreviewType DEF DrawTo, TypeOK, PenOnTrack
<1>2. beam' = TRUE /\ laserOn' = TRUE /\ inPath' = TRUE /\ head' = Units[p]
  BY DEF DrawTo, CompileDraw, Travel, BeamFollowsFlag, Element
<1>3. BeamFollowsFlag' /\ BatchFlushed'
  BY <1>2 DEF BeamFollowsFlag, BatchFlushed
<1>4. SimulationFollowsHead'
  BY <1>2 DEF SimulationFollowsHead, DrawTo, SimulateCut
<1>t. Travel(TRUE, Units[p])
  BY <1>2 DEF DrawTo, CompileDraw
<1>5. CutsAreSimulated'
  BY <1>t, CutTaken DEF DrawTo
<1>6. PenOnTrack' /\ SimpleCutsAreDrawn'
  <2>1. CASE pen = Nowhere
    BY <2>1 DEF DrawTo, PreviewDraw, PenOnTrack, SimpleCutsAreDrawn
  <2>2. CASE pen # Nowhere
    <3>1. Stroke(p) /\ strayed' = strayed
      BY <2>2 DEF DrawTo, PreviewDraw
    <3>2. PenOnTrack'
      BY <1>2, <2>2, <3>1 DEF PenOnTrack, Stroke, TypeOK
    <3>3. CASE ~strayed /\ ~blank
      <4>1. head = Units[pen]
        BY <2>2, <3>3 DEF PenOnTrack, DrawTo, Element
      <4> QED BY <1>t, <3>1, <3>2, <3>3, <4>1, StrokeCovers DEF SimpleCutsAreDrawn
    <3>4. CASE strayed \/ blank
      BY <3>1, <3>2, <3>4 DEF SimpleCutsAreDrawn, Stroke
    <3> QED BY <3>3, <3>4
  <2> QED BY <2>1, <2>2
<1> QED
  BY <1>1, <1>3, <1>4, <1>5, <1>6

\* A CLOSE goes back to the same point, except in a preview that has strayed.
LEMMA CloseKeeps ==
  ASSUME InterpretersAgree, Close
  PROVE  InterpretersAgree'
<1> USE DEF InterpretersAgree
<1>1. TypeOK'
  <2>1. /\ inPath' \in BOOLEAN /\ elements' \in BOOLEAN /\ walked' \in 0..MaxElements
        /\ first' \in Points \cup {Nowhere}
    BY DEF Close, Element, TypeOK
  <2>2. strayed' \in BOOLEAN
    BY DEF Close, TypeOK
  <2> QED BY <2>1, <2>2, CloseType, SimulationType, PreviewType DEF Close, TypeOK, PenOnTrack
<1>2. beam' = FALSE /\ laserOn' = FALSE /\ inPath' = TRUE
  BY DEF Close, CompileClose, Element
<1>3. BeamFollowsFlag' /\ BatchFlushed'
  BY <1>2 DEF BeamFollowsFlag, BatchFlushed
<1>4. CASE first = Nowhere
  <2>1. head' = head /\ burned' = burned /\ cur' = cur /\ batch' = batch /\ shown' = shown
    BY <1>4 DEF Close, CompileClose, SimulateClose, simVars
  <2>2. SimulationFollowsHead' /\ CutsAreSimulated'
    BY <2>1, CutsKept DEF SimulationFollowsHead
  <2>3. CASE pen = Nowhere
    <3>1. UNCHANGED previewVars
      BY <2>3 DEF Close, PreviewClose
    <3>2. PenOnTrack'
      BY <2>3, <3>1 DEF previewVars, PenOnTrack
    <3>3. SimpleCutsAreDrawn'
      BY <2>1, <3>1, DrawnKept DEF Close, previewVars
    <3> QED BY <1>1, <1>3, <2>2, <3>2, <3>3
  <2>4. CASE pen # Nowhere
    <3>1. strayed' = TRUE
      BY <1>4, <2>4 DEF Close, PenOnTrack
    <3>2. PenOnTrack'
      BY <1>1, <2>4, <3>1 DEF Close, PreviewClose, Stroke, PenOnTrack, TypeOK
    <3> QED BY <1>1, <1>3, <2>2, <3>1, <3>2 DEF SimpleCutsAreDrawn
  <2> QED BY <1>1, <1>3, <2>2, <2>3, <2>4
<1>5. CASE first # Nowhere
  <2>0. first \in Points
    BY <1>5 DEF TypeOK
  <2>1. Travel(beam, Units[first]) /\ SimulateCut(first) /\ beam \in BOOLEAN
    BY <1>5 DEF Close, CompileClose, SimulateClose, TypeOK
  <2>2. SimulationFollowsHead' /\ CutsAreSimulated'
    BY <2>0, <2>1, CutTaken DEF SimulationFollowsHead, Travel, SimulateCut
  <2>3. CASE strayed'
    <3>1. PenOnTrack'
      BY <1>1, <2>3 DEF Close, PreviewClose, Stroke, PenOnTrack, TypeOK, previewVars
    <3> QED BY <1>1, <1>3, <2>2, <2>3, <3>1 DEF SimpleCutsAreDrawn
  <2>4. CASE ~strayed'
    <3>1. first = subStart /\ ~strayed /\ pen # Nowhere
      BY <1>5, <2>4 DEF Close, PenOnTrack
    <3>2. Stroke(first)
      BY <3>1 DEF Close, PreviewClose
    <3>3. PenOnTrack'
      BY <2>0, <2>1, <3>1, <3>2 DEF PenOnTrack, Stroke, Travel
    <3>4. CASE blank
      BY <1>1, <1>3, <2>2, <3>2, <3>3, <3>4 DEF SimpleCutsAreDrawn, Stroke
    <3>5. CASE ~blank
      <4>1. head = Units[pen]
        BY <3>1, <3>5 DEF PenOnTrack, Close, Element
      <4>2. SimpleCutsAreDrawn'
        BY <2>0, <2>1, <3>1, <3>2, <3>5, <4>1, StrokeCovers DEF SimpleCutsAreDrawn
      <4> QED BY <1>1, <1>3, <2>2, <3>3, <4>2
    <3> QED BY <3>4, <3>5
  <2> QED BY <2>3, <2>4
<1> QED
  BY <1>4, <1>5

\* The three start every path alike.
LEMMA BeginKeeps ==
  ASSUME InterpretersAgree, BeginPath
  PROVE  InterpretersAgree'
<1> USE DEF InterpretersAgree
<1>1. TypeOK'
  BY DEF BeginPath, TypeOK
<1>2. BeamFollowsFlag' /\ BatchFlushed' /\ PenOnTrack'
  BY DEF BeginPath, BeamFollowsFlag, BatchFlushed, PenOnTrack
<1>3. SimulationFollowsHead'
  BY DEF BeginPath, SimulationFollowsHead
<1>4. CutsAreSimulated'
  BY CutsKept DEF BeginPath, BatchFlushed
<1>5. SimpleCutsAreDrawn'
  BY DrawnKept DEF BeginPath
<1> QED
  BY <1>1, <1>2, <1>3, <1>4, <1>5

\* At its end the beam goes off and the batch into the trace.
LEMMA EndKeeps ==
  ASSUME InterpretersAgree, EndPath
  PROVE  InterpretersAgree'
<1> USE DEF InterpretersAgree
<1>1. TypeOK'
  <2>1. beam' \in BOOLEAN
    BY DEF EndPath, CompileEnd
  <2> QED BY <2>1, SimulationType DEF EndPath, CompileEnd, previewVars, TypeOK
<1>2. BeamFollowsFlag' /\ BatchFlushed' /\ PenOnTrack'
  <2>1. beam' = FALSE /\ inPath' = FALSE
    BY DEF EndPath, CompileEnd, BeamFollowsFlag
  <2> QED BY <2>1 DEF EndPath, SimulateEnd, Flush, previewVars, BeamFollowsFlag, BatchFlushed, PenOnTrack
<1>3. SimulationFollowsHead'
  BY DEF EndPath, CompileEnd, SimulateEnd, SimulationFollowsHead
<1>4. CutsAreSimulated'
  BY FlushKeeps, CutsKept DEF EndPath, CompileEnd, SimulateEnd
<1>5. SimpleCutsAreDrawn'
  BY DrawnKept DEF EndPath, CompileEnd, previewVars
<1> QED
  BY <1>1, <1>2, <1>3, <1>4, <1>5

-----------------------------------------------------------------------------
(* The theorems.                                                           *)

\* The three interpreters agree in every reachable state (the inductive invariant).
LEMMA Agreement == Spec => []InterpretersAgree
<1>1. Init => InterpretersAgree
  <2> SUFFICES ASSUME Init PROVE InterpretersAgree
    OBVIOUS
  <2>0. walked \in 0..MaxElements
    BY DEF Init
  <2>s. burned \subseteq Burns /\ batch \subseteq Strokes /\ shown \subseteq Strokes /\ drawn \subseteq Strokes
    BY DEF Init
  <2>b. inPath \in BOOLEAN /\ elements \in BOOLEAN /\ laserOn \in BOOLEAN /\ beam \in BOOLEAN
    BY DEF Init
  <2>p. /\ first \in Points \cup {Nowhere} /\ head \in Grid \cup {Somewhere} /\ cur \in Points
        /\ pen \in Points \cup {Nowhere} /\ subStart \in Points \cup {Nowhere}
        /\ blank \in BOOLEAN /\ strayed \in BOOLEAN
    BY DEF Init
  <2>1. TypeOK
    BY <2>0, <2>s, <2>b, <2>p DEF TypeOK
  <2>2. BeamFollowsFlag /\ BatchFlushed /\ PenOnTrack
    BY DEF Init, BeamFollowsFlag, BatchFlushed, PenOnTrack
  <2>3. SimulationFollowsHead
    BY DEF Init, SimulationFollowsHead
  <2>4. CutsAreSimulated /\ SimpleCutsAreDrawn
    BY DEF Init, CutsAreSimulated, SimpleCutsAreDrawn
  <2> QED BY <2>1, <2>2, <2>3, <2>4 DEF InterpretersAgree
<1>2. InterpretersAgree /\ [Next]_vars => InterpretersAgree'
  <2> SUFFICES ASSUME InterpretersAgree, [Next]_vars PROVE InterpretersAgree'
    OBVIOUS
  <2>1. CASE BeginPath
    BY <2>1, BeginKeeps
  <2>2. ASSUME NEW p \in Points, MoveTo(p) PROVE InterpretersAgree'
    BY <2>2, MoveToKeeps
  <2>3. ASSUME NEW p \in Points, DrawTo(p) PROVE InterpretersAgree'
    BY <2>3, DrawToKeeps
  <2>4. CASE Close
    BY <2>4, CloseKeeps
  <2>5. CASE EndPath
    BY <2>5, EndKeeps
  <2>6. CASE UNCHANGED vars
    BY <2>6 DEF vars, pathVars, machineVars, simVars, previewVars, InterpretersAgree, TypeOK,
       BeamFollowsFlag, SimulationFollowsHead, BatchFlushed, CutsAreSimulated, PenOnTrack,
       SimpleCutsAreDrawn, HasLength, InUnits
  <2> QED BY <2>1, <2>2, <2>3, <2>4, <2>5, <2>6 DEF Next
<1> QED
  BY <1>1, <1>2, PTL DEF Spec

\* Every position stays a point or a grid position, every stroke a stroke.
THEOREM ToolPathType == Spec => []TypeOK
BY Agreement, PTL DEF InterpretersAgree

\* The compiler never loses track of the laser: its flag is the beam inside a path, and
\* outside a path the beam is off, for jobs of any shape and length.
THEOREM BeamKnown == Spec => []BeamFollowsFlag
BY Agreement, PTL DEF InterpretersAgree

\* The simulated tool is where the machine's head is.
THEOREM SimulationTracks == Spec => []SimulationFollowsHead
BY Agreement, PTL DEF InterpretersAgree

\* The simulation shows every cut of the machine.
THEOREM NoHiddenCut == Spec => []CutsAreSimulated
BY Agreement, PTL DEF InterpretersAgree

\* The preview draws every cut of a job whose paths close only their first subpath.
THEOREM SimpleJobsAsDrawn == Spec => []SimpleCutsAreDrawn
BY Agreement, PTL DEF InterpretersAgree

\* Rapid moves never burn.
THEOREM RapidsDark == Spec => MovesStayDark
<1>1. InterpretersAgree /\ [Next]_vars => [\A p \in Points : MoveTo(p) => burned' = burned]_vars
  BY MoveToKeeps
<1> QED
  BY <1>1, Agreement, PTL DEF Spec, MovesStayDark

-----------------------------------------------------------------------------
(* What the drawing and the simulation can get wrong, and how.             *)

\* A CLOSE of another subpath than the path's first.
CloseAstray == Close /\ first # subStart

\* CutsAreDrawn, which the code does not keep, fails through such a CLOSE and through
\* nothing else: the compiler goes to the first point of the path, the preview to that
\* of the subpath.
THEOREM OnlyStrayClosesHideCuts == Spec /\ [][~CloseAstray]_vars => []CutsAreDrawn
<1>1. Init => ~strayed
  BY DEF Init
<1>2. InterpretersAgree /\ ~strayed /\ [Next]_vars /\ [~CloseAstray]_vars => ~strayed'
  BY DEF InterpretersAgree, TypeOK, Next, BeginPath, MoveTo, DrawTo, Close, EndPath, CloseAstray, vars
<1>3. InterpretersAgree /\ ~strayed => CutsAreDrawn
  BY DEF InterpretersAgree, SimpleCutsAreDrawn, CutsAreDrawn
<1> QED
  BY <1>1, <1>2, <1>3, Agreement, PTL DEF Spec

\* A CLOSE that nothing has been cut before since the last MOVE, away from the first
\* point of the path: the machine goes back in the dark (LASER_ON is sent by LINE and
\* BEZIER only), the simulation cuts.
CloseInTheDark == Close /\ ~beam /\ first # Nowhere /\ cur # first

\* A simulated stroke the machine has burned; that from the corner may be the job's
\* first, from wherever the head was.
IsBurned(t) ==
  \/ InUnits(t) \in burned
  \/ t[1] = Home /\ <<Somewhere, Units[t[2]]>> \in burned

SimulationInventsNoCut == \A t \in shown \cup batch : HasLength(t) => IsBurned(t)

\* The head has not moved before the simulation does.
StartTogether == head = Somewhere => cur = Home

\* The first element with a position moves both.
LEMMA StartTogetherKept == TypeOK /\ StartTogether /\ [Next]_vars => StartTogether'
<1> SUFFICES ASSUME TypeOK, StartTogether, [Next]_vars PROVE StartTogether'
  OBVIOUS
<1>1. ASSUME NEW p \in Points, MoveTo(p) \/ DrawTo(p) PROVE StartTogether'
  <2>1. head' = Units[p] /\ Units[p] \in Grid
    BY <1>1, UnitsType DEF MoveTo, DrawTo, CompileMove, CompileDraw, Travel
  <2> QED
    BY <2>1 DEF StartTogether
<1>2. CASE Close
  <2>1. CASE first = Nowhere
    BY <1>2, <2>1 DEF StartTogether, Close, CompileClose, SimulateClose, simVars
  <2>2. CASE first # Nowhere
    <3>1. head' = Units[first] /\ Units[first] \in Grid
      BY <1>2, <2>2, UnitsType DEF TypeOK, Close, CompileClose, Travel
    <3> QED
      BY <3>1 DEF StartTogether
  <2> QED
    BY <2>1, <2>2
<1>3. CASE BeginPath \/ EndPath \/ UNCHANGED vars
  BY <1>3 DEF StartTogether, BeginPath, EndPath, CompileEnd, SimulateEnd, vars, machineVars, simVars
<1> QED
  BY <1>1, <1>2, <1>3 DEF Next

\* Nothing is unburned, and a flush adds no stroke.
LEMMA InventedKept ==
  ASSUME SimulationInventsNoCut, burned \subseteq burned',
         \A t \in shown' \cup batch' : HasLength(t) => t \in shown \cup batch \/ IsBurned(t)'
  PROVE  SimulationInventsNoCut'
BY DEF SimulationInventsNoCut, HasLength, IsBurned, InUnits

\* A lit stroke is burned from where the simulation draws it.
LEMMA LitStrokeBurned ==
  ASSUME TypeOK, SimulationFollowsHead, StartTogether, SimulationInventsNoCut, NEW p \in Points,
         Travel(TRUE, Units[p]), SimulateCut(p)
  PROVE  SimulationInventsNoCut'
<1>1. <<head, Units[p]>> \in burned' /\ burned \subseteq burned'
  BY DEF Travel
<1>2. ASSUME NEW t, t = <<cur, p>> PROVE IsBurned(t)'
  <2>1. CASE head \in Grid
    <3>1. InUnits(t) = <<head, Units[p]>>
      BY <1>2, <2>1 DEF SimulationFollowsHead, InUnits
    <3> QED
      BY <1>1, <3>1 DEF IsBurned, InUnits
  <2>2. CASE head = Somewhere
    <3>1. t[1] = Home /\ Units[t[2]] = Units[p]
      BY <1>2, <2>2 DEF StartTogether
    <3> QED
      BY <1>1, <2>2, <3>1 DEF IsBurned
  <2> QED
    BY <2>1, <2>2 DEF TypeOK
<1>3. \A t \in shown' \cup batch' : t \in shown \cup batch \/ t = <<cur, p>>
  BY DEF SimulateCut
<1> QED
  BY <1>1, <1>2, <1>3, InventedKept

\* The converse of NoHiddenCut: every stroke of any length that the simulation cuts the
\* machine burns, unless a subpath is closed before anything of it is cut.
THEOREM NoInventedCut == Spec /\ [][~CloseInTheDark]_vars => []SimulationInventsNoCut
<1>1. Init => SimulationInventsNoCut /\ StartTogether
  BY DEF Init, SimulationInventsNoCut, StartTogether
<1>2. InterpretersAgree /\ StartTogether /\ SimulationInventsNoCut /\ [Next]_vars
        /\ [~CloseInTheDark]_vars => SimulationInventsNoCut'
  <2> SUFFICES ASSUME InterpretersAgree, StartTogether, SimulationInventsNoCut, [Next]_vars,
                      [~CloseInTheDark]_vars
               PROVE  SimulationInventsNoCut'
    OBVIOUS
  <2>0. TypeOK /\ BeamFollowsFlag /\ SimulationFollowsHead
    BY DEF InterpretersAgree
  <2>1. ASSUME NEW p \in Points, MoveTo(p) PROVE SimulationInventsNoCut'
    <3>1. burned \subseteq burned' /\ shown' \cup batch' \subseteq shown \cup batch
      BY <2>1 DEF MoveTo, CompileMove, Travel, SimulateMove, Flush
    <3> QED
      BY <3>1, InventedKept
  <2>2. ASSUME NEW p \in Points, DrawTo(p) PROVE SimulationInventsNoCut'
    <3>1. beam' = TRUE
      BY <2>0, <2>2 DEF TypeOK, BeamFollowsFlag, DrawTo, Element, CompileDraw
    <3> QED
      BY <2>0, <2>2, <3>1, LitStrokeBurned DEF DrawTo, CompileDraw
  <2>3. CASE Close
    <3>1. CASE first = Nowhere
      <4>1. burned' = burned /\ shown' = shown /\ batch' = batch
        BY <2>3, <3>1 DEF Close, CompileClose, SimulateClose, simVars
      <4> QED
        BY <4>1, InventedKept
    <3>2. CASE first # Nowhere /\ beam
      <4>1. first \in Points /\ Travel(TRUE, Units[first]) /\ SimulateCut(first)
        BY <2>0, <2>3, <3>2 DEF TypeOK, Close, CompileClose, SimulateClose
      <4> QED
        BY <2>0, <4>1, LitStrokeBurned
    <3>3. CASE first # Nowhere /\ ~beam
      <4>1. walked' # walked
        BY <2>0, <2>3 DEF TypeOK, Close, Element
      <4>2. cur = first
        BY <2>3, <3>3, <4>1 DEF CloseInTheDark, vars, pathVars
      <4>3. burned \subseteq burned' /\ shown' = shown /\ batch' = batch \cup {<<cur, first>>}
        BY <2>3, <3>3 DEF Close, CompileClose, Travel, SimulateClose, SimulateCut
      <4>4. \A t \in shown' \cup batch' : HasLength(t) => t \in shown \cup batch
        BY <4>2, <4>3 DEF HasLength
      <4> QED
        BY <4>3, <4>4, InventedKept
    <3> QED
      BY <2>0, <3>1, <3>2, <3>3 DEF TypeOK
  <2>4. CASE BeginPath \/ EndPath \/ UNCHANGED vars
    <3>1. burned' = burned /\ shown' \cup batch' \subseteq shown \cup batch
      BY <2>4 DEF BeginPath, EndPath, CompileEnd, SimulateEnd, Flush, vars, machineVars, simVars
    <3> QED
      BY <3>1, InventedKept
  <2> QED
    BY <2>1, <2>2, <2>3, <2>4 DEF Next
<1>3. InterpretersAgree => TypeOK
  BY DEF InterpretersAgree
<1> QED
  BY <1>1, <1>2, <1>3, StartTogetherKept, Agreement, PTL DEF Spec
=============================================================================
