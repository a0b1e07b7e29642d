------------------------------ MODULE ToolPath ------------------------------
(***************************************************************************)
(* What becomes of the vector paths of a job.  Three interpreters walk the *)
(* same element lists: the compiler, whose commands the machine executes   *)
(* (uls_job_compile), the simulation (uls_job_simulate), and the preview   *)
(* (drawRect).  They keep their state apart, and nothing but the code's    *)
(* symmetry makes them agree on where the tool is and what it cuts.        *)
(*                                                                         *)
(* The elements of a path are immutable once it is part of a job, and each *)
(* interpreter is one pass over them, so a step takes one element through  *)
(* all three.  Any sequence of elements may come: the SVG and PDF parsers  *)
(* put the commands of a file through as they stand.                       *)
(*                                                                         *)
(* Left out: time and speed, laser parameters, the inside of a curve (a    *)
(* Bezier element is the stroke to its end point, which both subdivisions  *)
(* reach exactly), raster images, memory.                                  *)
(***************************************************************************)
EXTENDS Naturals

CONSTANTS
  Points,     \* positions in inches, as floats
  Grid,       \* positions in machine units, a thousandth of an inch
  Units,      \* float_to_units: several points can fall on one grid position
  Home,       \* where the simulation starts: (0, 0)
  Nowhere,    \* no position: of an empty path; of the first MOVE of a path without
  Somewhere,  \* where the machine's head is before the first positioned element
  MaxElements \* bound: elements of a job

ASSUME PointsAssumption ==
  /\ Home \in Points
  /\ Nowhere \notin Points
  /\ Somewhere \notin Grid
  /\ Units \in [Points -> Grid]
  /\ MaxElements \in Nat

VARIABLES
  inPath,    \* a path is being walked; between two paths, a job may end
  walked,    \* elements of the job walked so far
  elements,  \* this path has elements so far (j > 0)
  first,     \* the point of elements[0] if that is a MOVE
  laserOn,   \* the compiler's local flag of this path
  head,      \* machine: position of the tool head
  beam,      \* machine: the laser fires
  burned,    \* machine: strokes travelled with the laser on
  cur,       \* simulation: curX, curY
  batch,     \* simulation: cut strokes whose times are not computed yet
  shown,     \* simulation: strokes of the trace with laserOn
  pen,       \* preview: current point of the NSBezierPath
  subStart,  \* preview: start of its current subpath
  drawn,     \* preview: strokes drawn
  blank,     \* preview: drawing was abandoned by an exception
  strayed    \* history: a subpath other than its path's first has been closed

pathVars == <<inPath, walked, elements, first>>
machineVars == <<laserOn, head, beam, burned>>
simVars == <<cur, batch, shown>>
previewVars == <<pen, subStart, drawn, blank>>
vars == <<pathVars, machineVars, simVars, previewVars, strayed>>

Strokes == Points \X Points
Burns == (Grid \cup {Somewhere}) \X Grid

TypeOK ==
  /\ inPath \in BOOLEAN /\ elements \in BOOLEAN
  /\ walked \in 0..MaxElements
  /\ first \in Points \cup {Nowhere}
  /\ laserOn \in BOOLEAN /\ beam \in BOOLEAN
  /\ head \in Grid \cup {Somewhere}
  /\ burned \subseteq Burns
  /\ cur \in Points
  /\ batch \subseteq Strokes /\ shown \subseteq Strokes
  /\ pen \in Points \cup {Nowhere} /\ subStart \in Points \cup {Nowhere}
  /\ drawn \subseteq Strokes
  /\ blank \in BOOLEAN /\ strayed \in BOOLEAN

\* The stroke on the machine's grid, and whether it has a length there.
InUnits(s) == <<Units[s[1]], Units[s[2]]>>
HasLength(s) == s[1] # s[2]

Init ==
  /\ inPath = FALSE /\ walked = 0 /\ elements = FALSE /\ first = Nowhere
  /\ laserOn = FALSE /\ head = Somewhere /\ beam = FALSE /\ burned = {}
  /\ cur = Home /\ batch = {} /\ shown = {}
  /\ pen = Nowhere /\ subStart = Nowhere /\ drawn = {} /\ blank = FALSE
  /\ strayed = FALSE

-----------------------------------------------------------------------------
(* The machine: LASER_ON and LASER_OFF set the beam, MOVE_ABS, LINE_ABS    *)
(* and BEZIER_ABS move the head and burn if the beam is on.                *)

Travel(lit, u) ==
  /\ head' = u
  /\ burned' = IF lit THEN burned \cup {<<head, u>>} ELSE burned

(* uls_job_compile, one element.                                           *)

\* Mutant of CompileMove: LASER_OFF is left out.
CompileMoveLit(p) ==
  /\ laserOn' = FALSE
  /\ UNCHANGED beam
  /\ Travel(beam, Units[p])

\* LASER_OFF if the flag is on, then MOVE_ABS.
CompileMove(p) ==
  /\ laserOn' = FALSE
  /\ beam' = (beam /\ ~laserOn)
  /\ Travel(beam', Units[p])

\* LASER_ON unless the flag is on, then LINE_ABS or BEZIER_ABS.
CompileDraw(p) ==
  /\ laserOn' = TRUE
  /\ beam' = (beam \/ ~laserOn)
  /\ Travel(beam', Units[p])

\* Mutant of CompileClose: the flag is not reset.
CompileCloseKeepsFlag ==
  /\ beam' = FALSE
  /\ UNCHANGED laserOn
  /\ IF first # Nowhere THEN Travel(beam, Units[first]) ELSE UNCHANGED <<head, burned>>

\* LINE_ABS to the first MOVE of the path if it begins with one, then LASER_OFF.
CompileClose ==
  /\ IF first # Nowhere THEN Travel(beam, Units[first]) ELSE UNCHANGED <<head, burned>>
  /\ beam' = FALSE
  /\ laserOn' = FALSE

\* After the last element of a path: LASER_OFF if the flag is on.
CompileEnd ==
  /\ beam' = (beam /\ ~laserOn)
  /\ UNCHANGED <<laserOn, head, burned>>

-----------------------------------------------------------------------------
(* uls_job_simulate, one element.                                          *)

\* sim_flush_cut_batch: a batch without any length is dropped.
Flush ==
  /\ batch' = {}
  /\ shown' = IF \E s \in batch : HasLength(s) THEN shown \cup batch ELSE shown

\* Mutant of SimulateEnd: what is left of the batch is lost with the next path.
SimulateEndUnflushed == UNCHANGED simVars

SimulateEnd == Flush /\ UNCHANGED cur

SimulateMove(p) == Flush /\ cur' = p

SimulateCut(p) ==
  /\ batch' = batch \cup {<<cur, p>>}
  /\ cur' = p
  /\ UNCHANGED shown

\* Mutants of SimulateClose: whether the path begins with a MOVE is not asked; the
\* position is not carried along.
SimulateCloseUnchecked == SimulateCut(first)

SimulateCloseStays ==
  IF first # Nowhere
  THEN batch' = batch \cup {<<cur, first>>} /\ UNCHANGED <<cur, shown>>
  ELSE UNCHANGED simVars

SimulateClose == IF first # Nowhere THEN SimulateCut(first) ELSE UNCHANGED simVars

-----------------------------------------------------------------------------
(* drawRect, one element.  NSBezierPath refuses a line without a current   *)
(* point: the exception ends the drawing.                                  *)

Stroke(p) ==
  /\ drawn' = IF blank THEN drawn ELSE drawn \cup {<<pen, p>>}
  /\ pen' = p
  /\ UNCHANGED <<subStart, blank>>

PreviewMove(p) == pen' = p /\ subStart' = p /\ UNCHANGED <<drawn, blank>>

PreviewDraw(p) ==
  IF pen = Nowhere THEN blank' = TRUE /\ UNCHANGED <<pen, subStart, drawn>> ELSE Stroke(p)

\* Mutant of PreviewClose: CLOSE is passed over.
PreviewCloseIgnored == UNCHANGED previewVars

PreviewClose == IF pen = Nowhere THEN UNCHANGED previewVars ELSE Stroke(subStart)

-----------------------------------------------------------------------------
(* One element through the three interpreters.                             *)

\* The locals of each interpreter's loop over the paths.
BeginPath ==
  /\ ~inPath
  /\ inPath' = TRUE /\ elements' = FALSE /\ first' = Nowhere /\ UNCHANGED walked
  /\ laserOn' = FALSE /\ UNCHANGED <<head, beam, burned>>
  /\ batch' = {} /\ UNCHANGED <<cur, shown>>
  /\ pen' = Nowhere /\ subStart' = Nowhere /\ UNCHANGED <<drawn, blank>>
  /\ UNCHANGED strayed

Element(f) ==
  /\ inPath
  /\ walked < MaxElements
  /\ walked' = walked + 1
  /\ elements' = TRUE
  /\ first' = IF elements THEN first ELSE f
  /\ UNCHANGED inPath

MoveTo(p) ==
  /\ Element(p)
  /\ CompileMove(p) /\ SimulateMove(p) /\ PreviewMove(p)
  /\ UNCHANGED strayed

\* LINE and BEZIER.
DrawTo(p) ==
  /\ Element(Nowhere)
  /\ CompileDraw(p) /\ SimulateCut(p) /\ PreviewDraw(p)
  /\ UNCHANGED strayed

Close ==
  /\ Element(Nowhere)
  /\ CompileClose /\ SimulateClose /\ PreviewClose
  /\ strayed' = (strayed \/ first # subStart)

EndPath ==
  /\ inPath
  /\ inPath' = FALSE /\ UNCHANGED <<walked, elements, first>>
  /\ CompileEnd /\ SimulateEnd
  /\ UNCHANGED <<previewVars, strayed>>

Next ==
  \/ BeginPath
  \/ \E p \in Points : MoveTo(p) \/ DrawTo(p)
  \/ Close
  \/ EndPath

Spec == Init /\ [][Next]_vars

-----------------------------------------------------------------------------
(* Properties.                                                             *)

\* The compiler's flag is the machine's beam all through a path, and the beam is off
\* between two paths and at the end of the job (each path starts its own flag at
\* FALSE without sending LASER_OFF).
BeamFollowsFlag == beam = (inPath /\ laserOn)

\* A rapid move never burns: MOVE_ABS comes after LASER_OFF.
MovesStayDark == [][\A p \in Points : MoveTo(p) => burned' = burned]_vars

\* Once the head has been positioned, the simulation's point is where the machine's
\* head is, through every move, draw and close and from one path to the next.
SimulationFollowsHead == head \in Grid => head = Units[cur]

\* Every stroke the machine burns is a cut of the simulated trace, or will be when the
\* batch is flushed: the playback hides no cut.
CutsAreSimulated ==
  \A s \in burned :
    s[1] \in Grid /\ HasLength(s) => \E t \in shown \cup batch : InUnits(t) = s

\* As long as only first subpaths have been closed, and no path began without a MOVE,
\* the preview draws every stroke the machine burns.
SimpleCutsAreDrawn ==
  ~strayed /\ ~blank => \A s \in burned : HasLength(s) => \E t \in drawn : InUnits(t) = s

\* "Line back to start": closing a subpath burns no stroke that the preview, which
\* closes the current subpath, does not draw.
CutsAreDrawn ==
  ~blank => \A s \in burned : HasLength(s) => \E t \in drawn : InUnits(t) = s
=============================================================================
