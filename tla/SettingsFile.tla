---------------------------- MODULE SettingsFile ----------------------------
(***************************************************************************)
(* The printer settings and one .LAS file.  The control window, a run of   *)
(* the command line tool and a print job each hold settings of their own;  *)
(* the first two save them to the file, all three load from it.            *)
(*                                                                         *)
(* Settings are a row of parts in the order in which they lie in the file. *)
(* Pens are the first ones: those whose controls updatePenSettingsUI sets; *)
(* the window's other controls are left out.  A file is cut short, as by   *)
(* an interrupted copy, or replaced by one from elsewhere at any time; a   *)
(* process dies between opening and closing it; the medium may be full, of *)
(* which nobody is told.  The whole structure fits in one buffer, so it    *)
(* reaches the file in one write when it is closed, and is read back in    *)
(* one.  A load looks at the magic number, the version and the length, and *)
(* at no value.                                                            *)
(***************************************************************************)
EXTENDS Integers, Sequences, FiniteSets

CONSTANTS
  Parts,  \* number of parts of the settings
  Pens,   \* the first ones: the pens and the print modes
  Limit,  \* largest value of a part (100 %, 1000 ppi, ...)
  Foreign,  \* what whole files from elsewhere hold, of any values
  MaxSaved  \* bound: so many different settings are saved in a run

ASSUME SizesAssumption ==
  /\ Pens \in Nat /\ Parts \in Nat \ {0} /\ Pens <= Parts
  /\ Limit \in Nat /\ MaxSaved \in Nat

Part == 1..Parts
Pen == 1..Pens
Values == 0..Limit

ASSUME ForeignAssumption == Foreign \subseteq [Part -> Int]

\* What can come to lie in part i: values in range, and those of a file from elsewhere.
Stored(i) == Values \cup {f[i] : f \in Foreign}
Settings == {s \in [Part -> Int] : \A i \in Part : s[i] \in Stored(i)}

\* What may be asked for: also values on either side of the range.
Requests == -1..(Limit + 1)

Holders == {"window", "tool", "print"}
Savers == {"window", "tool"}

VARIABLES
  held,     \* the settings each process holds
  shown,    \* the pen controls of the window
  told,     \* what came of each process's last operation on its settings
  writing,  \* processes that have the file open for writing
  isLas,    \* the file begins with the magic number and a known version
  data,     \* the parts that follow in the file
  saved,    \* history: settings that were handed to a save
  torn      \* history: a load failed in the middle, or its refresh of the controls
            \* did, and they have not been refreshed since

vars == <<held, shown, told, writing, isLas, data, saved, torn>>

\* The type invariant bounds the values, too: nothing but a file from elsewhere takes a
\* part out of its range, and then to no other value than that file's at this part.
TypeOK ==
  /\ held \in [Holders -> Settings]
  /\ shown \in [Pen -> Int] /\ \A i \in Pen : shown[i] \in Stored(i)
  /\ told \in [Holders -> {"none", "saved", "loaded", "failed"}]
  /\ writing \subseteq Savers
  /\ isLas \in BOOLEAN
  /\ data \in Seq(Int) /\ Len(data) <= Parts
  /\ \A i \in 1..Len(data) : data[i] \in Stored(i)
  /\ saved \subseteq Settings
  /\ torn \in BOOLEAN

\* uls_printer_settings_reset.
Default == [i \in Part |-> Limit]

Init ==
  /\ held = [c \in Holders |-> Default]
  /\ shown = [i \in Pen |-> Default[i]]
  /\ told = [c \in Holders |-> "none"]
  /\ writing = {}
  /\ isLas = FALSE /\ data = <<>>
  /\ saved = {}
  /\ torn = FALSE

Hold(c, settings) == held' = [held EXCEPT ![c] = settings]
Tell(c, what) == told' = [told EXCEPT ![c] = what]
PensOf(settings) == [i \in Pen |-> settings[i]]

-----------------------------------------------------------------------------
(* uls_printer_settings_save, by a process that holds s.                   *)

\* fopen empties the file.
Opens(c, s) ==
  /\ c \notin writing
  /\ writing' = writing \cup {c}
  /\ isLas' = FALSE /\ data' = <<>>
  /\ saved' = saved \cup {s} /\ Cardinality(saved') <= MaxSaved

\* fclose writes it, or cannot: SUCCESS all the same.
SaveCloses(c) ==
  /\ c \in writing
  /\ writing' = writing \ {c}
  /\ \/ isLas' = TRUE /\ data' = [i \in Part |-> held[c][i]]
     \/ UNCHANGED <<isLas, data>>
  /\ Tell(c, "saved")
  /\ UNCHANGED <<held, shown, saved, torn>>

-----------------------------------------------------------------------------
(* uls_printer_settings_load into s.                                       *)

\* Mutant of Complete: the result of the last fread is not looked at.
CompleteUnchecked == isLas

Complete == isLas /\ Len(data) = Parts

\* The parts there are overwrite s, also when the file then turns out too short.
Loaded(s) ==
  IF isLas THEN [i \in Part |-> IF i <= Len(data) THEN data[i] ELSE s[i]] ELSE s

LoadInto(c, s) ==
  /\ Hold(c, Loaded(s))
  /\ Tell(c, IF Complete THEN "loaded" ELSE "failed")

-----------------------------------------------------------------------------
(* The control window.  Its handlers run on one thread.                    *)

WindowFree == "window" \notin writing

\* Mutant of Clamp: the lower end is forgotten.
ClampAbove(r) == IF r > Limit THEN Limit ELSE r

Clamp(r) == IF r < 0 THEN 0 ELSE IF r > Limit THEN Limit ELSE r

\* The handlers of a pen's controls and of the global settings.
ChangePart ==
  /\ WindowFree
  /\ \E i \in Part, r \in Requests :
       /\ Hold("window", [held["window"] EXCEPT ![i] = Clamp(r)])
       /\ shown' = [j \in Pen |-> IF j = i THEN Clamp(r) ELSE shown[j]]
  /\ Tell("window", "none")
  /\ UNCHANGED <<writing, isLas, data, saved, torn>>

WindowSaves ==
  /\ Opens("window", held["window"])
  /\ UNCHANGED <<held, shown, told, torn>>

\* Mutant of ControlsFollow: the controls are not told.
ControlsStay == UNCHANGED <<shown, torn>>

\* updatePenSettingsUI.
AllFollow == shown' = PensOf(held'["window"]) /\ torn' = FALSE

\* A mode out of range is looked up behind the end of modeStrings, and an item that a
\* popup does not have is selected: the handler may end at that pen.
SomeFollow ==
  \E n \in Pen :
    /\ held'["window"][n] \notin Values
    /\ shown' = [i \in Pen |-> IF i < n THEN held'["window"][i] ELSE shown[i]]
    /\ torn' = TRUE

ControlsFollow == AllFollow \/ SomeFollow

WindowLoads ==
  /\ WindowFree
  /\ LoadInto("window", held["window"])
  /\ IF Complete
     THEN ControlsFollow
     ELSE UNCHANGED shown /\ torn' = (torn \/ (isLas /\ data # <<>>))
  /\ UNCHANGED <<writing, isLas, data, saved>>

WindowResets ==
  /\ WindowFree
  /\ Hold("window", Default) /\ Tell("window", "none")
  /\ ControlsFollow
  /\ UNCHANGED <<writing, isLas, data, saved>>

\* The application ends at any point and is started again.
WindowDies ==
  /\ Hold("window", Default) /\ Tell("window", "none")
  /\ ControlsFollow
  /\ writing' = writing \ {"window"}
  /\ UNCHANGED <<isLas, data, saved>>

-----------------------------------------------------------------------------
(* The command line tool: every command is a process, which begins with    *)
(* the defaults and takes what it changed with it.                         *)

ToolFree == "tool" \notin writing

\* cmd_pen, cmd_pen_mode: a value out of range is refused.
ToolPen ==
  /\ ToolFree
  /\ \E i \in Pen, r \in Requests :
       \/ r \in Values /\ Hold("tool", [Default EXCEPT ![i] = r]) /\ Tell("tool", "none")
       \/ r \notin Values /\ Hold("tool", Default) /\ Tell("tool", "failed")
  /\ UNCHANGED <<shown, writing, isLas, data, saved, torn>>

ToolSaves ==
  /\ Opens("tool", Default)
  /\ Hold("tool", Default) /\ Tell("tool", "none")
  /\ UNCHANGED <<shown, torn>>

ToolLoads ==
  /\ ToolFree
  /\ LoadInto("tool", Default)
  /\ UNCHANGED <<shown, writing, isLas, data, saved, torn>>

ToolDies ==
  /\ "tool" \in writing
  /\ writing' = writing \ {"tool"}
  /\ UNCHANGED <<held, shown, told, isLas, data, saved, torn>>

-----------------------------------------------------------------------------
(* A print job: the defaults, the file, then the options one by one.  What *)
(* an incomplete load left is used like the rest.                          *)

PrintLoads ==
  /\ LoadInto("print", Default)
  /\ UNCHANGED <<shown, writing, isLas, data, saved, torn>>

\* apply_option: for one part, or for every pen; out of range it is passed over.
ApplyOption ==
  /\ \E r \in Requests, which \in {Pen} \cup {{i} : i \in Part} :
       Hold("print", [i \in Part |-> IF r \in Values /\ i \in which THEN r ELSE held["print"][i]])
  /\ Tell("print", "none")
  /\ UNCHANGED <<shown, writing, isLas, data, saved, torn>>

-----------------------------------------------------------------------------
(* The file, from outside.                                                 *)

\* A file from elsewhere takes its place: a whole one, with whatever values it has.
FileReplaced ==
  /\ data' \in Foreign /\ isLas' = TRUE
  /\ UNCHANGED <<held, shown, told, writing, saved, torn>>

\* What is copied over it is cut short, or is no settings file at all.
FileCutShort ==
  /\ \E n \in 0..Len(data) : data' = SubSeq(data, 1, n)
  /\ isLas' \in {isLas, FALSE}
  /\ UNCHANGED <<held, shown, told, writing, saved, torn>>

Next ==
  \/ \E c \in Savers : SaveCloses(c)
  \/ ChangePart \/ WindowSaves \/ WindowLoads \/ WindowResets \/ WindowDies
  \/ ToolPen \/ ToolSaves \/ ToolLoads \/ ToolDies
  \/ PrintLoads \/ ApplyOption
  \/ FileReplaced \/ FileCutShort

Spec == Init /\ [][Next]_vars

-----------------------------------------------------------------------------
(* Properties.                                                             *)

\* Who is told that a load succeeded holds exactly what somebody saved or what came as
\* a whole from elsewhere, never a mixture: whoever else opened, wrote, replaced or left
\* the file half done meanwhile, and although the parts are read straight into the
\* settings in use.
LoadedWhole == \A c \in Holders : told[c] = "loaded" => held[c] \in saved \cup Foreign

\* The pen controls show what the window holds, saves and applies, through edits,
\* loads and resets; only after a short file, or one whose values the controls do not
\* have, they may not.
PanelShowsPens == ~torn => shown = PensOf(held["window"])
=============================================================================
