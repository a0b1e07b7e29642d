------------------------- MODULE SettingsFileProofs -------------------------
(* What TLAPS proves of SettingsFile, for every number of parts and range. *)
EXTENDS SettingsFile, TLAPS

\* All that is left of a whole file is a prefix of it.
LEMMA Shorter ==
  ASSUME TypeOK, NEW n \in 0..Len(data), data' = SubSeq(data, 1, n)
  PROVE  /\ data' \in Seq(Int) /\ Len(data') = n /\ n <= Len(data)
         /\ n = Len(data) => data' = data
         /\ \A i \in 1..n : data'[i] = data[i] /\ i \in 1..Len(data)
<1>1. data \in Seq(Int) /\ n \in Nat /\ Len(data) \in Nat
  BY DEF TypeOK
<1>2. data' \in Seq(Int) /\ Len(data') = n
  BY <1>1
<1>3. ASSUME n = Len(data) PROVE data' = data
  BY <1>1, <1>3
<1>4. \A i \in 1..n : data'[i] = data[i] /\ i \in 1..Len(data)
  BY <1>1
<1> QED
  BY <1>1, <1>2, <1>3, <1>4

\* A value in range can lie in any part.
LEMMA RangeStored == ASSUME NEW i, NEW v \in Values PROVE v \in Stored(i)
BY DEF Stored

\* The defaults are settings.
LEMMA DefaultInRange == Default \in Settings
<1>1. Limit \in Values
  BY SizesAssumption DEF Values
<1> QED
  BY <1>1, RangeStored, SizesAssumption DEF Default, Settings

\* Clamping brings every request into range.
LEMMA ClampInRange == ASSUME NEW r \in Requests PROVE Clamp(r) \in Values
BY SizesAssumption DEF Clamp, Requests, Values

\* A part of some settings may be given any value in range.
LEMMA SetInRange ==
  ASSUME NEW s \in Settings, NEW i, NEW v \in Values
  PROVE  [s EXCEPT ![i] = v] \in Settings
<1>1. v \in Int
  BY SizesAssumption DEF Values
<1> QED
  BY <1>1, RangeStored DEF Settings

\* A load of any file leaves settings.
LEMMA LoadedInRange == ASSUME TypeOK, NEW s \in Settings PROVE Loaded(s) \in Settings
<1>1. ASSUME NEW i \in Part, i <= Len(data) PROVE data[i] \in Int /\ data[i] \in Stored(i)
  <2>1. data \in Seq(Int) /\ Len(data) \in Nat /\ i \in 1..Len(data)
    BY <1>1, SizesAssumption DEF TypeOK, Part
  <2> QED
    BY <2>1 DEF TypeOK
<1> QED
  BY <1>1 DEF Loaded, Settings

\* The controls as a whole or in part: they show settings.
LEMMA FollowInRange ==
  ASSUME TypeOK, held'["window"] \in Settings, ControlsFollow
  PROVE  shown' \in [Pen -> Int] /\ (\A i \in Pen : shown'[i] \in Stored(i)) /\ torn' \in BOOLEAN
<1>1. \A i \in Pen : i \in Part
  BY SizesAssumption DEF Pen, Part
<1>2. CASE AllFollow
  BY <1>1, <1>2 DEF AllFollow, PensOf, Settings
<1>3. CASE SomeFollow
  <2>1. PICK n \in Pen :
          shown' = [i \in Pen |-> IF i < n THEN held'["window"][i] ELSE shown[i]] /\ torn' = TRUE
    BY <1>3 DEF SomeFollow
  <2>2. \A i \in Pen : held'["window"][i] \in Int /\ held'["window"][i] \in Stored(i)
    BY <1>1 DEF Settings
  <2> QED
    BY <2>1, <2>2 DEF TypeOK
<1> QED
  BY <1>2, <1>3 DEF ControlsFollow

\* What is held, shown and stored stays in range, whichever of the three ways a value
\* is asked for (it is clamped, refused or passed over), but for the values of whole
\* files from elsewhere, which no load looks at: each of these stays in its part, however
\* it is loaded, saved again, cut short and loaded by another process.
THEOREM TypeCorrect == Spec => []TypeOK
<1>p. Pen \subseteq Part
  BY SizesAssumption DEF Pen, Part
<1>d. PensOf(Default) \in [Pen -> Int] /\ \A i \in Pen : PensOf(Default)[i] \in Stored(i)
  BY <1>p, DefaultInRange DEF PensOf, Settings
<1>1. Init => TypeOK
  <2> SUFFICES ASSUME Init PROVE TypeOK
    OBVIOUS
  <2>1. held \in [Holders -> Settings]
    BY DefaultInRange DEF Init
  <2>2. shown \in [Pen -> Int] /\ \A i \in Pen : shown[i] \in Stored(i)
    BY <1>d DEF Init, PensOf
  <2>3. data \in Seq(Int) /\ Len(data) <= Parts /\ \A i \in 1..Len(data) : data[i] \in Stored(i)
    BY SizesAssumption DEF Init
  <2> QED
    BY <2>1, <2>2, <2>3 DEF Init, TypeOK, Savers, Holders
<1>2. TypeOK /\ [Next]_vars => TypeOK'
  <2> SUFFICES ASSUME TypeOK, [Next]_vars
               PROVE  TypeOK'
    OBVIOUS
  <2>h. held \in [Holders -> Settings] /\ held["window"] \in Settings /\ held["print"] \in Settings
    BY DEF TypeOK, Holders
  <2>s. \A c \in Savers : c \in Holders
    BY DEF Savers, Holders
  <2>1. ASSUME NEW c \in Savers, SaveCloses(c) PROVE TypeOK'
    <3>1. held[c] \in Settings
      BY <2>h, <2>s
    <3>2. [i \in Part |-> held[c][i]] \in Seq(Int) /\ Len([i \in Part |-> held[c][i]]) = Parts
      BY <3>1, SizesAssumption DEF Part, Settings
    <3>4. \A i \in 1..Parts : [j \in Part |-> held[c][j]][i] \in Stored(i)
      BY <3>1 DEF Part, Settings
    <3>3. data' \in Seq(Int) /\ Len(data') <= Parts /\ isLas' \in BOOLEAN
          /\ \A i \in 1..Len(data') : data'[i] \in Stored(i)
      <4>1. CASE data' = [i \in Part |-> held[c][i]] /\ isLas' = TRUE
        BY <4>1, <3>2, <3>4, SizesAssumption
      <4>2. CASE UNCHANGED <<isLas, data>>
        BY <4>2 DEF TypeOK
      <4> QED
        BY <2>1, <4>1, <4>2 DEF SaveCloses
    <3> QED
      BY <2>1, <2>s, <3>3 DEF SaveCloses, Tell, TypeOK
  <2>2. CASE ChangePart
    <3>1. PICK i \in Part, r \in Requests :
            /\ Hold("window", [held["window"] EXCEPT ![i] = Clamp(r)])
            /\ shown' = [j \in Pen |-> IF j = i THEN Clamp(r) ELSE shown[j]]
      BY <2>2 DEF ChangePart
    <3>2. Clamp(r) \in Values /\ Clamp(r) \in Int
      BY ClampInRange, SizesAssumption DEF Values
    <3>3. held' \in [Holders -> Settings]
      BY <3>1, <3>2, <2>h, SetInRange DEF Hold, Holders
    <3>4. shown' \in [Pen -> Int] /\ \A j \in Pen : shown'[j] \in Stored(j)
      BY <3>1, <3>2, RangeStored DEF TypeOK
    <3> QED
      BY <2>2, <3>3, <3>4 DEF ChangePart, Tell, TypeOK, Holders
  <2>3. CASE WindowSaves \/ ToolSaves
    <3>1. \E c \in Savers, s \in Settings : Opens(c, s)
      BY <2>3, <2>h, DefaultInRange DEF WindowSaves, ToolSaves, Savers
    <3>2. data' \in Seq(Int) /\ Len(data') <= Parts /\ isLas' \in BOOLEAN
          /\ \A i \in 1..Len(data') : data'[i] \in Stored(i)
      <4>1. data' = <<>> /\ isLas' = FALSE
        BY <3>1 DEF Opens
      <4>2. data' \in Seq(Int) /\ \A i \in 1..Len(data') : data'[i] \in Stored(i)
        BY <4>1
      <4>3. Len(data') <= Parts
        BY <4>1, SizesAssumption
      <4> QED
        BY <4>1, <4>2, <4>3
    <3>3. writing' \subseteq Savers /\ saved' \subseteq Settings
      BY <3>1 DEF Opens, TypeOK
    <3>4. UNCHANGED <<shown, torn>> /\ held' \in [Holders -> Settings]
          /\ told' \in [Holders -> {"none", "saved", "loaded", "failed"}]
      BY <2>3, <2>h, DefaultInRange DEF WindowSaves, ToolSaves, Hold, Tell, TypeOK, Holders
    <3> QED
      BY <3>2, <3>3, <3>4 DEF TypeOK
  <2>4. CASE WindowLoads
    <3>1. held' \in [Holders -> Settings] /\ held'["window"] \in Settings
      BY <2>4, <2>h, LoadedInRange DEF WindowLoads, LoadInto, Hold, Holders
    <3>2. shown' \in [Pen -> Int] /\ (\A i \in Pen : shown'[i] \in Stored(i)) /\ torn' \in BOOLEAN
      <4>1. CASE ControlsFollow
        BY <4>1, <3>1, FollowInRange
      <4>2. CASE UNCHANGED shown /\ torn' = (torn \/ (isLas /\ data # <<>>))
        BY <4>2 DEF TypeOK
      <4> QED
        BY <2>4, <4>1, <4>2 DEF WindowLoads
    <3> QED
      BY <2>4, <3>1, <3>2 DEF WindowLoads, LoadInto, Tell, TypeOK, Holders
  <2>5. CASE WindowResets \/ WindowDies
    <3>1. held' \in [Holders -> Settings] /\ held'["window"] = Default
      BY <2>5, <2>h, DefaultInRange DEF WindowResets, WindowDies, Hold, Holders
    <3>2. shown' \in [Pen -> Int] /\ (\A i \in Pen : shown'[i] \in Stored(i)) /\ torn' \in BOOLEAN
      BY <2>5, <3>1, DefaultInRange, FollowInRange DEF WindowResets, WindowDies
    <3> QED
      BY <2>5, <3>1, <3>2 DEF WindowResets, WindowDies, Tell, TypeOK, Holders
  <2>6. CASE ToolPen
    <3>1. held' \in [Holders -> Settings]
      BY <2>6, <2>h, DefaultInRange, SetInRange DEF ToolPen, Hold, Holders
    <3> QED
      BY <2>6, <3>1 DEF ToolPen, Tell, TypeOK, Holders
  <2>7. CASE ToolLoads \/ PrintLoads
    <3>1. held' \in [Holders -> Settings]
      BY <2>7, <2>h, LoadedInRange, DefaultInRange DEF ToolLoads, PrintLoads, LoadInto, Hold, Holders
    <3> QED
      BY <2>7, <3>1 DEF ToolLoads, PrintLoads, LoadInto, Tell, TypeOK, Holders
  <2>8. CASE ApplyOption
    <3>1. held' \in [Holders -> Settings]
      <4>1. PICK r \in Requests, which \in {Pen} \cup {{i} : i \in Part} :
              Hold("print", [i \in Part |-> IF r \in Values /\ i \in which THEN r ELSE held["print"][i]])
        BY <2>8 DEF ApplyOption
      <4>2. Values \subseteq Int
        BY SizesAssumption DEF Values
      <4>3. [i \in Part |-> IF r \in Values /\ i \in which THEN r ELSE held["print"][i]] \in Settings
        BY <4>2, <2>h, RangeStored DEF Settings
      <4> QED
        BY <4>1, <4>3, <2>h DEF Hold, Holders
    <3> QED
      BY <2>8, <3>1 DEF ApplyOption, Tell, TypeOK, Holders
  <2>9. CASE FileCutShort
    <3>1. PICK n \in 0..Len(data) : data' = SubSeq(data, 1, n)
      BY <2>9 DEF FileCutShort
    <3>2. data' \in Seq(Int) /\ Len(data') = n /\ n <= Len(data)
          /\ \A i \in 1..n : data'[i] = data[i] /\ i \in 1..Len(data)
      BY <3>1, Shorter
    <3>3. \A i \in 1..Len(data') : data'[i] \in Stored(i)
      BY <3>2 DEF TypeOK
    <3>4. Len(data') <= Parts
      BY <3>2, SizesAssumption DEF TypeOK
    <3> QED
      BY <2>9, <3>2, <3>3, <3>4 DEF FileCutShort, TypeOK
  <2>11. CASE FileReplaced
    <3>1. PICK f \in Foreign : data' = f
      BY <2>11 DEF FileReplaced
    <3>2. f \in [Part -> Int] /\ \A i \in Part : f[i] \in Stored(i)
      BY ForeignAssumption DEF Stored
    <3>3. data' \in Seq(Int) /\ Len(data') = Parts
      BY <3>1, <3>2, SizesAssumption DEF Part
    <3>4. \A i \in 1..Len(data') : data'[i] \in Stored(i)
      BY <3>1, <3>2, <3>3 DEF Part
    <3>5. Len(data') <= Parts
      BY <3>3, SizesAssumption
    <3> QED
      BY <2>11, <3>3, <3>4, <3>5 DEF FileReplaced, TypeOK
  <2>10. CASE ToolDies \/ UNCHANGED vars
    BY <2>10 DEF ToolDies, vars, TypeOK
  <2> QED
    BY <2>1, <2>2, <2>3, <2>4, <2>5, <2>6, <2>7, <2>8, <2>9, <2>10, <2>11 DEF Next
<1> QED
  BY <1>1, <1>2, PTL DEF Spec

-----------------------------------------------------------------------------
(* Loads.                                                                  *)

\* LoadedWhole rests on what a whole file holds, saved or from elsewhere, and on what will
\* be written to it: a process that has opened it holds settings that count as saved.
WholeFileOfOne ==
  /\ isLas /\ Len(data) = Parts => data \in saved \cup Foreign
  /\ \A c \in writing : held[c] \in saved
  /\ LoadedWhole

\* A whole file replaces everything that was held before.
LEMMA WholeLoad ==
  ASSUME TypeOK, Complete, NEW s PROVE Loaded(s) = data
<1>1. DOMAIN data = Part /\ data = [i \in DOMAIN data |-> data[i]]
  BY SizesAssumption DEF TypeOK, Complete, Part
<1>2. \A i \in Part : i <= Len(data)
  BY SizesAssumption DEF Complete, Part
<1> QED
  BY <1>1, <1>2 DEF Loaded, Complete

\* A load that succeeds returns somebody's saved settings, or those of a file from
\* elsewhere, whole.
THEOREM WholeLoads == Spec => []LoadedWhole
<1>1. Init => WholeFileOfOne
  BY SizesAssumption DEF Init, WholeFileOfOne, LoadedWhole
<1>2. TypeOK /\ WholeFileOfOne /\ [Next]_vars => WholeFileOfOne'
  <2> SUFFICES ASSUME TypeOK, WholeFileOfOne, [Next]_vars
               PROVE  WholeFileOfOne'
    OBVIOUS
  <2> USE DEF WholeFileOfOne, LoadedWhole, Hold, Tell
  <2>h. held \in [Holders -> Settings] /\ told \in [Holders -> {"none", "saved", "loaded", "failed"}]
        /\ writing \subseteq {"window", "tool"}
    BY DEF TypeOK, Savers
  <2>p. {"window", "tool", "print"} = Holders
    BY DEF Holders
  <2>1. ASSUME NEW c \in Savers, SaveCloses(c) PROVE WholeFileOfOne'
    <3>1. held[c] \in saved /\ held[c] \in Settings
      BY <2>1, <2>h, <2>p DEF SaveCloses, Savers
    <3>2. [i \in Part |-> held[c][i]] = held[c]
      BY <3>1 DEF Settings
    <3>3. isLas' /\ Len(data') = Parts => data' \in saved \cup Foreign
      BY <2>1, <3>1, <3>2 DEF SaveCloses
    <3> QED
      BY <2>1, <3>3, <2>h DEF SaveCloses
  <2>2. CASE ChangePart
    BY <2>2, <2>h, <2>p DEF ChangePart, WindowFree
  <2>3. CASE WindowSaves \/ ToolSaves
    <3>1. Len(<<>>) # Parts
      BY SizesAssumption
    <3> QED
      BY <2>3, <3>1, <2>h, <2>p DEF WindowSaves, ToolSaves, Opens
  <2>4. ASSUME NEW c \in Holders, NEW s, LoadInto(c, s), c \notin writing, UNCHANGED <<writing, isLas, data, saved>>
        PROVE  WholeFileOfOne'
    <3>1. \A b \in Holders \ {c} : held'[b] = held[b] /\ told'[b] = told[b]
      BY <2>4, <2>h DEF LoadInto
    <3>2. told'[c] = "loaded" => held'[c] \in saved \cup Foreign
      BY <2>4, <2>h, WholeLoad DEF LoadInto, Complete
    <3>3. \A b \in writing : b \in Holders \ {c}
      BY <2>4, <2>h, <2>p
    <3> QED
      BY <2>4, <3>1, <3>2, <3>3
  <2>5. CASE WindowLoads
    BY <2>5, <2>4, <2>p DEF WindowLoads, WindowFree
  <2>6. CASE ToolLoads
    BY <2>6, <2>4, <2>p DEF ToolLoads, ToolFree
  <2>7. CASE PrintLoads
    BY <2>7, <2>4, <2>h, <2>p DEF PrintLoads
  <2>8. CASE WindowResets \/ WindowDies
    <3>1. "window" \notin writing' /\ writing' \subseteq writing
          /\ UNCHANGED <<isLas, data, saved>>
      BY <2>8 DEF WindowResets, WindowDies, WindowFree
    <3>2. /\ \A b \in Holders \ {"window"} : held'[b] = held[b] /\ told'[b] = told[b]
          /\ told'["window"] = "none"
      BY <2>8, <2>h, <2>p DEF WindowResets, WindowDies
    <3>3. \A b \in writing' : b \in Holders \ {"window"}
      BY <3>1, <2>h, <2>p
    <3> QED
      BY <3>1, <3>2, <3>3
  <2>9. CASE ToolPen
    BY <2>9, <2>h, <2>p DEF ToolPen, ToolFree
  <2>10. CASE ApplyOption
    BY <2>10, <2>h, <2>p DEF ApplyOption
  <2>11. CASE FileCutShort
    <3>1. isLas' /\ Len(data') = Parts => isLas /\ data' = data
      <4>1. PICK n \in 0..Len(data) : data' = SubSeq(data, 1, n)
        BY <2>11 DEF FileCutShort
      <4>2. Len(data') = n /\ n <= Len(data) /\ (n = Len(data) => data' = data)
        BY <4>1, Shorter
      <4>3. Len(data) <= Parts /\ Len(data) \in Nat
        BY DEF TypeOK
      <4>4. isLas' => isLas
        BY <2>11 DEF FileCutShort
      <4> QED
        BY <4>2, <4>3, <4>4, SizesAssumption
    <3> QED
      BY <2>11, <3>1 DEF FileCutShort
  <2>14. CASE FileReplaced
    BY <2>14 DEF FileReplaced
  <2>12. CASE ToolDies
    BY <2>12 DEF ToolDies
  <2>13. CASE UNCHANGED vars
    BY <2>13 DEF vars
  <2> QED
    BY <2>1, <2>2, <2>3, <2>5, <2>6, <2>7, <2>8, <2>9, <2>10, <2>11, <2>12, <2>13, <2>14 DEF Next
<1>3. WholeFileOfOne => LoadedWhole
  BY DEF WholeFileOfOne
<1> QED
  BY <1>1, <1>2, <1>3, TypeCorrect, PTL DEF Spec

-----------------------------------------------------------------------------
(* Loads that fail in the middle.                                          *)

\* The first n parts of t on top of s.
Stitched(t, s, n) == [i \in Part |-> IF i <= n THEN t[i] ELSE s[i]]

\* A settings file, however short, begins like one of the settings that were saved or
\* came from elsewhere; and what is about to be written counts as saved.
FileBeginsAsOne ==
  /\ isLas => \E t \in saved \cup Foreign : \A i \in 1..Len(data) : data[i] = t[i]
  /\ \A c \in writing : held[c] \in saved

\* No save, cut or crash mixes two of them.
LEMMA FileBeginsInvariant == Spec => []FileBeginsAsOne
<1>1. Init => FileBeginsAsOne
  BY DEF Init, FileBeginsAsOne
<1>2. TypeOK /\ FileBeginsAsOne /\ [Next]_vars => FileBeginsAsOne'
  <2> SUFFICES ASSUME TypeOK, FileBeginsAsOne, [Next]_vars
               PROVE  FileBeginsAsOne'
    OBVIOUS
  <2> USE DEF FileBeginsAsOne, Hold, Tell
  <2>h. held \in [Holders -> Settings] /\ writing \subseteq {"window", "tool"}
        /\ {"window", "tool", "print"} = Holders
    BY DEF TypeOK, Savers, Holders
  <2>1. ASSUME NEW c \in Savers, SaveCloses(c) PROVE FileBeginsAsOne'
    <3>1. held[c] \in saved /\ saved' = saved
      BY <2>1 DEF SaveCloses
    <3>2. CASE data' = [i \in Part |-> held[c][i]]
      <4>1. \A i \in 1..Len(data') : data'[i] = held[c][i]
        BY <3>2, SizesAssumption DEF Part
      <4> QED
        BY <2>1, <3>1, <4>1 DEF SaveCloses
    <3>3. CASE UNCHANGED <<isLas, data>>
      BY <2>1, <3>3 DEF SaveCloses
    <3> QED
      BY <2>1, <3>2, <3>3 DEF SaveCloses
  <2>2. CASE WindowSaves \/ ToolSaves
    BY <2>2, <2>h DEF WindowSaves, ToolSaves, Opens
  <2>3. CASE FileCutShort
    <3>1. PICK n \in 0..Len(data) : data' = SubSeq(data, 1, n)
      BY <2>3 DEF FileCutShort
    <3>2. Len(data') = n /\ \A i \in 1..n : data'[i] = data[i] /\ i \in 1..Len(data)
      BY <3>1, Shorter DEF TypeOK
    <3>3. UNCHANGED <<held, writing, saved>>
      BY <2>3 DEF FileCutShort
    <3>4. isLas' => isLas
      BY <2>3 DEF FileCutShort
    <3>5. isLas' => \E t \in saved \cup Foreign : \A i \in 1..Len(data') : data'[i] = t[i]
      BY <3>2, <3>3, <3>4
    <3> QED
      BY <3>3, <3>5
  <2>9. CASE FileReplaced
    BY <2>9 DEF FileReplaced
  \* What remains leaves the file alone, and a process that writes keeps its settings.
  <2>4. ASSUME NEW c \in Holders, c \notin writing', writing' \subseteq writing,
               \A b \in Holders \ {c} : held'[b] = held[b],
               UNCHANGED <<isLas, data, saved>>
        PROVE  FileBeginsAsOne'
    <3>1. \A b \in writing' : b \in Holders \ {c} /\ b \in writing
      BY <2>4, <2>h
    <3> QED
      BY <2>4, <3>1
  <2>5. CASE ChangePart \/ WindowLoads \/ WindowResets \/ WindowDies
    <3>1. "window" \notin writing' /\ writing' \subseteq writing /\ UNCHANGED <<isLas, data, saved>>
      BY <2>5 DEF ChangePart, WindowLoads, WindowResets, WindowDies, WindowFree
    <3>2. \A b \in Holders \ {"window"} : held'[b] = held[b]
      BY <2>5, <2>h DEF ChangePart, WindowLoads, LoadInto, WindowResets, WindowDies
    <3> QED
      BY <2>4, <2>h, <3>1, <3>2
  <2>6. CASE ToolPen \/ ToolLoads \/ ToolDies
    <3>1. "tool" \notin writing' /\ writing' \subseteq writing /\ UNCHANGED <<isLas, data, saved>>
      BY <2>6 DEF ToolPen, ToolLoads, ToolDies, ToolFree
    <3>2. \A b \in Holders \ {"tool"} : held'[b] = held[b]
      BY <2>6, <2>h DEF ToolPen, ToolLoads, LoadInto, ToolDies
    <3> QED
      BY <2>4, <2>h, <3>1, <3>2
  <2>7. CASE PrintLoads \/ ApplyOption
    <3>1. "print" \notin writing' /\ writing' \subseteq writing /\ UNCHANGED <<isLas, data, saved>>
      BY <2>7, <2>h DEF PrintLoads, ApplyOption
    <3>2. \A b \in Holders \ {"print"} : held'[b] = held[b]
      BY <2>7, <2>h DEF PrintLoads, LoadInto, ApplyOption
    <3> QED
      BY <2>4, <2>h, <3>1, <3>2
  <2>8. CASE UNCHANGED vars
    BY <2>8 DEF vars
  <2> QED
    BY <2>1, <2>2, <2>3, <2>5, <2>6, <2>7, <2>8, <2>9 DEF Next
<1> QED
  BY <1>1, <1>2, TypeCorrect, PTL DEF Spec

\* A load that fails on a short file leaves a process with the beginning of one setting
\* that was saved or came from elsewhere and the rest of its own, never with parts of two
\* files, whoever opened, wrote, replaced and cut the file in the meantime.
THEOREM LoadsStitchOnce ==
  Spec => [][\A c \in Holders, s \in Settings :
               LoadInto(c, s) => \E t \in saved \cup Foreign \cup {s}, n \in 0..Parts :
                                   held'[c] = Stitched(t, s, n)]_vars
<1>1. TypeOK /\ FileBeginsAsOne
        => \A c \in Holders, s \in Settings :
             LoadInto(c, s) => \E t \in saved \cup Foreign \cup {s}, n \in 0..Parts :
                                 held'[c] = Stitched(t, s, n)
  <2> SUFFICES ASSUME TypeOK, FileBeginsAsOne, NEW c \in Holders, NEW s \in Settings, LoadInto(c, s)
               PROVE  \E t \in saved \cup Foreign \cup {s}, n \in 0..Parts : held'[c] = Stitched(t, s, n)
    OBVIOUS
  <2>1. held'[c] = Loaded(s)
    BY DEF LoadInto, Hold, TypeOK
  <2>2. CASE isLas
    <3>1. PICK t \in saved \cup Foreign : \A i \in 1..Len(data) : data[i] = t[i]
      BY <2>2 DEF FileBeginsAsOne
    <3>2. Len(data) \in 0..Parts
      BY SizesAssumption DEF TypeOK
    <3>3. \A i \in Part : i <= Len(data) => i \in 1..Len(data)
      BY <3>2, SizesAssumption DEF Part
    <3>4. Loaded(s) = Stitched(t, s, Len(data))
      BY <2>2, <3>1, <3>3 DEF Loaded, Stitched
    <3> QED
      BY <2>1, <3>2, <3>4
  <2>3. CASE ~isLas
    <3>1. Loaded(s) = Stitched(s, s, 0) /\ 0 \in 0..Parts
      BY <2>3, SizesAssumption DEF Loaded, Stitched, Settings
    <3> QED
      BY <2>1, <3>1
  <2> QED
    BY <2>2, <2>3
<1> QED
  BY <1>1, TypeCorrect, FileBeginsInvariant, PTL DEF Spec

-----------------------------------------------------------------------------
(* The controls.                                                           *)

\* Every handler that changes the window's settings changes its controls alike, but for
\* a load that fails in the middle and a refresh that meets a value of no control.
THEOREM PanelTrue == Spec => []PanelShowsPens
<1>1. Init => PanelShowsPens
  BY SizesAssumption DEF Init, PanelShowsPens, PensOf, Default, Pen, Part, Holders
<1>2. TypeOK /\ PanelShowsPens /\ [Next]_vars => PanelShowsPens'
  <2> SUFFICES ASSUME TypeOK, PanelShowsPens, [Next]_vars
               PROVE  PanelShowsPens'
    OBVIOUS
  <2> USE DEF PanelShowsPens
  <2>h. held \in [Holders -> Settings] /\ held["window"] \in Settings
    BY DEF TypeOK, Holders
  <2>1. CASE UNCHANGED <<shown, torn>> /\ held'["window"] = held["window"]
    BY <2>1 DEF PensOf
  <2>2. CASE ChangePart
    <3>1. PICK i \in Part, r \in Requests :
            /\ held' = [held EXCEPT !["window"] = [held["window"] EXCEPT ![i] = Clamp(r)]]
            /\ shown' = [j \in Pen |-> IF j = i THEN Clamp(r) ELSE shown[j]]
      BY <2>2 DEF ChangePart, Hold
    <3>2. held'["window"] = [held["window"] EXCEPT ![i] = Clamp(r)]
      BY <3>1, <2>h DEF Holders
    <3>3. ASSUME shown = PensOf(held["window"]), NEW j \in Pen
          PROVE  shown'[j] = held'["window"][j]
      <4>1. j \in Part
        BY SizesAssumption DEF Pen, Part
      <4> QED
        BY <3>1, <3>2, <3>3, <4>1, <2>h DEF PensOf, Settings
    <3>4. torn' = torn
      BY <2>2 DEF ChangePart
    <3> QED
      BY <3>1, <3>3, <3>4 DEF PensOf
  <2>3. CASE WindowLoads
    <3>1. CASE Complete
      BY <2>3, <3>1 DEF WindowLoads, ControlsFollow, AllFollow, SomeFollow
    <3>2. CASE ~Complete /\ ~torn'
      <4>1. shown' = shown /\ ~torn /\ ~(isLas /\ data # <<>>)
        BY <2>3, <3>2 DEF WindowLoads
      <4>2. Loaded(held["window"]) = held["window"]
        <5>1. CASE ~isLas
          BY <5>1 DEF Loaded
        <5>2. CASE data = <<>>
          <6>1. \A i \in Part : ~(i <= Len(data))
            BY <5>2, SizesAssumption DEF Part
          <6> QED
            BY <6>1, <2>h DEF Loaded, Settings
        <5> QED
          BY <4>1, <5>1, <5>2
      <4>3. held'["window"] = held["window"]
        BY <2>3, <4>2, <2>h DEF WindowLoads, LoadInto, Hold, Holders
      <4> QED
        BY <4>1, <4>3
    <3> QED
      BY <3>1, <3>2
  <2>4. CASE WindowResets \/ WindowDies
    BY <2>4 DEF WindowResets, WindowDies, ControlsFollow, AllFollow, SomeFollow
  <2>5. ASSUME NEW c \in Savers, SaveCloses(c) PROVE PanelShowsPens'
    BY <2>5, <2>1 DEF SaveCloses
  <2>6. CASE WindowSaves \/ ToolDies \/ FileReplaced \/ FileCutShort \/ UNCHANGED vars
    BY <2>6, <2>1 DEF WindowSaves, ToolDies, FileReplaced, FileCutShort, vars
  <2>7. CASE ToolPen \/ ToolSaves \/ ToolLoads
    BY <2>7, <2>1, <2>h DEF ToolPen, ToolSaves, ToolLoads, LoadInto, Hold, Holders
  <2>8. CASE PrintLoads \/ ApplyOption
    BY <2>8, <2>1, <2>h DEF PrintLoads, ApplyOption, LoadInto, Hold, Holders
  <2> QED
    BY <2>2, <2>3, <2>4, <2>5, <2>6, <2>7, <2>8 DEF Next
<1> QED
  BY <1>1, <1>2, TypeCorrect, PTL DEF Spec
=============================================================================
