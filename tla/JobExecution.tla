---------------------------- MODULE JobExecution ----------------------------
(***************************************************************************)
(* What the programs of the repository promise about the laser machine,    *)
(* whatever happens to them and to the link: it is either idle or executes *)
(* one job whose data it has received completely, and it goes from one job *)
(* to another only through an end of the first.                            *)
(***************************************************************************)
CONSTANTS
  Jobs,   \* job objects
  NoJob   \* nothing in execution

VARIABLE executing

Init == executing = NoJob

Begin == executing = NoJob /\ executing' \in Jobs
End   == executing # NoJob /\ executing' = NoJob

Next == Begin \/ End

Spec == Init /\ [][Next]_executing
=============================================================================
