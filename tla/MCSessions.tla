----------------------------- MODULE MCSessions -----------------------------
(* Small instances of Sessions for TLC. *)
EXTENDS Sessions, TLC

CONSTANTS p1, p2, p3

TwoProcesses == {p1, p2}
ThreeProcesses == {p1, p2, p3}
ProcessSymmetry == Permutations(ThreeProcesses)
WritesFail == {"write"}
LinkFaults == {"write", "read", "fail", "absent"}
SaysBusy == {"BUSY"}
=============================================================================
