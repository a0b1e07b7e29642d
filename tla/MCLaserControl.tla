--------------------------- MODULE MCLaserControl ---------------------------
(* Small instances of LaserControl for TLC. *)
EXTENDS LaserControl, TLC

CONSTANTS j1, j2

OneJob == {j1}
TwoJobs == {j1, j2}
JobSymmetry == Permutations(TwoJobs)

NoFaults == {}
SoundLink == {"fail", "absent"}
LosesWrites == {"write", "read", "fail", "absent"}
AnyFault == FaultKinds

SaysBusy == {"BUSY"}
SaysEither == {"READY", "BUSY"}
=============================================================================
