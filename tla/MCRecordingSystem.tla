------------------------- MODULE MCRecordingSystem -------------------------
(***************************************************************************)
(* Instances of RecordingSystem, each with the faults it is about.  Agents *)
(* are interchangeable, so runs that check no liveness may permute them.   *)
(***************************************************************************)
EXTENDS RecordingSystem, TLC

Symmetry == Permutations(Agent)

LostAnswers == {"unanswered"}
OutagesAndDisk == {"undelivered", "refuse", "disk"}
ManyFaults == FaultKinds \ {"disk"}
Crashes == {"crash"}
=============================================================================
