----------------------------- MODULE MCScanTasks -----------------------------
(* ScanTasks for TLC. *)
EXTENDS ScanTasks

CONSTANTS w1, w2, d1

TwoWorkers == {w1, w2}
OneWorker == {w1}
OneImage == {d1}
=============================================================================
