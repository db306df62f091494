------------------------ MODULE MCShiftApplications ------------------------
(* Small instances of ShiftApplications for TLC. *)
EXTENDS ShiftApplications, TLC

CONSTANTS w1, w2, p1, p2, p3

\* Workers are interchangeable: no definition names one of them.
WorkerSymmetry == Permutations(Worker)
=============================================================================
