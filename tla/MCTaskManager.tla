--------------------------- MODULE MCTaskManager ----------------------------
(* Task ids are interchangeable, so TLC may treat them as one symmetry set *)
(* in the runs that check safety properties only.                          *)
EXTENDS TaskManager, TLC

TaskSymmetry == Permutations(Tasks)

=============================================================================
