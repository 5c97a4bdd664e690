------------------------------ MODULE MCTcLog ------------------------------
(* Instances of TcLog for TLC.                                             *)
EXTENDS TcLog, TLC

CONSTANTS c1, c2, h1, h2

TaskSymmetry == Permutations(Callers) \cup Permutations(ScsiTasks)
=============================================================================
