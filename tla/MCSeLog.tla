------------------------------ MODULE MCSeLog ------------------------------
(* Instances of SeLog for TLC.                                             *)
EXTENDS SeLog, TLC

CONSTANTS w1, w2, w3
=============================================================================
