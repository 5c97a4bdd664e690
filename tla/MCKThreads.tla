----------------------------- MODULE MCKThreads -----------------------------
(* Instances of KThreads for TLC.                                          *)
EXTENDS KThreads, TLC

CONSTANTS w1, w2, mm, bio

\* Two layers: mm runs under 1 only, bio under 1 and 3.
MCRunAll  == <<mm, bio>>
MCRunSome == <<bio>>

WriterSymmetry == Permutations(Writers)
=============================================================================
