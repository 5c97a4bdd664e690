--------------------------- MODULE MCRequestTimes ---------------------------
(* Instances of RequestTimes for TLC.                                      *)
EXTENDS RequestTimes, TLC

CONSTANTS q1, q2

\* Reads or writes of three sectors, and a discard of one of them.
MCRequests ==
    {[lba |-> l, discard |-> FALSE] : l \in 0..2} \cup {[lba |-> 1, discard |-> TRUE]}

QueueSymmetry == Permutations(Queues)
=============================================================================
