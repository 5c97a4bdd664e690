---------------------------- MODULE LossyQueue ----------------------------
(* What a layer promises of its records: a queue that hands them out in    *)
(* the order they came, each once, and now and then throws away all it     *)
(* still has.  What has left it never comes back.  The promise ends when   *)
(* the queue is spoilt.                                                    *)
EXTENDS Sequences, Functions

CONSTANT Records

VARIABLES
    waiting,    \* the records on their way to the file, in their order
    written,    \* those in the file
    lost,       \* those thrown away
    spoilt      \* nothing is promised any more

vars == <<waiting, written, lost, spoilt>>

Init == waiting = <<>> /\ written = {} /\ lost = {} /\ spoilt = FALSE

Keep(r) ==
    /\ r \notin Range(waiting) \cup written \cup lost
    /\ waiting' = Append(waiting, r) /\ UNCHANGED <<written, lost, spoilt>>

Write ==
    /\ waiting # <<>>
    /\ waiting' = Tail(waiting) /\ written' = written \cup {Head(waiting)}
    /\ UNCHANGED <<lost, spoilt>>

Clear ==
    /\ waiting' = <<>> /\ lost' = lost \cup Range(waiting)
    /\ UNCHANGED <<written, spoilt>>

Spoil == spoilt' = TRUE

Next == (\E r \in Records : Keep(r)) \/ Write \/ Clear \/ Spoil

Spec == Init /\ [][Next]_vars
=============================================================================
