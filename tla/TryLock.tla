------------------------------ MODULE TryLock ------------------------------
(* What a hook expects of the claim on its layer's array: a lock that is   *)
(* tried and never waited for.  Several tasks may be trying it; one gets   *)
(* it only while nobody else is, and the others go away without it.        *)

CONSTANT Procs

VARIABLES
    trying, \* the tasks between atomic_inc and atomic_dec
    owner   \* the task that may use the array, if there is one

vars == <<trying, owner>>

Init == trying = {} /\ owner = {}

Enter(p) == p \notin trying /\ trying' = trying \cup {p} /\ UNCHANGED owner

Win(p) == trying = {p} /\ owner = {} /\ owner' = {p} /\ UNCHANGED trying

Done(p) == owner = {p} /\ owner' = {} /\ UNCHANGED trying

Leave(p) == p \in trying \ owner /\ trying' = trying \ {p} /\ UNCHANGED owner

Next == \E p \in Procs : Enter(p) \/ Win(p) \/ Done(p) \/ Leave(p)

Spec == Init /\ [][Next]_vars
=============================================================================
