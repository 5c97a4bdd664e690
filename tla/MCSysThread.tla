---------------------------- MODULE MCSysThread -----------------------------
(* Instances of SysThread for TLC.                                         *)
EXTENDS SysThread

\* print_sys_result: + 2 for the reads, nothing for the writes.
MCMargin == [a \in Arrays |-> IF a = "read" THEN 2 ELSE 0]

\* The first two lines fill MEMMAX = 5 to the last byte, the others do not
\* fit together; the third read has no name.
MCWidths == [a \in Arrays |-> IF a = "read" THEN <<2, 3, 0>> ELSE <<2, 3, 3>>]
=============================================================================
