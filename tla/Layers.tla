------------------------------- MODULE Layers -------------------------------
(***************************************************************************)
(* What tells the layers of IOPro apart.  Every hook and every thread is   *)
(* the program of LayerLog.  A hook differs in the control values under    *)
(* which it records (active) and takes note of a stop (stop).  A layer is  *)
(* the hooks that share an array and the thread that drains it: the values *)
(* the thread takes for running and those that create it (starts), whether *)
(* the hooks write start/end marks, and whether the idle timer waits for a *)
(* record (idleEntry).                                                     *)
(***************************************************************************)
EXTENDS Naturals

\* read, pread and write, pwrite, fsync: everything but a stop records.
ReadHook  == [active |-> {1, 3}, stop |-> {2, 4}]
WriteHook == [active |-> {1, 3}, stop |-> {2, 4}]

\* The page cache knows 1 and 2 only.
MmHook == [active |-> {1}, stop |-> {2}]

\* Block requests on submission and on completion, and direct I/O: three
\* hooks, three readings of the control value, one array.
BioHook  == [active |-> {1, 3}, stop |-> {2, 4}]
BioHook2 == [active |-> {1}, stop |-> {2}]
FsHook   == [active |-> {3}, stop |-> {2, 4}]

\* SCSI and NVMe share scsi_log and do not record under 3.
NvmeHook == [active |-> {1}, stop |-> {2, 4}]
ScsiHook == [active |-> {1}, stop |-> {2, 4}]

ReadLayer ==
    [hooks |-> {ReadHook}, running |-> {1, 3}, starts |-> {1, 3},
     marks |-> TRUE, idleEntry |-> FALSE]

\* The second array of the thread for system calls.
WriteLayer ==
    [hooks |-> {WriteHook}, running |-> {1, 3}, starts |-> {1, 3},
     marks |-> FALSE, idleEntry |-> FALSE]

MmLayer ==
    [hooks |-> {MmHook}, running |-> {1}, starts |-> {1},
     marks |-> TRUE, idleEntry |-> FALSE]

BlockLayer ==
    [hooks |-> {BioHook, BioHook2, FsHook}, running |-> {1, 3}, starts |-> {1, 3},
     marks |-> TRUE, idleEntry |-> TRUE]

ScsiLayer ==
    [hooks |-> {NvmeHook, ScsiHook}, running |-> {1, 3}, starts |-> {1, 3},
     marks |-> TRUE, idleEntry |-> FALSE]
=============================================================================
