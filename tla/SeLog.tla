------------------------------- MODULE SeLog -------------------------------
(***************************************************************************)
(* The start/end log of fs/aiopro.c: an array of SEMAX marks, each a flag  *)
(* and a time, that hooks of every layer and the debugfs file append to    *)
(* (set_se_log) and the block layer's thread writes out and empties        *)
(* (print_se_result).  Nothing orders them: a step is one access to        *)
(* se_size, which the compiler may keep in a register between two accesses *)
(* of one call.  A mark is the number of its call; whether it is a start   *)
(* or an end is left out.  Stores past the array land nowhere here and are *)
(* noted in past.                                                          *)
(***************************************************************************)
EXTENDS Integers, FiniteSets

CONSTANTS
    Writers,    \* tasks that may mark: hooks and writers of the debugfs file
    SEMAX,      \* capacity of the log (20 in the code)
    MaxMarks,   \* BOUND: marks in all
    MaxSwitch   \* BOUND: starts and stops of logging

ASSUME SeAssumption ==
    /\ IsFiniteSet(Writers) /\ SEMAX \in Nat \ {0}
    /\ MaxMarks \in Nat /\ MaxSwitch \in Nat

VARIABLES
    running,    \* the control value is 1 or 3
    nswitch,    \* number of switches so far
    se_size,    \* next free index
    se_flag,    \* per slot: whose flag it holds
    se_sec,     \* per slot: whose time it holds
    nmarks,     \* calls of set_se_log so far
    pc, me, tmp, \* writers: place, mark at hand, se_size as loaded
    ppc, i,     \* the block thread, in print_se_result: place and loop index
    file,       \* number of lines of each mark in log_se.txt
    torn,       \* a line has the flag of one mark and the time of another
    past,       \* an index past the array was used
    kept,       \* history: the marks that were counted in se_size
    late,       \* history: those counted after the thread's last look at
                \* se_size, or taken back by the clamp of a full log
    overlapped, \* history: two calls of set_se_log overlapped
    raced       \* history: a reset of the log overlapped a call

logVars == <<se_size, se_flag, se_sec>>
ctlVars == <<running, nswitch, nmarks>>
wrVars  == <<pc, me, tmp>>
prVars  == <<ppc, i>>
keptVars == <<kept, late>>
vars    == <<ctlVars, logVars, wrVars, prVars, file, torn, past, keptVars,
             overlapped, raced>>

Mark   == 1 .. MaxMarks
NoMark == 0
Slots  == 0 .. SEMAX - 1
WriterPcs == {"idle", "sec", "flag", "load", "store", "test", "clamp"}

Goto(w, place) == pc' = [pc EXCEPT ![w] = place]
Inside == {w \in Writers : pc[w] # "idle"}

-----------------------------------------------------------------------------
Init ==
    /\ running = FALSE /\ nswitch = 0 /\ nmarks = 0
    /\ se_size = 0
    /\ se_flag = [s \in Slots |-> NoMark]
    /\ se_sec = [s \in Slots |-> NoMark]
    /\ pc = [w \in Writers |-> "idle"] /\ me = [w \in Writers |-> NoMark]
    /\ tmp = [w \in Writers |-> 0]
    /\ ppc = "poll" /\ i = 0
    /\ file = [m \in Mark |-> 0] /\ torn = FALSE /\ past = FALSE
    /\ kept = {} /\ late = {} /\ overlapped = FALSE /\ raced = FALSE

\* set_se_log is entered.
Enter(w) ==
    /\ pc[w] = "idle" /\ nmarks < MaxMarks
    /\ nmarks' = nmarks + 1
    /\ me' = [me EXCEPT ![w] = nmarks + 1]
    /\ overlapped' = (overlapped \/ Inside # {})
    /\ Goto(w, "sec")
    /\ UNCHANGED <<logVars, tmp, prVars, file, torn, past, keptVars, raced>>

\* A hook that finds logging started or stopped, now or a while ago.
HookMarks(w) ==
    /\ Enter(w)
    /\ UNCHANGED <<running, nswitch>>

\* sec_debug_write changes the control value, then marks.
ControlMarks(w) ==
    /\ nswitch < MaxSwitch
    /\ nswitch' = nswitch + 1 /\ running' = ~running
    /\ Enter(w)

StoreSec(w) ==
    /\ pc[w] = "sec"
    /\ tmp' = [tmp EXCEPT ![w] = se_size]
    /\ se_sec' = IF se_size \in Slots THEN [se_sec EXCEPT ![se_size] = me[w]] ELSE se_sec
    /\ past' = (past \/ se_size \notin Slots)
    /\ Goto(w, "flag")
    /\ UNCHANGED <<ctlVars, se_size, se_flag, me, prVars, file, torn,
                   keptVars, overlapped, raced>>

\* se_size as loaded before, or loaded again.
Reload(w) == {tmp[w], se_size}

StoreFlag(w) ==
    /\ pc[w] = "flag"
    /\ \E n \in Reload(w) :
          /\ tmp' = [tmp EXCEPT ![w] = n]
          /\ se_flag' = IF n \in Slots
                        THEN [se_flag EXCEPT ![n] = me[w]]
                        ELSE se_flag
          /\ past' = (past \/ n \notin Slots)
    /\ Goto(w, "load")
    /\ UNCHANGED <<ctlVars, se_size, se_sec, me, prVars, file, torn,
                   keptVars, overlapped, raced>>

Load(w) ==
    /\ pc[w] = "load"
    /\ \E n \in Reload(w) : tmp' = [tmp EXCEPT ![w] = n]
    /\ Goto(w, "store")
    /\ UNCHANGED <<ctlVars, logVars, me, prVars, file, torn, past,
                   keptVars, overlapped, raced>>

Bump(w) ==
    /\ pc[w] = "store"
    /\ se_size' = tmp[w] + 1
    /\ tmp' = [tmp EXCEPT ![w] = @ + 1]
    /\ kept' = kept \cup {me[w]}
    /\ late' = IF ppc = "reset" THEN late \cup {me[w]} ELSE late
    /\ Goto(w, "test")
    /\ UNCHANGED <<ctlVars, se_flag, se_sec, me, prVars, file, torn, past,
                   overlapped, raced>>

\* Mutant: the last slot is allowed for.
TestLate(w) ==
    /\ pc[w] = "test"
    /\ \E n \in Reload(w) : Goto(w, IF n > SEMAX THEN "clamp" ELSE "idle")
    /\ UNCHANGED <<ctlVars, logVars, me, tmp, prVars, file, torn, past,
                   keptVars, overlapped, raced>>

Test(w) ==
    /\ pc[w] = "test"
    /\ \E n \in Reload(w) : Goto(w, IF n >= SEMAX THEN "clamp" ELSE "idle")
    /\ UNCHANGED <<ctlVars, logVars, me, tmp, prVars, file, torn, past,
                   keptVars, overlapped, raced>>

\* Mutant: the index is put back one slot too far.
ClampOne(w) ==
    /\ pc[w] = "clamp"
    /\ se_size' = SEMAX
    /\ late' = late \cup {me[w]}
    /\ Goto(w, "idle")
    /\ UNCHANGED <<ctlVars, se_flag, se_sec, me, tmp, prVars, file, torn,
                   past, kept, overlapped, raced>>

\* Mutant: a full log starts over.
ClampZero(w) ==
    /\ pc[w] = "clamp"
    /\ se_size' = 0
    /\ late' = late \cup {me[w]}
    /\ Goto(w, "idle")
    /\ UNCHANGED <<ctlVars, se_flag, se_sec, me, tmp, prVars, file, torn,
                   past, kept, overlapped, raced>>

\* The log never holds more than SEMAX - 1 marks: the next ones share a slot.
Clamp(w) ==
    /\ pc[w] = "clamp"
    /\ se_size' = SEMAX - 1
    /\ late' = late \cup {me[w]}
    /\ Goto(w, "idle")
    /\ UNCHANGED <<ctlVars, se_flag, se_sec, me, tmp, prVars, file, torn,
                   past, kept, overlapped, raced>>

WriterStep(w) ==
    StoreSec(w) \/ StoreFlag(w) \/ Load(w) \/ Bump(w) \/ Test(w) \/ Clamp(w)

-----------------------------------------------------------------------------
(* print_se_result, called whenever the block thread polls a stopped log,  *)
(* and the thread as far as it ends and is made again.                     *)

\* Mutant: a single mark waits, as a single record does in the other logs.
HasTwoMarks == ~running /\ se_size >= 2

HasMarks == ~running /\ se_size > 0

\* The file opens; it may also fail to, and the next poll tries again.
Visit ==
    /\ ppc = "poll" /\ HasMarks
    /\ ppc' = "scan" /\ i' = 0
    /\ UNCHANGED <<ctlVars, logVars, wrVars, file, torn, past,
                   keptVars, overlapped, raced>>

Scan ==
    /\ ppc = "scan" /\ i < se_size
    /\ LET m == IF i \in Slots THEN se_sec[i] ELSE NoMark IN
       /\ file' = IF m # NoMark /\ file[m] < 2 THEN [file EXCEPT ![m] = @ + 1] ELSE file
       /\ torn' = (torn \/ (i \in Slots /\ se_flag[i] # m))
    /\ past' = (past \/ i \notin Slots)
    /\ i' = i + 1
    /\ UNCHANGED <<ctlVars, logVars, wrVars, ppc, keptVars, overlapped, raced>>

\* The text is written, synced and closed.
Scanned ==
    /\ ppc = "scan" /\ i >= se_size
    /\ ppc' = "reset"
    /\ UNCHANGED <<ctlVars, logVars, wrVars, i, file, torn, past,
                   keptVars, overlapped, raced>>

\* Mutant: the log is not emptied.
ResetForgotten ==
    /\ ppc = "reset"
    /\ raced' = (raced \/ Inside # {})
    /\ ppc' = "poll" /\ i' = 0
    /\ UNCHANGED <<ctlVars, logVars, wrVars, file, torn, past,
                   keptVars, overlapped>>

Reset ==
    /\ ppc = "reset"
    /\ se_size' = 0
    /\ raced' = (raced \/ Inside # {})
    /\ ppc' = "poll" /\ i' = 0
    /\ UNCHANGED <<ctlVars, se_flag, se_sec, wrVars, file, torn, past,
                   keptVars, overlapped>>

PrinterStep == Visit \/ Scan \/ Scanned \/ Reset

\* Between two polls the thread ends, because BIO_PATH does not open or after
\* a write of 990, and a later start makes a new one (KThreads says when).
ThreadEnds ==
    /\ ppc = "poll" /\ ppc' = "gone"
    /\ UNCHANGED <<ctlVars, logVars, wrVars, i, file, torn, past,
                   keptVars, overlapped, raced>>

ThreadStarts ==
    /\ ppc = "gone" /\ ppc' = "poll"
    /\ UNCHANGED <<ctlVars, logVars, wrVars, i, file, torn, past,
                   keptVars, overlapped, raced>>

Next ==
    \/ \E w \in Writers : HookMarks(w) \/ ControlMarks(w) \/ WriterStep(w)
    \/ PrinterStep \/ ThreadEnds \/ ThreadStarts

Spec == Init /\ [][Next]_vars

\* A call of set_se_log keeps running, and so does the thread between its ends;
\* SE_PATH opens sooner or later (a failure only sets se_fo, which nobody
\* reads, and the next poll tries again).  Nothing makes the thread end, or
\* start again.
FairSpec ==
    /\ Spec
    /\ \A w \in Writers : WF_vars(WriterStep(w))
    /\ WF_vars(PrinterStep)
-----------------------------------------------------------------------------
\* Types.
TypeOK ==
    /\ running \in BOOLEAN /\ nswitch \in 0..MaxSwitch /\ nmarks \in 0..MaxMarks
    /\ se_size \in Nat
    /\ se_flag \in [Slots -> Mark \cup {NoMark}]
    /\ se_sec \in [Slots -> Mark \cup {NoMark}]
    /\ pc \in [Writers -> WriterPcs] /\ me \in [Writers -> Mark \cup {NoMark}]
    /\ \A w \in Writers : pc[w] # "idle" => me[w] # NoMark
    /\ tmp \in [Writers -> Nat]
    /\ ppc \in {"poll", "scan", "reset", "gone"} /\ i \in Nat
    /\ file \in [Mark -> 0..2] /\ torn \in BOOLEAN /\ past \in BOOLEAN
    /\ kept \subseteq Mark /\ late \subseteq Mark
    /\ overlapped \in BOOLEAN /\ raced \in BOOLEAN

\* The index is put back by whoever pushed it past the array: when nobody is
\* left who still has to, it is inside, however the calls interleaved.
SettledIsInside ==
    se_size >= SEMAX =>
        \E w \in Writers : pc[w] = "clamp" \/ (pc[w] = "test" /\ tmp[w] >= SEMAX)

\* Only calls that overlap can use an index past the array; the thread, which
\* resets the index under them, cannot make a single one do so.
OverrunNeedsOverlap == past => overlapped

\* If no two calls overlapped and no reset fell into one, every line of the
\* file is one mark, written once, although the thread reads while they mark.
FileIsCleanUnlessRaced ==
    ~overlapped /\ ~raced => ~torn /\ \A m \in Mark : file[m] <= 1

Waiting == {se_sec[s] : s \in {t \in Slots : t < se_size}}
Lost == {m \in kept : file[m] = 0 /\ m \notin Waiting}

\* A counted mark is lost only by the reset, and then it came after the
\* thread's last look at the size, or because the log is full.
WindowOrFull ==
    \/ Lost' \subseteq Lost
    \/ ppc = "reset" /\ ppc' = "poll"
          /\ Lost' \ Lost \subseteq {se_sec[s] : s \in {t \in Slots : t >= i}}
    \/ se_size >= SEMAX /\ Lost' \ Lost \subseteq {se_sec[SEMAX - 1]}
MarksLostInTheWindowOrFull == [][overlapped' \/ raced' \/ WindowOrFull]_vars

\* After a final stop every counted mark reaches the file, unless the block
\* thread is gone or calls overlapped one another or the reset: but for the
\* marks that were counted between the thread's last look and its reset, and
\* those a full log took back.
MarksAreWritten ==
    <>[](~running /\ ppc # "gone") =>
        <>[](overlapped \/ raced \/ \A m \in kept \ late : file[m] > 0)
=============================================================================
