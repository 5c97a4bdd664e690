----------------------------- MODULE SysThread ------------------------------
(***************************************************************************)
(* The thread for system calls: one call of print_sys_result drains two    *)
(* arrays, first the records of reads, then those of writes, each into a   *)
(* file of its own and through a staging buffer of MEMMAX bytes.  How a    *)
(* hook gets a record into its array is LayerLog's business: here it is    *)
(* one step.  A record is its number; of its line only the width counts,   *)
(* and one without a name or a time makes none (width 0).                  *)
(***************************************************************************)
EXTENDS Integers, Sequences

CONSTANTS
    AIOMAX,         \* capacity of an array (30000 in the code)
    MEMMAX,         \* bytes of the staging buffer (9000 in the code)
    Margin,         \* bytes each array's copy loop leaves free: + 2 and + 0
    Widths,         \* strlen of each record's line, below TMPMAX
    IdleDelta,      \* fewer new records than this is idle (10 in the code)
    MaxCalls,       \* BOUND: records of each array
    MaxSwitch,      \* BOUND: times logging is switched on or off
    OpenMayFail,    \* can opening a file fail
    DiskMayFill     \* can aio_file_write write less than it is given

Arrays == {"read", "write"}

ASSUME SysAssumption ==
    /\ AIOMAX \in Nat \ {0} /\ MEMMAX \in Nat /\ IdleDelta \in Nat
    /\ Margin \in [Arrays -> 0..MEMMAX]
    /\ Widths \in [Arrays -> [1..MaxCalls -> Nat]]
    /\ \A a \in Arrays, n \in 1..MaxCalls : Widths[a][n] + Margin[a] <= MEMMAX
    /\ MaxCalls \in Nat /\ MaxSwitch \in Nat
    /\ OpenMayFail \in BOOLEAN /\ DiskMayFill \in BOOLEAN

VARIABLES
    on, nswitch,    \* debug_enabled is 1 or 3; how often it was changed
    slots, size,    \* the arrays; how many slots of each are published
    flag, calls,    \* flag1 and flag2: a hook saw a stop; records made
    pc, arr,        \* the thread: its place, and the half it is in
    seen, i,        \* its copies of the size and the index
    cnt, bef,       \* the idle timers: syscnt, sys2cnt, befsys1, befsys2
    line,           \* tmp: the line made of the record at hand
    len, base, temp,\* the staging buffer: len, its value when the buffer was
                    \* last cleared, and the lines copied since
    owed, short     \* history, of this pass: the lines made that are not yet in
                    \* the file, and whether a write fell short (then nothing
                    \* more is owed)

hookVars  == <<slots, size, flag, calls>>
stageVars == <<line, len, base, temp>>
histVars  == <<owed, short>>
thrVars   == <<pc, arr, seen, i, cnt, bef>>
vars == <<on, nswitch, hookVars, stageVars, histVars, thrVars>>

Records == 1..MaxCalls
NoRecord == 0
Width(a, n) == IF n = NoRecord THEN 0 ELSE Widths[a][n]

LOGMAX == (AIOMAX * 7) \div 10

Init ==
    /\ on = FALSE /\ nswitch = 0
    /\ slots = [a \in Arrays |-> [s \in 0 .. AIOMAX - 1 |-> NoRecord]]
    /\ size = [a \in Arrays |-> 0] /\ flag = [a \in Arrays |-> FALSE]
    /\ calls = [a \in Arrays |-> 0]
    /\ pc = "poll" /\ arr = "read" /\ seen = 0 /\ i = 0
    /\ cnt = [a \in Arrays |-> 0] /\ bef = [a \in Arrays |-> 0]
    /\ line = NoRecord /\ len = 0 /\ base = 0 /\ temp = <<>>
    /\ owed = <<>> /\ short = FALSE

\* The user writes the debugfs file.
Switch ==
    /\ nswitch < MaxSwitch
    /\ on' = ~on /\ nswitch' = nswitch + 1
    /\ UNCHANGED <<hookVars, stageVars, histVars, thrVars>>

-----------------------------------------------------------------------------
(* The hooks: set_sys_log and set_sys2_log.                                *)

NoteStop(a) ==
    /\ ~on /\ nswitch > 0 /\ ~flag[a]
    /\ flag' = [flag EXCEPT ![a] = TRUE]
    /\ UNCHANGED <<on, nswitch, slots, size, calls, stageVars, histVars, thrVars>>

\* The first record after a stop empties the array; a full one drops it.
Hook(a) ==
    LET at == IF flag[a] THEN 0 ELSE size[a]
    IN  /\ on /\ calls[a] < MaxCalls
        /\ flag' = [flag EXCEPT ![a] = FALSE]
        /\ calls' = [calls EXCEPT ![a] = @ + 1]
        /\ IF at < AIOMAX
           THEN /\ slots' = [slots EXCEPT ![a][at] = calls[a] + 1]
                /\ size' = [size EXCEPT ![a] = at + 1]
           ELSE /\ size' = [size EXCEPT ![a] = at]
                /\ UNCHANGED slots
        /\ UNCHANGED <<on, nswitch, stageVars, histVars, thrVars>>

-----------------------------------------------------------------------------
(* The thread.                                                             *)

Other(a) == IF a = "read" THEN "write" ELSE "read"

\* A half of print_sys_result ends: the other is next, at once or by the
\* next call, and every call starts with len = 0.
Turn ==
    /\ pc' = "poll" /\ arr' = Other(arr) /\ seen' = 0 /\ i' = 0
    /\ line' = NoRecord /\ temp' = <<>> /\ base' = 0

\* msleep(100), then the size is copied.  The first switch creates the thread.
Poll ==
    /\ pc = "poll" /\ nswitch > 0
    /\ seen' = size[arr] /\ pc' = "gate"
    /\ UNCHANGED <<on, nswitch, hookVars, stageVars, histVars, arr, i, cnt, bef>>

MustFlush == IF on THEN seen > LOGMAX \/ cnt[arr] = -1 ELSE seen >= 2

\* Mutant: with nothing left to read the call returns before the writes.
NothingLeftReturns ==
    /\ pc = "gate" /\ ~on /\ seen < 2
    /\ pc' = "poll" /\ arr' = "read" /\ seen' = 0
    /\ UNCHANGED <<on, nswitch, hookVars, stageVars, histVars, i, cnt, bef>>

\* Logging has stopped and fewer than two records are left.
NothingLeft ==
    /\ pc = "gate" /\ ~on /\ seen < 2
    /\ Turn
    /\ UNCHANGED <<on, nswitch, hookVars, len, histVars, cnt, bef>>

\* The file opens; the staging buffer is allocated and cleared.
OpenFile ==
    /\ pc = "gate" /\ MustFlush
    /\ cnt' = [cnt EXCEPT ![arr] = IF on THEN @ ELSE -1]
    /\ base' = len /\ temp' = <<>> /\ i' = 0
    /\ owed' = <<>> /\ short' = FALSE
    /\ pc' = "scan"
    /\ UNCHANGED <<on, nswitch, hookVars, line, len, arr, seen, bef>>

\* It does not: sys_fo = 1 ends the thread, both halves of it.
OpenFails ==
    /\ OpenMayFail
    /\ pc = "gate" /\ MustFlush
    /\ pc' = "exited" /\ seen' = 0
    /\ UNCHANGED <<on, nswitch, hookVars, stageVars, histVars, arr, i, cnt, bef>>

\* The idle timer: armed, running, expired.  Once it is over befsys1 is not
\* read before it is set again.
ArmTimer ==
    /\ pc = "gate" /\ on /\ ~MustFlush /\ cnt[arr] = 0
    /\ cnt' = [cnt EXCEPT ![arr] = 1] /\ bef' = [bef EXCEPT ![arr] = seen]
    /\ Turn
    /\ UNCHANGED <<on, nswitch, hookVars, len, histVars>>

TimerRuns ==
    /\ pc = "gate" /\ on /\ ~MustFlush /\ cnt[arr] = 1
    /\ Turn
    /\ UNCHANGED <<on, nswitch, hookVars, len, histVars, cnt, bef>>

\* Mutant: both halves report to the timer of the reads.
TimerExpiresShared ==
    /\ pc = "gate" /\ on /\ ~MustFlush /\ cnt[arr] = 1
    /\ cnt' = [cnt EXCEPT !["read"] = IF seen - bef[arr] < IdleDelta THEN -1 ELSE 0]
    /\ bef' = [bef EXCEPT ![arr] = 0]
    /\ Turn
    /\ UNCHANGED <<on, nswitch, hookVars, len, histVars>>

TimerExpires ==
    /\ pc = "gate" /\ on /\ ~MustFlush /\ cnt[arr] = 1
    /\ cnt' = [cnt EXCEPT ![arr] = IF seen - bef[arr] < IdleDelta THEN -1 ELSE 0]
    /\ bef' = [bef EXCEPT ![arr] = 0]
    /\ Turn
    /\ UNCHANGED <<on, nswitch, hookVars, len, histVars>>

\* sprintf(tmp, ...) of the record at i.
MakeLine ==
    /\ pc = "scan" /\ i < seen
    /\ line' = slots[arr][i] /\ pc' = "fit"
    /\ owed' = IF Width(arr, line') > 0 /\ ~short THEN Append(owed, line') ELSE owed
    /\ UNCHANGED <<on, nswitch, hookVars, len, base, temp, short,
                   arr, seen, i, cnt, bef>>

\* Mutant: only a buffer that is already over its size is written out.
TooLongLate == len > MEMMAX

TooLong == len + Width(arr, line) + Margin[arr] > MEMMAX

\* What strlen(temp) makes of the buffer: a gap at its head hides it all.
Text == IF base = 0 THEN temp ELSE <<>>

\* aio_file_write, whose result nobody looks at.
WriteOut ==
    \E k \in 0 .. Len(Text) :
        /\ DiskMayFill \/ k = Len(Text)
        /\ short' = (short \/ k < Len(Text))
        /\ owed' = IF short' THEN <<>>
                   ELSE IF SubSeq(owed, 1, k) = Text THEN SubSeq(owed, k + 1, Len(owed))
                   ELSE owed

FlushStage ==
    /\ pc = "fit" /\ TooLong
    /\ WriteOut
    /\ len' = 0 /\ base' = 0 /\ temp' = <<>>
    /\ UNCHANGED <<on, nswitch, hookVars, line, thrVars>>

\* memcpy of the line and its NUL, then a look at the size while logging is on.
Stage ==
    /\ pc = "fit" /\ ~TooLong
    /\ temp' = IF Width(arr, line) > 0 THEN Append(temp, line) ELSE temp
    /\ len' = len + Width(arr, line)
    /\ i' = i + 1 /\ line' = NoRecord
    /\ seen' = IF on THEN size[arr] ELSE seen
    /\ pc' = "scan"
    /\ UNCHANGED <<on, nswitch, hookVars, base, owed, short, arr, cnt, bef>>

\* Mutant: len survives into the half for the writes.
FinishKeepsLen ==
    /\ pc = "scan" /\ i >= seen
    /\ WriteOut
    /\ size' = [size EXCEPT ![arr] = 0]
    /\ cnt' = [cnt EXCEPT ![arr] = 0] /\ bef' = [bef EXCEPT ![arr] = 0]
    /\ len' = IF arr = "read" THEN len ELSE 0
    /\ Turn
    /\ UNCHANGED <<on, nswitch, slots, flag, calls>>

\* Mutant: only what was copied is taken off the size, which a restart may
\* have put back meanwhile.
FinishSubtracts ==
    /\ pc = "scan" /\ i >= seen
    /\ WriteOut
    /\ size' = [size EXCEPT ![arr] = @ - seen]
    /\ cnt' = [cnt EXCEPT ![arr] = 0] /\ bef' = [bef EXCEPT ![arr] = 0]
    /\ len' = 0
    /\ Turn
    /\ UNCHANGED <<on, nswitch, slots, flag, calls>>

\* The rest of the text is written and the array emptied.
Finish ==
    /\ pc = "scan" /\ i >= seen
    /\ WriteOut
    /\ size' = [size EXCEPT ![arr] = 0]
    /\ cnt' = [cnt EXCEPT ![arr] = 0] /\ bef' = [bef EXCEPT ![arr] = 0]
    /\ len' = 0
    /\ Turn
    /\ UNCHANGED <<on, nswitch, slots, flag, calls>>

Advance ==
    \/ Poll \/ NothingLeft \/ OpenFile \/ OpenFails \/ ArmTimer \/ TimerExpires
    \/ MakeLine \/ FlushStage \/ Stage \/ Finish

ThreadStep == Advance \/ TimerRuns

Next ==
    \/ Switch \/ ThreadStep
    \/ \E a \in Arrays : NoteStop(a) \/ Hook(a)

Spec == Init /\ [][Next]_vars

\* The thread keeps running, and each idle timer, a wall clock, runs out if
\* the thread keeps looking.  Nobody has to call a hook or to switch.
FairSpec ==
    /\ Spec
    /\ WF_vars(ThreadStep)
    /\ \A a \in Arrays : SF_vars(arr = a /\ TimerExpires)
-----------------------------------------------------------------------------
\* Types; among them that no index leaves its array, whatever restarts do.
TypeOK ==
    /\ on \in BOOLEAN /\ nswitch \in 0..MaxSwitch
    /\ slots \in [Arrays -> [0 .. AIOMAX - 1 -> Records \cup {NoRecord}]]
    /\ size \in [Arrays -> 0..AIOMAX] /\ flag \in [Arrays -> BOOLEAN]
    /\ calls \in [Arrays -> 0..MaxCalls]
    /\ pc \in {"poll", "gate", "scan", "fit", "exited"} /\ arr \in Arrays
    /\ seen \in 0..AIOMAX /\ i \in 0..AIOMAX
    /\ pc = "fit" => i < AIOMAX
    /\ cnt \in [Arrays -> {-1, 0, 1}] /\ bef \in [Arrays -> 0..AIOMAX]
    /\ line \in Records \cup {NoRecord} /\ len \in Nat /\ base \in Nat
    /\ temp \in Seq(Records)
    /\ owed \in Seq(Records) /\ short \in BOOLEAN

\* A copy loop that leaves no margin stores the final NUL one byte past the
\* staging buffer, and nothing more; one that leaves a margin stays inside.
OverrunIsTheNul ==
    pc = "scan" => /\ len + 1 <= MEMMAX + 1
                   /\ Margin[arr] > 0 => len + 1 <= MEMMAX

\* Unless a write of the pass fell short, the lines made and not yet in the
\* file are the text of the staging buffer and the line at hand, in order and
\* without a gap: nothing of one half of the call (len, the index, the buffer)
\* hides or mixes the text of the other.
StagedIsWhatIsOwed ==
    ~short => owed = Text \o (IF pc = "fit" /\ Width(arr, line) > 0 THEN <<line>> ELSE <<>>)

\* After a final stop both arrays are drained down to one record at most:
\* the reads, which come first, never keep the thread from the writes.  Only
\* a file that does not open ends both halves.
StopDrainsBoth ==
    <>[]~on => <>[](pc = "exited" \/ \A a \in Arrays : size[a] < 2)

\* While logging stays on, each array that goes quiet is emptied by a timer
\* of its own, whatever the other one does.
IdleFlushesBoth ==
    <>[]on => <>[](pc = "exited" \/ \A a \in Arrays : size[a] = 0)
=============================================================================
