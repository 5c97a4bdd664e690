-------------------------------- MODULE TcLog --------------------------------
(***************************************************************************)
(* The overflow buffers of IOPro: where set_sys_log, set_bio_log and the   *)
(* other hooks put a record when the claim on their own array is taken     *)
(* (set_tclog and set_tc_size, drivers/scsi/scsi.c), and the part of the   *)
(* block layer's thread that writes them out once logging has stopped (the *)
(* TCLOG part of print_bio_result and print_tc, fs/aiopro.c).              *)
(*                                                                         *)
(* Each buffer is claimed like a layer's array, by an atomic increment     *)
(* that must find itself alone; a caller that does not undoes it and tries *)
(* the next buffer, for ever if need be.  Three parties reset what the     *)
(* callers use: the thread after printing, the SCSI hook when it sees a    *)
(* stop, and nobody takes the claim to do so.                              *)
(***************************************************************************)
EXTENDS Integers, FiniteSets

CONSTANTS
    Callers,      \* tasks that come out of a taken claim
    ScsiTasks,    \* tasks that run the SCSI hook
    NB,           \* number of buffers (8 in the code)
    TCMAX,        \* slots of a buffer (1000 in the code)
    MaxCalls,     \* BOUND: records of one caller
    MaxRecords,   \* BOUND: records in all
    MaxSwitch,    \* BOUND: starts and stops of logging
    OpenMayFail   \* can print_tc fail to open the file

ASSUME TcAssumption ==
    /\ IsFiniteSet(Callers) /\ Callers # {}
    /\ NB \in Nat \ {0} /\ TCMAX \in Nat /\ TCMAX >= 2
    /\ MaxCalls \in Nat /\ MaxRecords \in Nat /\ MaxSwitch \in Nat
    /\ OpenMayFail \in BOOLEAN

VARIABLES
    running,      \* logging is on: aiopro_init() is 1 or 3
    nswitch,      \* starts and stops so far
    aiotc,        \* the claim counter of every buffer
    tc_size,      \* next free index of every buffer
    tc_logsize,   \* (tc_log + i)->size, what the thread reads
    tc_log,       \* the records
    flag1,        \* the SCSI layer has seen a stop and no restart
    pc, calls, buf, tmp,    \* callers: place, calls, buffer i, size loaded
    bpc, bj, bi, bsize,     \* the thread: place, its j, i and size
    zpc,          \* the SCSI hooks' loops over tc_size: next buffer, or NB
    printed,      \* the records that have a line in the files
    fate,         \* history: "stored", or "dropped" into a full buffer
    passed,       \* history: slots of each buffer the thread saw in this visit
    wiped,        \* history: set_tc_size reset a claim somebody held
    zeroed        \* history: the SCSI hook reset a size

sessVars == <<running, nswitch, flag1>>
tcVars   == <<aiotc, tc_size, tc_logsize, tc_log>>
callVars == <<pc, calls, buf, tmp>>
thrVars  == <<bpc, bj, bi, bsize>>
histVars == <<printed, fate, passed, wiped, zeroed>>
vars     == <<sessVars, tcVars, callVars, thrVars, zpc, histVars>>

Event == Callers \X (1..MaxCalls)
Called == {e \in Event : e[2] <= calls[e[1]]}
NoEvent == <<>>
Buffers == 0 .. NB - 1
TcSlots == 0 .. TCMAX - 2

CallerPcs == {"idle", "pick", "inc", "test", "back", "write", "load", "bump",
              "publish", "dec"}
\* Between atomic_inc and atomic_dec of a buffer; and the one that writes it.
Holding == {"test", "back", "write", "load", "bump", "publish", "dec"}
Writing == {"write", "load", "bump", "publish"}
At(S, b) == {c \in Callers : pc[c] \in S /\ buf[c] = b}

Goto(c, place) == pc' = [pc EXCEPT ![c] = place]
Me(c) == <<c, calls[c]>>

Init ==
    /\ running = FALSE /\ nswitch = 0 /\ flag1 = 0
    /\ aiotc = [b \in Buffers |-> 0] /\ tc_size = [b \in Buffers |-> 0]
    /\ tc_logsize = [b \in Buffers |-> 0]
    /\ tc_log = [b \in Buffers |-> [s \in TcSlots |-> NoEvent]]
    /\ pc = [c \in Callers |-> "idle"] /\ calls = [c \in Callers |-> 0]
    /\ buf = [c \in Callers |-> 0] /\ tmp = [c \in Callers |-> 0]
    /\ bpc = "poll" /\ bj = 0 /\ bi = 0 /\ bsize = 0 
    /\ zpc = [h \in ScsiTasks |-> NB]
    /\ printed = {} /\ fate = [e \in Event |-> "none"]
    /\ passed = [b \in Buffers |-> 0] /\ wiped = FALSE /\ zeroed = FALSE

\* The user starts or stops logging.
Switch ==
    /\ nswitch < MaxSwitch
    /\ nswitch' = nswitch + 1 /\ running' = ~running
    /\ UNCHANGED <<flag1, tcVars, callVars, thrVars, zpc, histVars>>

-----------------------------------------------------------------------------
(* set_tclog                                                               *)

\* A hook that passed its gate while logging was on comes out of a taken
\* claim, however late.
Call(c) ==
    /\ pc[c] = "idle" /\ running
    /\ calls[c] < MaxCalls /\ Cardinality(Called) < MaxRecords
    /\ calls' = [calls EXCEPT ![c] = @ + 1]
    /\ Goto(c, "pick")
    /\ UNCHANGED <<sessVars, tcVars, buf, tmp, thrVars, zpc, histVars>>

\* The search starts at the emptiest buffer, found by one comparison after the
\* other; tmp is the loop's j.
Pick(c) ==
    /\ pc[c] = "pick"
    /\ LET j == tmp[c] + 1 IN
       /\ buf' = IF j < NB /\ tc_size[j] < tc_size[buf[c]] THEN [buf EXCEPT ![c] = j] ELSE buf
       /\ IF j + 1 < NB THEN tmp' = [tmp EXCEPT ![c] = j] /\ UNCHANGED pc
                        ELSE tmp' = [tmp EXCEPT ![c] = 0] /\ Goto(c, "inc")
    /\ UNCHANGED <<sessVars, tcVars, calls, thrVars, zpc, histVars>>

Inc(c) ==
    /\ pc[c] = "inc"
    /\ aiotc' = [aiotc EXCEPT ![buf[c]] = @ + 1]
    /\ Goto(c, "test")
    /\ UNCHANGED <<sessVars, tc_size, tc_logsize, tc_log, calls, buf, tmp,
                   thrVars, zpc, histVars>>

\* Mutant: two tasks are taken for one.
TestLate(c) ==
    /\ pc[c] = "test"
    /\ Goto(c, IF aiotc[buf[c]] > 2 THEN "back" ELSE "write")
    /\ UNCHANGED <<sessVars, tcVars, calls, buf, tmp, thrVars, zpc, histVars>>

\* Mutant: a task takes its own increment for another's.
TestOwn(c) ==
    /\ pc[c] = "test"
    /\ Goto(c, IF aiotc[buf[c]] > 0 THEN "back" ELSE "write")
    /\ UNCHANGED <<sessVars, tcVars, calls, buf, tmp, thrVars, zpc, histVars>>

Test(c) ==
    /\ pc[c] = "test"
    /\ Goto(c, IF aiotc[buf[c]] # 1 THEN "back" ELSE "write")
    /\ UNCHANGED <<sessVars, tcVars, calls, buf, tmp, thrVars, zpc, histVars>>

\* Not alone: let go and try the next buffer, the first after the last.
Back(c) ==
    /\ pc[c] = "back"
    /\ aiotc' = [aiotc EXCEPT ![buf[c]] = @ - 1]
    /\ buf' = [buf EXCEPT ![c] = (@ + 1) % NB]
    /\ Goto(c, "inc")
    /\ UNCHANGED <<sessVars, tc_size, tc_logsize, tc_log, calls, tmp, thrVars,
                   zpc, histVars>>

Write(c) ==
    /\ pc[c] = "write"
    /\ tc_log' = [tc_log EXCEPT ![buf[c]][tc_size[buf[c]]] = Me(c)]
    /\ Goto(c, "load")
    /\ UNCHANGED <<sessVars, aiotc, tc_size, tc_logsize, calls, buf, tmp,
                   thrVars, zpc, histVars>>

\* The test against TCMAX and the increment use one load of tc_size.
Load(c) ==
    /\ pc[c] = "load"
    /\ tmp' = [tmp EXCEPT ![c] = tc_size[buf[c]]]
    /\ Goto(c, "bump")
    /\ UNCHANGED <<sessVars, tcVars, calls, buf, thrVars, zpc, histVars>>

\* Mutant: the last slot is not kept back.
FitsLate(size) == size + 1 < TCMAX

\* A full buffer keeps its size, so the next record overwrites this one.
Fits(size) == size + 2 < TCMAX
Bump(c) ==
    /\ pc[c] = "bump"
    /\ IF Fits(tmp[c])
       THEN /\ tc_size' = [tc_size EXCEPT ![buf[c]] = tmp[c] + 1]
            /\ fate' = [fate EXCEPT ![Me(c)] = "stored"]
       ELSE fate' = [fate EXCEPT ![Me(c)] = "dropped"] /\ UNCHANGED tc_size
    /\ Goto(c, "publish")
    /\ UNCHANGED <<sessVars, aiotc, tc_logsize, tc_log, calls, buf, tmp, thrVars,
                   zpc, printed, passed, wiped, zeroed>>

\* The copy takes the size just stored or loads it again.
Publish(c) ==
    /\ pc[c] = "publish"
    /\ \E size \in {tc_size[buf[c]], tmp[c] + (IF Fits(tmp[c]) THEN 1 ELSE 0)} :
           tc_logsize' = [tc_logsize EXCEPT ![buf[c]] = size]
    /\ tmp' = [tmp EXCEPT ![c] = 0]
    /\ Goto(c, "dec")
    /\ UNCHANGED <<sessVars, aiotc, tc_size, tc_log, calls, buf, thrVars, zpc, histVars>>

Dec(c) ==
    /\ pc[c] = "dec"
    /\ aiotc' = [aiotc EXCEPT ![buf[c]] = @ - 1]
    /\ buf' = [buf EXCEPT ![c] = 0]
    /\ Goto(c, "idle")
    /\ UNCHANGED <<sessVars, tc_size, tc_logsize, tc_log, calls, tmp, thrVars,
                   zpc, histVars>>

CallerStep(c) ==
    \/ Pick(c) \/ Inc(c) \/ Test(c) \/ Back(c) \/ Write(c) \/ Load(c) \/ Bump(c)
    \/ Publish(c) \/ Dec(c)

-----------------------------------------------------------------------------
(* The stop and restart branches of the SCSI hook.                         *)

\* A SCSI hook that is the first to see a stop, or one of the first, zeroes the
\* sizes, but neither the copies the thread reads nor the claims.
ScsiStop(h) ==
    /\ ~running /\ nswitch > 0 /\ flag1 = 0 /\ zpc[h] = NB
    /\ zpc' = [zpc EXCEPT ![h] = 0]
    /\ UNCHANGED <<sessVars, tcVars, callVars, thrVars, histVars>>

ScsiZero(h) ==
    /\ zpc[h] < NB
    /\ tc_size' = [tc_size EXCEPT ![zpc[h]] = 0]
    /\ zeroed' = (zeroed \/ tc_size[zpc[h]] > 0)
    /\ zpc' = [zpc EXCEPT ![h] = @ + 1]
    /\ flag1' = IF zpc[h] + 1 = NB THEN 1 ELSE flag1
    /\ UNCHANGED <<running, nswitch, aiotc, tc_logsize, tc_log, callVars, thrVars,
                   printed, fate, passed, wiped>>

ScsiRestart ==
    /\ running /\ flag1 = 1
    /\ flag1' = 0
    /\ UNCHANGED <<running, nswitch, tcVars, callVars, thrVars, zpc, histVars>>

-----------------------------------------------------------------------------
(* The block layer's thread, from its label TCLOG on.                      *)

\* Buffers are written out only while logging is off.
Visit ==
    /\ bpc = "poll" /\ ~running
    /\ bpc' = "buffer" /\ bj' = 0
    /\ UNCHANGED <<sessVars, tcVars, callVars, bi, bsize, zpc, histVars>>

\* The first buffer with fewer than two records ends the visit.
NextBuffer ==
    /\ bpc = "buffer" /\ bj < NB
    /\ IF tc_logsize[bj] < 2
       THEN bpc' = "poll" /\ bj' = 0 /\ UNCHANGED bsize
       ELSE bpc' = "print" /\ bsize' = tc_logsize[bj] /\ UNCHANGED bj
    /\ UNCHANGED <<sessVars, tcVars, callVars, bi, zpc, histVars>>

\* print_tc opens, writes and closes the file of the record's layer.
PrintOne ==
    /\ bpc = "print" /\ bi < bsize
    /\ LET e == tc_log[bj][bi] IN
       printed' \in {printed \cup ({e} \ {NoEvent})}
                    \cup (IF OpenMayFail THEN {printed} ELSE {})
    /\ bsize' = tc_logsize[bj] /\ bi' = bi + 1
    /\ UNCHANGED <<sessVars, tcVars, callVars, bpc, bj, zpc, fate, passed, wiped, zeroed>>

\* Mutant: the loop stops one record early.
BufferDoneEarly ==
    /\ bpc = "print" /\ bi >= bsize - 1
    /\ passed' = [passed EXCEPT ![bj] = bsize]
    /\ bj' = bj + 1 /\ bi' = 0 /\ bsize' = 0
    /\ bpc' = IF bj' = NB THEN "wipe" ELSE "buffer"
    /\ UNCHANGED <<sessVars, tcVars, callVars, zpc, printed, fate, wiped, zeroed>>

BufferDone ==
    /\ bpc = "print" /\ bi >= bsize
    /\ passed' = [passed EXCEPT ![bj] = bsize]
    /\ bj' = bj + 1 /\ bi' = 0 /\ bsize' = 0
    /\ bpc' = IF bj' = NB THEN "wipe" ELSE "buffer"
    /\ UNCHANGED <<sessVars, tcVars, callVars, zpc, printed, fate, wiped, zeroed>>

\* set_tc_size: for every buffer the claim, then the two sizes.
WipeClaim ==
    /\ bpc = "wipe" /\ bi < NB
    /\ aiotc' = [aiotc EXCEPT ![bi] = 0]
    /\ wiped' = (wiped \/ At(Holding, bi) # {})
    /\ bpc' = "wipesize"
    /\ UNCHANGED <<sessVars, tc_size, tc_logsize, tc_log, callVars, bj, bi, bsize,
                   zpc, printed, fate, passed, zeroed>>

WipeSize ==
    /\ bpc = "wipesize"
    /\ tc_size' = [tc_size EXCEPT ![bi] = 0]
    /\ wiped' = (wiped \/ At(Writing, bi) # {})
    /\ passed' = [passed EXCEPT ![bi] = 0]
    /\ bpc' = "wipelog"
    /\ UNCHANGED <<sessVars, aiotc, tc_logsize, tc_log, callVars, bj, bi, bsize,
                   zpc, printed, fate, zeroed>>

\* On to the next buffer; after the last one the thread polls again.
NextWipe ==
    IF bi + 1 < NB
    THEN bi' = bi + 1 /\ bpc' = "wipe" /\ UNCHANGED bj
    ELSE bi' = 0 /\ bpc' = "poll" /\ bj' = 0

\* Mutant: the copy the thread reads is not reset.
WipeLogSizeForgets ==
    /\ bpc = "wipelog" /\ NextWipe
    /\ UNCHANGED <<sessVars, tcVars, callVars, bsize, zpc, histVars>>

\* A caller may have come and gone since the store before: nobody holds its
\* claim, and this store takes its record out of the thread's sight.
WipeLogSize ==
    /\ bpc = "wipelog" /\ NextWipe
    /\ tc_logsize' = [tc_logsize EXCEPT ![bi] = 0]
    /\ UNCHANGED <<sessVars, aiotc, tc_size, tc_log, callVars, bsize, zpc, histVars>>

ThreadStep ==
    \/ Visit \/ NextBuffer \/ PrintOne \/ BufferDone
    \/ WipeClaim \/ WipeSize \/ WipeLogSize

Next ==
    \/ Switch \/ ScsiRestart
    \/ \E h \in ScsiTasks : ScsiStop(h) \/ ScsiZero(h)
    \/ \E c \in Callers : Call(c) \/ CallerStep(c)
    \/ ThreadStep

Spec == Init /\ [][Next]_vars

\* Callers and the thread are scheduled.  No fairness between callers: two of
\* them can keep each other from every buffer.
FairSpec ==
    /\ Spec
    /\ \A c \in Callers : WF_vars(CallerStep(c))
    /\ \A h \in ScsiTasks : WF_vars(ScsiZero(h))
    /\ WF_vars(ThreadStep)

-----------------------------------------------------------------------------
\* Types; among them that no index leaves its buffer, whoever resets what.
TypeOK ==
    /\ running \in BOOLEAN /\ nswitch \in 0..MaxSwitch /\ flag1 \in {0, 1}
    /\ aiotc \in [Buffers -> Int]
    /\ tc_size \in [Buffers -> TcSlots] /\ tc_logsize \in [Buffers -> TcSlots]
    /\ tc_log \in [Buffers -> [TcSlots -> Event \cup {NoEvent}]]
    /\ pc \in [Callers -> CallerPcs] /\ calls \in [Callers -> 0..MaxCalls]
    /\ \A c \in Callers : pc[c] # "idle" => calls[c] > 0
    /\ buf \in [Callers -> Buffers] /\ tmp \in [Callers -> Nat]
    /\ \A c \in Callers : pc[c] \in {"bump", "publish"} => tmp[c] \in TcSlots
    /\ bpc \in {"poll", "buffer", "print", "wipe", "wipesize", "wipelog"}
    /\ bj \in 0..NB /\ bi \in Nat /\ bsize \in TcSlots
    /\ zpc \in [ScsiTasks -> 0..NB]
    /\ (bpc = "print" => bj < NB) /\ (bpc \in {"wipesize", "wipelog"} => bi < NB)
    /\ printed \subseteq Event
    /\ fate \in [Event -> {"none", "stored", "dropped"}]
    /\ passed \in [Buffers -> TcSlots] /\ wiped \in BOOLEAN /\ zeroed \in BOOLEAN

\* As long as set_tc_size resets no claim that is held, every counter of
\* set_tclog counts the tasks at its buffer and one of them at most writes.
TcClaimIsExclusive ==
    ~wiped => \A b \in Buffers :
        /\ aiotc[b] = Cardinality(At(Holding, b))
        /\ \A c, d \in At(Writing, b) : c = d

\* In a slot that is counted in both sizes: in tc_size, below which no hook
\* writes, and in the copy, which bounds what the thread reads.
InBuffer(e) == \E b \in Buffers, s \in TcSlots :
                   s < tc_size[b] /\ s < tc_logsize[b] /\ tc_log[b][s] = e
Missing == {e \in Event : /\ fate[e] = "stored" /\ e \notin printed /\ ~InBuffer(e)
                          /\ ~\E c \in Callers : Me(c) = e /\ pc[c] = "publish"}

\* A record that got a slot goes missing in a reset only: the SCSI hook's,
\* whose zeroed sizes let new records overwrite old ones; the thread's, if it
\* resets a claim that is held; the thread's of tc_size, and then it is none of
\* those the thread had passed; or its reset of the copy, and then the record
\* was stored after the reset of tc_size: it is hidden, not gone, for it still
\* counts in tc_size, from which the next record of the buffer sets the copy.
TcLossOnlyInResets ==
    [][ \/ wiped' \/ zeroed' \/ Missing' \subseteq Missing
        \/ /\ bpc = "wipesize"
           /\ Missing' \ Missing \subseteq {tc_log[bi][s] : s \in {t \in TcSlots : t >= passed[bi]}}
        \/ /\ bpc = "wipelog"
           /\ Missing' \ Missing \subseteq {tc_log[bi][s] : s \in {t \in TcSlots : t < tc_size'[bi]}}
      ]_vars

\* A caller that nobody interferes with gets a buffer and returns: what keeps
\* it is another caller or a claim wiped while held, never a leaked claim.
SoloReturns ==
    \A c \in Callers :
        ([]~wiped /\ <>[](\A d \in Callers \ {c} : pc[d] = "idle"))
            => []<>(pc[c] = "idle")

\* The README's "without any data loss", at the end of a session: after the
\* final stop everything stored is written out.
TcStopDrains ==
    <>[](~running /\ \A c \in Callers : pc[c] = "idle")
        => <>[](\A e \in Event : fate[e] = "stored" => e \in printed)

\* After the final stop not every buffer keeps two records or more: as long as
\* all have them, a visit goes through all of them and reaches set_tc_size,
\* whether or not their files open.
FullBuffersAreDrained ==
    <>[](~running /\ \A c \in Callers : pc[c] = "idle")
        => <>[](\E b \in Buffers : tc_logsize[b] < 2)
=============================================================================
