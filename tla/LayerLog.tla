------------------------------ MODULE LayerLog ------------------------------
(***************************************************************************)
(* One layer of IOPro: the log array a layer's hooks append to and the     *)
(* kernel thread that drains it into a file.  The five layers (read calls, *)
(* write calls, page cache, block, SCSI) are the same program up to the    *)
(* control values they react to; the names below are those of the read    *)
(* layer, set_sys_log in fs/read_write.c and print_sys_result in           *)
(* fs/aiopro.c of linux-3.19.                                              *)
(*                                                                         *)
(* A logger is a task inside a hooked kernel function.  There is no lock:  *)
(* loggers, the layer's thread and the writer of the debugfs file share    *)
(* plain variables, so a step here is one access to them (or a few that no *)
(* other actor can tell from one).  What a record says is left out: it is  *)
(* the pair of the logger and the number of its call.                      *)
(***************************************************************************)
EXTENDS Integers, Sequences, FiniteSets

CONSTANTS
    Loggers,        \* tasks that run the layer's hook
    AIOMAX,         \* capacity of the log array (30000 in the code)
    SEMAX,          \* capacity of the start/end mark log (20 in the code)
    IdleDelta,      \* fewer new records than this is idle (10 in the code)
    Layer,          \* what tells the layer from the others (Layers)
    CtlVals,        \* BOUND: control values the user writes
    MaxCtl,         \* BOUND: writes of the control file
    MaxCalls,       \* BOUND: hook calls of one logger
    OpenMayFail     \* can opening the layer's file fail

ASSUME LayerAssumption ==
    /\ IsFiniteSet(Loggers) /\ Loggers # {}
    /\ AIOMAX \in Nat \ {0} /\ SEMAX \in Nat \ {0} /\ IdleDelta \in Nat
    /\ MaxCtl \in Nat /\ MaxCalls \in Nat
    /\ CtlVals \subseteq Nat /\ OpenMayFail \in BOOLEAN
    /\ Layer \in [hooks : SUBSET [active : SUBSET Nat, stop : SUBSET Nat],
                 running : SUBSET Nat, starts : SUBSET Nat,
                 marks : BOOLEAN, idleEntry : BOOLEAN]
    /\ \A h \in Layer.hooks : h.active \cap h.stop = {} /\ h.active \subseteq Layer.running

VARIABLES
    debug_enabled,  \* what the debugfs file holds: aiopro_init() returns it
    nctl,           \* number of control writes so far
    sys_size,       \* next free index, read and written by every logger
    log_size,       \* sys_log->size, the copy the thread reads
    sys_log,        \* the array; first and last field written of every slot
    aios,           \* the atomic counter that is the claim on the array
    flag1,          \* 1 when a logger has seen a stop and none a restart
    sys_start,      \* 1 once the layer has logged since boot
    se_log,         \* the start (0) and end (1) marks written so far
    pc, calls, tmp, \* the loggers: place, calls made, value read for += 1
    fpc, fsz, fi,   \* the thread: place, its copies of the size and index
    cnt, bef,       \* the thread's idle timer: syscnt and befsys1
    file,           \* number of lines of each record in the layer's file
    torn,           \* a line of the file mixes two records
    fate,           \* history: what became of each record
    raced           \* history: a reset of the array overlapped its users

ctlVars  == <<debug_enabled, nctl, se_log>>
bufVars  == <<sys_size, log_size, sys_log, aios, flag1, sys_start>>
logVars  == <<pc, calls, tmp>>
thrVars  == <<fpc, fsz, fi, cnt, bef>>
histVars == <<file, torn, fate, raced>>
vars     == <<ctlVars, bufVars, logVars, thrVars, histVars>>

\* LOGMAX: the thread starts a flush above 7/10 of the capacity.
LOGMAX == (AIOMAX * 7) \div 10

Event == Loggers \X (1..MaxCalls)
NoEvent == <<>>

\* The array and the words behind it that overshooting loggers can reach.
Slots == 0 .. AIOMAX + Cardinality(Loggers) - 2

LoggerPcs == {"idle", "stopping", "restart", "restarted", "check", "claim",
              "test", "divert", "head", "tail", "bump", "store", "publish",
              "release"}
ThreadPcs == {"none", "poll", "gate", "scan", "refresh", "resetlog", "exited"}

\* Between atomic_inc and atomic_dec; and, of these, the one that writes.
Inside  == {"test", "divert", "head", "tail", "bump", "store", "publish", "release"}
Writing == {"head", "tail", "bump", "store", "publish"}

\* Past the capacity check and not yet counted in sys_size.
Passed == {"claim", "test", "head", "tail", "bump", "store"}

\* set_se_log: marks past SEMAX - 1 go to one last slot that is never printed.
SetSeLog(when) ==
    IF Len(se_log) < SEMAX - 1 THEN Append(se_log, when) ELSE se_log

\* The value that ends the thread.
STOP == 990

Busy(S) == {l \in Loggers : pc[l] \in S}
Goto(l, place) == pc' = [pc EXCEPT ![l] = place]
Me(l) == <<l, calls[l]>>

-----------------------------------------------------------------------------
Init ==
    /\ debug_enabled = 0 /\ nctl = 0 /\ se_log = <<>>
    /\ sys_size = 0 /\ log_size = 0 /\ aios = 0 /\ flag1 = 0 /\ sys_start = 0
    /\ sys_log = [s \in Slots |-> [hd |-> NoEvent, tl |-> NoEvent]]
    /\ pc = [l \in Loggers |-> "idle"]
    /\ calls = [l \in Loggers |-> 0]
    /\ tmp = [l \in Loggers |-> 0]
    /\ fpc = "none" /\ fsz = 0 /\ fi = 0 /\ cnt = 0 /\ bef = 0
    /\ file = [e \in Event |-> 0] /\ torn = FALSE
    /\ fate = [e \in Event |-> "none"] /\ raced = FALSE

\* sec_debug_write: 1 and 3 create the missing threads and mark a start,
\* every other value marks an end.  A write of 990 returns when the thread has
\* ended.  (Writes that overlap, and the other layers' threads: KThreads.)
WriteControl(v) ==
    /\ nctl < MaxCtl /\ v # debug_enabled
    /\ debug_enabled = STOP => fpc \in {"none", "exited"}
    /\ nctl' = nctl + 1 /\ debug_enabled' = v
    /\ fpc' = IF v \in Layer.starts /\ fpc = "none" THEN "poll" ELSE fpc
    /\ se_log' = SetSeLog(IF v \in {1, 3} THEN 0 ELSE 1)
    /\ UNCHANGED <<bufVars, logVars, fsz, fi, cnt, bef, histVars>>

-----------------------------------------------------------------------------
(* The hook: set_sys_log.                                                  *)

\* The hook is entered with logging off: it returns, unless it is the first
\* to see a stop value, which it must still record in flag1.
CallInactive(l, h) ==
    /\ pc[l] = "idle" /\ calls[l] < MaxCalls
    /\ debug_enabled \notin h.active
    /\ calls' = [calls EXCEPT ![l] = @ + 1]
    /\ Goto(l, IF debug_enabled \in h.stop /\ flag1 = 0 THEN "stopping" ELSE "idle")
    /\ UNCHANGED <<ctlVars, bufVars, tmp, thrVars, histVars>>

NoteStop(l) ==
    /\ pc[l] = "stopping"
    /\ se_log' = IF Layer.marks THEN SetSeLog(1) ELSE se_log
    /\ flag1' = 1
    /\ Goto(l, "idle")
    /\ UNCHANGED <<debug_enabled, nctl, sys_size, log_size, sys_log, aios, sys_start,
                   calls, tmp, thrVars, histVars>>

\* The hook is entered with logging on.
CallActive(l, h) ==
    /\ pc[l] = "idle" /\ calls[l] < MaxCalls
    /\ debug_enabled \in h.active
    /\ calls' = [calls EXCEPT ![l] = @ + 1]
    /\ Goto(l, IF flag1 = 1 THEN "restart" ELSE "check")
    /\ UNCHANGED <<ctlVars, bufVars, tmp, thrVars, histVars>>

\* The first call after a stop empties the array, one word at a time.
Restart(l) ==
    /\ pc[l] = "restart"
    /\ se_log' = IF Layer.marks THEN SetSeLog(0) ELSE se_log
    /\ sys_size' = 0
    /\ raced' = (raced \/ Busy(Writing) # {} \/ fpc \in {"gate", "scan", "refresh"})
    /\ Goto(l, "restarted")
    /\ UNCHANGED <<debug_enabled, nctl, log_size, sys_log, aios, flag1, sys_start,
                   calls, tmp, thrVars, file, torn, fate>>

Restarted(l) ==
    /\ pc[l] = "restarted"
    /\ log_size' = 0 /\ flag1' = 0
    /\ Goto(l, "check")
    /\ UNCHANGED <<ctlVars, sys_size, sys_log, aios, sys_start, calls, tmp,
                   thrVars, histVars>>

\* Mutant: one slot too many.
CheckRoomLate(l) ==
    /\ pc[l] = "check"
    /\ IF sys_size <= AIOMAX
       THEN Goto(l, "claim") /\ UNCHANGED fate
       ELSE Goto(l, "idle") /\ fate' = [fate EXCEPT ![Me(l)] = "full"]
    /\ UNCHANGED <<ctlVars, bufVars, calls, tmp, thrVars, file, torn, raced>>

\* The capacity check.  A full array drops the record.
CheckRoom(l) ==
    /\ pc[l] = "check"
    /\ IF sys_size < AIOMAX
       THEN /\ sys_start' = 1
            /\ se_log' = IF sys_start = 0 /\ Layer.marks THEN SetSeLog(0) ELSE se_log
            /\ Goto(l, "claim")
            /\ UNCHANGED fate
       ELSE /\ fate' = [fate EXCEPT ![Me(l)] = "full"]
            /\ Goto(l, "idle")
            /\ UNCHANGED <<sys_start, se_log>>
    /\ UNCHANGED <<debug_enabled, nctl, sys_size, log_size, sys_log, aios, flag1,
                   calls, tmp, thrVars, file, torn, raced>>

\* The file has no inode or one of the excluded names, or the clock ran back.
Filtered(l) ==
    /\ pc[l] = "claim"
    /\ Goto(l, "idle")
    /\ UNCHANGED <<ctlVars, bufVars, calls, tmp, thrVars, histVars>>

Claim(l) ==
    /\ pc[l] = "claim"
    /\ aios' = aios + 1
    /\ Goto(l, "test")
    /\ UNCHANGED <<ctlVars, sys_size, log_size, sys_log, flag1, sys_start,
                   calls, tmp, thrVars, histVars>>

\* Mutant: the counter is compared with the wrong number.
TestClaimLate(l) ==
    /\ pc[l] = "test"
    /\ Goto(l, IF aios > 2 THEN "divert" ELSE "head")
    /\ UNCHANGED <<ctlVars, bufVars, calls, tmp, thrVars, histVars>>

\* Whoever does not find itself alone hands its record to set_tclog.
TestClaim(l) ==
    /\ pc[l] = "test"
    /\ Goto(l, IF aios # 1 THEN "divert" ELSE "head")
    /\ UNCHANGED <<ctlVars, bufVars, calls, tmp, thrVars, histVars>>

Divert(l) ==
    /\ pc[l] = "divert"
    /\ fate' = [fate EXCEPT ![Me(l)] = "tc"]
    /\ Goto(l, "release")
    /\ UNCHANGED <<ctlVars, bufVars, calls, tmp, thrVars, file, torn, raced>>

\* Every field is stored at the sys_size of that moment.
Store(l, place, field, next) ==
    /\ pc[l] = place
    /\ sys_log' = IF sys_size \in Slots
                  THEN [sys_log EXCEPT ![sys_size][field] = Me(l)]
                  ELSE sys_log
    /\ Goto(l, next)
    /\ UNCHANGED <<ctlVars, sys_size, log_size, aios, flag1, sys_start,
                   calls, tmp, thrVars, histVars>>

WriteHead(l) == Store(l, "head", "hd", "tail")
WriteTail(l) == Store(l, "tail", "tl", "bump")

\* sys_size += 1 is a load and a store; sys_log->size = sys_size may use the
\* value just stored or load it again.
BumpLoad(l) ==
    /\ pc[l] = "bump"
    /\ tmp' = [tmp EXCEPT ![l] = sys_size]
    /\ Goto(l, "store")
    /\ UNCHANGED <<ctlVars, bufVars, calls, thrVars, histVars>>

BumpStore(l) ==
    /\ pc[l] = "store"
    /\ sys_size' = tmp[l] + 1
    /\ fate' = [fate EXCEPT ![Me(l)] = "kept"]
    /\ Goto(l, "publish")
    /\ UNCHANGED <<ctlVars, log_size, sys_log, aios, flag1, sys_start, calls, tmp,
                   thrVars, file, torn, raced>>

Publish(l) ==
    /\ pc[l] = "publish"
    /\ log_size' \in {sys_size, tmp[l] + 1}
    /\ tmp' = [tmp EXCEPT ![l] = 0]
    /\ Goto(l, "release")
    /\ UNCHANGED <<ctlVars, sys_size, sys_log, aios, flag1, sys_start, calls,
                   thrVars, histVars>>

Release(l) ==
    /\ pc[l] = "release"
    /\ aios' = aios - 1
    /\ Goto(l, "idle")
    /\ UNCHANGED <<ctlVars, sys_size, log_size, sys_log, flag1, sys_start,
                   calls, tmp, thrVars, histVars>>

LoggerStep(l) ==
    \/ NoteStop(l) \/ Restart(l) \/ Restarted(l) \/ CheckRoom(l) \/ Filtered(l)
    \/ Claim(l) \/ TestClaim(l) \/ Divert(l) \/ WriteHead(l) \/ WriteTail(l)
    \/ BumpLoad(l) \/ BumpStore(l) \/ Publish(l) \/ Release(l)

-----------------------------------------------------------------------------
(* The layer's thread: aiopro_sys_thread looping over print_sys_result.    *)

Stopped == debug_enabled \notin Layer.running

\* print_sys_result returns: its locals go, the loop of the thread decides.
Return(place) == fpc' = place /\ fsz' = 0 /\ fi' = 0

\* msleep(100), then the thread copies the size.
Poll ==
    /\ fpc = "poll"
    /\ fsz' = log_size /\ fpc' = "gate"
    /\ raced' = (raced \/ Busy({"restarted"}) # {})
    /\ UNCHANGED <<ctlVars, bufVars, logVars, fi, cnt, bef, file, torn, fate>>

\* kthread_stop has been called, and the loop of the thread sees it.
ThreadStopped ==
    /\ fpc = "poll" /\ debug_enabled = STOP
    /\ Return("none")
    /\ UNCHANGED <<ctlVars, bufVars, logVars, cnt, bef, histVars>>

\* Logging has stopped and fewer than two records are left.
NothingLeft ==
    /\ fpc = "gate" /\ Stopped /\ fsz < 2
    /\ Return("poll")
    /\ UNCHANGED <<ctlVars, bufVars, logVars, cnt, bef, histVars>>

\* Mutant: one record too many is left behind.
MustFlushLate == IF Stopped THEN fsz > 2 ELSE fsz > LOGMAX \/ cnt = -1

\* The layer's file is opened: a stop, a filling array or the idle timer.
MustFlush == IF Stopped THEN fsz >= 2 ELSE fsz > LOGMAX \/ cnt = -1

OpenFile ==
    /\ fpc = "gate" /\ MustFlush
    /\ cnt' = IF Stopped THEN -1 ELSE cnt
    /\ fpc' = "scan"
    /\ UNCHANGED <<ctlVars, bufVars, logVars, fsz, fi, bef, histVars>>

\* filp_open fails: sys_fo = 1 ends the thread.
OpenFails ==
    /\ OpenMayFail
    /\ fpc = "gate" /\ MustFlush
    /\ cnt' = IF Stopped THEN -1 ELSE cnt
    /\ Return("exited")
    /\ UNCHANGED <<ctlVars, bufVars, logVars, bef, histVars>>

\* The idle timer: armed with the current size, it makes the next poll flush
\* if few records came in while it ran.
ArmTimer ==
    /\ fpc = "gate" /\ ~Stopped /\ ~MustFlush /\ cnt = 0
    /\ cnt' = 1 /\ bef' = fsz
    /\ Return("poll")
    /\ UNCHANGED <<ctlVars, bufVars, logVars, histVars>>

TimerRuns ==
    /\ fpc = "gate" /\ ~Stopped /\ ~MustFlush /\ cnt = 1
    /\ Return("poll")
    /\ UNCHANGED <<ctlVars, bufVars, logVars, cnt, bef, histVars>>

\* Mutant: the comparison that tells an idle layer from a busy one is swapped.
TimerExpiresSwapped ==
    /\ fpc = "gate" /\ ~Stopped /\ ~MustFlush /\ cnt = 1
    /\ cnt' = IF fsz - bef >= IdleDelta /\ (Layer.idleEntry => fsz > 0) THEN -1 ELSE 0
    /\ Return("poll")
    /\ UNCHANGED <<ctlVars, bufVars, logVars, bef, histVars>>

TimerExpires ==
    /\ fpc = "gate" /\ ~Stopped /\ ~MustFlush /\ cnt = 1
    /\ cnt' = IF fsz - bef < IdleDelta /\ (Layer.idleEntry => fsz > 0) THEN -1 ELSE 0
    /\ Return("poll")
    /\ UNCHANGED <<ctlVars, bufVars, logVars, bef, histVars>>

Line(s) == sys_log[s].tl

\* Mutant: the index is advanced in the body of the loop and in its head.
ScanSkips ==
    /\ fpc = "scan" /\ fi < fsz
    /\ LET written == fi \in Slots /\ Line(fi) # NoEvent IN
       /\ file' = IF written /\ file[Line(fi)] < 2
                  THEN [file EXCEPT ![Line(fi)] = @ + 1] ELSE file
       /\ torn' = (torn \/ (written /\ sys_log[fi].hd # Line(fi)))
    /\ fi' = fi + 2
    /\ fpc' = "refresh"
    /\ UNCHANGED <<ctlVars, bufVars, logVars, fsz, cnt, bef, fate, raced>>

\* One record is formatted into the text that goes to the file.  Lines past
\* the second of the same record are not told apart.
Scan ==
    /\ fpc = "scan" /\ fi < fsz
    /\ LET written == fi \in Slots /\ Line(fi) # NoEvent IN
       /\ file' = IF written /\ file[Line(fi)] < 2
                  THEN [file EXCEPT ![Line(fi)] = @ + 1] ELSE file
       /\ torn' = (torn \/ (written /\ sys_log[fi].hd # Line(fi)))
    /\ fi' = fi + 1
    /\ fpc' = "refresh"
    /\ UNCHANGED <<ctlVars, bufVars, logVars, fsz, cnt, bef, fate, raced>>

\* While logging runs the thread takes the new size after every record.
Refresh ==
    /\ fpc = "refresh"
    /\ fsz' = IF Stopped THEN fsz ELSE log_size
    /\ fpc' = "scan"
    /\ UNCHANGED <<ctlVars, bufVars, logVars, fi, cnt, bef, histVars>>

\* Mutant: the loop ends one record early.
ResetSizeEarly ==
    /\ fpc = "scan" /\ fi >= fsz - 1
    /\ sys_size' = 0
    /\ raced' = (raced \/ Busy(Writing) # {})
    /\ fpc' = "resetlog"
    /\ UNCHANGED <<ctlVars, log_size, sys_log, aios, flag1, sys_start, logVars,
                   fsz, fi, cnt, bef, file, torn, fate>>

\* Mutant: only the copy of the size is reset.
ResetSizeForgotten ==
    /\ fpc = "scan" /\ fi >= fsz
    /\ fpc' = "resetlog"
    /\ UNCHANGED <<ctlVars, bufVars, logVars, fsz, fi, cnt, bef, histVars>>

\* The text is written and the array emptied, one word at a time.
ResetSize ==
    /\ fpc = "scan" /\ fi >= fsz
    /\ sys_size' = 0
    /\ raced' = (raced \/ Busy(Writing) # {})
    /\ fpc' = "resetlog"
    /\ UNCHANGED <<ctlVars, log_size, sys_log, aios, flag1, sys_start, logVars,
                   fsz, fi, cnt, bef, file, torn, fate>>

ResetLog ==
    /\ fpc = "resetlog"
    /\ log_size' = 0 /\ cnt' = 0
    /\ Return("poll")
    /\ UNCHANGED <<ctlVars, sys_size, sys_log, aios, flag1, sys_start, logVars,
                   bef, histVars>>

ThreadStep ==
    \/ Poll \/ ThreadStopped \/ NothingLeft \/ OpenFile \/ OpenFails \/ ArmTimer
    \/ TimerRuns \/ TimerExpires \/ Scan \/ Refresh \/ ResetSize \/ ResetLog

Next ==
    \/ \E v \in CtlVals : WriteControl(v)
    \/ \E l \in Loggers, h \in Layer.hooks : CallInactive(l, h) \/ CallActive(l, h)
    \/ \E l \in Loggers : LoggerStep(l)
    \/ ThreadStep

Spec == Init /\ [][Next]_vars

\* A task inside a hook and the thread keep running; the idle timer, a wall
\* clock, runs out if the thread keeps looking.  Nobody has to call a hook or
\* write the control file.
FairSpec ==
    /\ Spec
    /\ \A l \in Loggers : WF_vars(LoggerStep(l))
    /\ WF_vars(ThreadStep) /\ SF_vars(TimerExpires)
-----------------------------------------------------------------------------
\* Types.
TypeOK ==
    /\ debug_enabled \in CtlVals \cup {0} /\ nctl \in 0..MaxCtl
    /\ se_log \in Seq({0, 1})
    /\ sys_size \in Nat /\ log_size \in Nat /\ aios \in Int
    /\ flag1 \in {0, 1} /\ sys_start \in {0, 1}
    /\ sys_log \in [Slots -> [hd : Event \cup {NoEvent}, tl : Event \cup {NoEvent}]]
    /\ pc \in [Loggers -> LoggerPcs]
    /\ calls \in [Loggers -> 0..MaxCalls]
    /\ \A l \in Loggers : pc[l] # "idle" => calls[l] > 0
    /\ tmp \in [Loggers -> Nat]
    /\ fpc \in ThreadPcs /\ fsz \in Nat /\ fi \in Nat
    /\ cnt \in {-1, 0, 1} /\ bef \in Nat
    /\ file \in [Event -> 0..2] /\ torn \in BOOLEAN
    /\ fate \in [Event -> {"none", "full", "tc", "kept"}] /\ raced \in BOOLEAN

\* The atomic counter is a correct try-lock: it counts the tasks between
\* atomic_inc and atomic_dec, and of them at most one writes the array
\* (set_sys_log, the test of aios1 against 1).
ClaimIsExclusive ==
    /\ aios = Cardinality(Busy(Inside))
    /\ \A l, m \in Busy(Writing) : l = m

\* The atomic counter implements a try-lock, whatever becomes of sys_size: a
\* task that writes the array was alone when it won the claim (set_sys_log).
Claims == INSTANCE TryLock
    WITH Procs <- Loggers, trying <- Busy(Inside), owner <- Busy(Writing)
ClaimIsTryLock == Claims!Spec

\* The capacity is tested before the claim, so several tasks can pass it on
\* the last free slot.  As long as no reset falls into a claim, the overshoot
\* is at most one slot for each further task.
OvershootIsBounded ==
    ~raced => sys_size + Cardinality(Busy(Passed)) <= AIOMAX - 1 + Cardinality(Loggers)

\* If no reset overlaps a claim or a flush, every line of the file is one
\* whole record and no record is written twice, although the thread reads
\* the array while loggers fill it.
FileIsCleanUnlessRaced == ~raced => ~torn /\ \A e \in Event : file[e] <= 1

\* A record that reached the array: still waiting there, or in the file, or
\* lost.
Waiting == {Line(s) : s \in {t \in Slots : t < sys_size}}
Lost == {e \in Event : fate[e] = "kept" /\ file[e] = 0 /\ e \notin Waiting}

\* Records are lost in resets only, and the thread's own reset loses nothing
\* it had seen: exactly the records past its last copy of the size go.
WindowOnly ==
    \/ Lost' \subseteq Lost
    \/ fpc = "scan" /\ fpc' = "resetlog"
          /\ Lost' \ Lost \subseteq {Line(s) : s \in {t \in Slots : t >= fsz}}
    \/ \E l \in Loggers : pc[l] = "restart" /\ pc'[l] = "restarted"
LossOnlyInTheWindow == [][raced' \/ WindowOnly]_vars

\* Up to the first race, the hooks, the thread and the restarts together are a
\* queue that may be cleared: records come into the file in the order in which
\* they were counted, each once, no reset takes some of those the thread still
\* has to write and leaves others, and none comes back (sys_size and the loop
\* of print_sys_result).
First == IF fpc = "resetlog" THEN 0 ELSE fi
Pending == IF raced THEN <<>> ELSE [k \in 1 .. sys_size - First |-> Line(First + k - 1)]
Queue == INSTANCE LossyQueue
    WITH Records <- Event, waiting <- Pending, lost <- Lost, spoilt <- raced,
         written <- {e \in Event : file[e] > 0}
LayerIsQueue == Queue!Spec

\* After a final stop the thread, if it is not ended, drains what is there down
\* to one record at most, whatever was in flight when logging stopped.
StopDrains ==
    <>[](Stopped /\ fpc \notin {"none", "exited"}) => <>[](log_size < 2)

\* While logging stays on and the file can be opened, a layer that goes quiet is
\* emptied: the idle timer must bring out what never reaches LOGMAX.
IdleIsFlushed ==
    <>[](debug_enabled \in Layer.starts /\ fpc # "exited") => <>[](log_size = 0)
=============================================================================
