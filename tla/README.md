# IOPro in TLA+

IOPro is a storage I/O profiler built into the Linux kernel: hooks in the
system calls, the page cache, the block layer and the SCSI/NVMe drivers record
what they see in memory, kernel threads write it into files, and a debugfs file
turns the whole on and off. This directory holds TLA+ models of its kernel side,
the TLC configurations that check them on small instances, and proofs checked by
TLAPS. The reference is the port to linux-3.19 under `src/linux-3.19`; the other
kernels (`linux-3.10`, `linux-4.4`, `nexus6`, `pmfs`) hold near copies of the same
files. Line numbers below are those of the linux-3.19 files.

Nothing in this code takes a lock. Hooks run in any task, at any time and on
several CPUs; they share plain integers with the threads and with the writer of
the debugfs file. That is what the models are about: what the two atomic
counters do guarantee, what the plain variables lose, and what the stop and
restart of a session may find half done.

## The system

| Component | State | Operations | Talks to |
|---|---|---|---|
| Layer log (five: read `set_sys_log`, write `set_sys2_log`, page cache `set_mm_log`, block `set_bio_log`, SCSI `set_nvme_log`) | the array (`sys_log`), its next free index (`sys_size`) and the copy of it the thread reads (`sys_log->size`), the atomic counter `aios`, `flag1`, `sys_start` | the hook: gate, stop and restart, capacity test, filter, claim, store, publish, release | reads the control value; falls over to the TC buffers; marks the start/end log |
| Layer thread (`aiopro_sys_thread` looping over `print_sys_result`) | local `size` and `i`, the idle timer `syscnt`/`befsys1`, `sys_fo` | poll every 100 ms; flush above 7/10 of the capacity, when idle, or after a stop; reset the array | reads and resets the layer log; opens, writes and closes a file |
| TC (overflow) buffers (`set_tclog`, `set_tc_size`) | eight arrays of 1000 records with `tc_size`, its copy, and a claim counter each | find the emptiest buffer, claim one, store, publish, release; reset all | called by every hook that finds its array claimed; printed by the block layer's thread; zeroed by the SCSI hook |
| Thread control (`sec_debug_write`, `init_aiopro_X`, `stop_aiopro`) | `debug_enabled`, a task pointer per layer | a write of 1 or 3 creates threads and marks a start, any other marks an end, 990 stops the threads | `kthread_run`, `kthread_stop`; every hook and thread reads `debug_enabled` |
| Start/end log (`set_se_log`, `print_se_result`) | 20 marks, `se_size` | append a mark; write all marks and empty the log | called by every hook and the debugfs file; printed by the block thread |
| File information table (`add_aiopro_finfo`, `get_file_info`) | 1000 entries of inode, name and owner; `size`, `last_finfo` | look up, add, replace when full | filled by the read and write hooks, read by the lower layers' hooks |
| Thread for system calls (`print_sys_result` whole) | two arrays, two idle timers, one `len`, a 9000-byte text per half | read half, then write half; append a line, write the text when full | the read and write hooks; two files |
| NVMe start times (`nvme-core.c`: `add_rq_start`, `get_rq_start`) | a list of 50 sectors and times, `rq_num`, `rq_max`, `rq_prev` | note a request's start on submission, look it up by sector on completion | shared by all hardware queues; calls `set_nvme_log` |
| Other request timing (`scsi_lib.c`, `blk-softirq.c`, `cfq-iosched.c`) | two time stamps in one call | stamp, log | the SCSI and block hooks |
| User space (`iopro_visualizer`, `iopro_db`) | files | merge the layers' files, draw, import | after the session |

### What is hard here, and what makes each part correct

*Layer log.* The capacity is tested before the claim, the claim is an increment
tested afterwards, `sys_size += 1` is a load and a store, and the thread resets
the index without the claim. Correct means: one writer of the array at a time, an
overrun the array's neighbourhood can bear, every record in the file at most once
and whole, and losses only where the code resets.

*Layer thread.* Work that never reaches the threshold must come out through the
idle timer, and work in flight at a stop must be drained, without the thread ever
being told that it is.

*TC buffers.* An unbounded search over eight try-locks that other parties reset
while they are held. Correct means: indices stay inside, one writer per buffer as
long as no held claim is reset, a task left alone returns, full buffers are
drained at the end.

*Thread control.* Test-and-set of a pointer without a lock, two or three loads of
one variable in one write, `kthread_stop` that waits. Correct means: a thread per
recording layer and no second one, none after a 990, and a write that returns. Two
users at one pointer at once break it; everything else is to keep it.

*Start/end log.* An index incremented, tested and clamped without a lock by hooks of every
layer, and reset by a thread. Correct means: the index is put back by whoever pushed it out,
marks are lost only when the log is full or the reset overtakes them, and after a stop the
others are written as long as there is a block thread.

*File table.* Searched, replaced, grown and shrunk by several tasks while lower layers read
an entry field by field. Correct means: entries of one file each, an owner that belongs to
the file asked for, and forgetting only when the table is full.

*Thread for system calls.* One call, two arrays, three ways out of the first half. Correct
means: the reads never keep the thread from the writes, no timer or buffer of one half shows
in the other, and what was taken from an array is in the file or the buffer.

*NVMe start times.* A list keyed by sector, shared by queues that each hold a lock of their
own, with repeated requests. Correct means: the index stays inside, and a start that is not
the request's own has a reason that can be named.

The list of hazards with their lines is in `PROJECT.json`.

## The modules

`LayerLog` models one layer and its thread, and `Layers` says what tells the five
layers apart; `TryLock` is the abstract lock its claim implements, `LossyQueue` the queue of records
that hooks and thread together implement. `TcLog` models the
overflow buffers, their callers and their part of the block thread; `KThreads` the debugfs
file, the task pointers and the lives of the threads; `SeLog` the start/end log; `FileInfo`
the file information table and those who read it; `SysThread` the thread for system calls
with both its arrays; `RequestTimes` the start times of NVMe requests. Each has an `MC`
module that gives constants their values for TLC, and a `Proofs` module with theorems
(`LayerLog` has two: `LayerLogProofs`, and `LayerFileProofs` for the file and the try-lock).

Actors have a program counter and one action per shared access. What no other
actor can tell apart is one step: a hook's repeated calls of `aiopro_init()` in
its gate, the fields of a record in `TcLog`, formatting. A record is a pair of
its task and the number of its call; its fields are left out, except that
`LayerLog` stores a first and a last field so that a record mixed from two can be
told. Counters that only feed `printk` (`sys_me`, `x_err`, `tc_me`, `tc_se`) are
left out.

### LayerLog (`fs/read_write.c`, `fs/aiopro.c`)

| Model | Code |
|---|---|
| `CallInactive`, `NoteStop` | the gate with logging off and the branch that first sees a stop (`flag1 = 1`), read_write.c 230-239 |
| `CallActive`, `Restart`, `Restarted` | the gate with logging on; after a stop the first hook calls `set_sys_size(0)`, which resets the index, then the copy: 240-247 |
| `CheckRoom`, `Filtered` | the capacity test and the early returns: 251-380 |
| `Claim`, `TestClaim`, `Divert`, `Release` | `atomic_inc`, the comparison with 1, `set_tclog`, `atomic_dec`: 382-387, 411 |
| `WriteHead`, `WriteTail`, `BumpLoad`, `BumpStore`, `Publish` | the stores of the fields at `sys_size`, `sys_size += 1`, `sys_log->size = sys_size`: 389-410 |
| `Poll`, `NothingLeft`, `OpenFile`, `OpenFails` | `msleep`, the copy of the size, the decision to flush, `filp_open`: aiopro.c 959-1015 |
| `ArmTimer`, `TimerRuns`, `TimerExpires` | the idle timer: 1070-1089 |
| `Scan`, `Refresh` | the loop over the records; while logging runs it takes the size anew: 1017-1058 |
| `ResetSize`, `ResetLog` | `set_sys_size(0)` and the end of the function: 1060-1069 |
| `ThreadStopped` | the loop of the thread sees `kthread_stop`, after a 990: 1274-1282 |
| `WriteControl` | what `sec_debug_write` does to one layer, whose thread a later start creates anew; a write of 990 is over when the thread has ended: 1378-1461 |

The layers differ in the control values their hooks and their thread react to, in
whether they mark the start/end log and in the idle rule. All of this is one constant,
`Layer`; `Layers` holds its five values, each read off the layer's hooks and its
`print_X_result`. A layer may have several hooks: block requests (`set_bio_log`,
`set_bio_log2`) and direct I/O (`set_fs_log`) share one array and one `flag1` but record
under 1 and 3, 1, and 3; whoever calls chooses the hook. `set_bio_log3` and
`set_scsi_log2` are left out: nothing calls them.
The compiler may load `sys_size` again for `sys_log->size = sys_size`, or use the
value it has just stored: `Publish` allows both. The words behind the array, which
an overshooting hook reaches, are part of `Slots`.

`fate`, `file`, `torn` and `raced` are history: what became of each record, how
often the file has it, whether a line mixes two records, and whether any reset
fell into a claim or a flush.

### TcLog (`drivers/scsi/scsi.c`, `fs/aiopro.c`)

`Call` to `Dec` are `set_tclog` (176-234): the scan for the emptiest buffer, one
comparison per step; the try-lock; on failure the next buffer, without bound; the
store; the size, which stays when the buffer is full. `ScsiStop`, `ScsiZero` and
`ScsiRestart` are the branches of the SCSI hook that zero `tc_size` and leave the
copies and claims (447-476); any number of tasks may be in that loop. `Visit` to
`BufferDone` are the block thread from its label `TCLOG` (aiopro.c 749-777): buffers
in order, the first with fewer than two records ends the visit, and only a visit
that passes the last one reaches `set_tc_size`. That one clears three words of every
buffer, one store each: `WipeClaim`, `WipeSize`, `WipeLogSize` (scsi.c 104-106). Between the
last two a caller may claim the buffer, store, publish and release; its record then counts
in `tc_size` and not in the copy, and stays hidden until the buffer's next record.

### KThreads (`fs/aiopro.c`)

`Write` to `StopWait` are one call of `sec_debug_write` (1442-1461): the number is
parsed into `debug_enabled` itself; `Branch` walks the layers of 1 (all) or 3 (without
the page cache), `Check` and `Create` being `init_aiopro_X`;
`Branch990` loads `debug_enabled` again and calls `stop_aiopro` for each layer.
`kthread_stop` is asking and waiting; of a pointer that is NULL by then, or of a thread
that is gone, the writer may not return (`oops`), a choice of the model because the
kernel does not define it. `OpenFails` and `Exit` end a thread. `met` is history: two writers
were at once between a look at one layer's pointer and what they do about it (`Acting`). The
marks the writers set are left out: the hooks of every layer mark too (read_write.c 234, 242,
262 and the like), so nothing about the last mark follows from these writes; marks are `SeLog`'s.

### SeLog (`fs/aiopro.c`)

`Enter` to `Clamp` are `set_se_log` (177-193), one access to `se_size` at a time; between two
accesses the compiler may keep the value in a register or load it again (`Reload`).
`ControlMarks` is the call from `sec_debug_write`, `HookMarks` any hook's. `Visit` to `Reset`
are `print_se_result` (195-244), which only the block layer's thread calls: `ThreadEnds` and
`ThreadStarts` are its end, when its file does not open or after a 990, and its return.
`late` is history: the marks counted between the thread's last look at the index and its
reset, and those that a full log took back. `LayerLog` keeps its marks as a sequence capped at
`SEMAX - 1`: that is what `SeLog` comes to when calls do not overlap.

### FileInfo (`fs/read_write.c`, `block/blk-core.c`)

`Add` to `SetSize` are `add_aiopro_finfo` (53-94): the search, one entry per step, the test
for a new entry, the replacement in a full table, the stores one by one, the size. A call with a
negative id returns after the replacement's index has moved on (81-87); the model has no such call. `Ask` to `Logged` are
a block hook that asks `get_file_info` (96-103) for an inode and then reads the fields of the
entry (blk-core.c 255-275). Of the three fields of an owner the first and the last are kept.
Read off the code and part of the model: an entry never used has inode 7, so file 7 is never
counted; `ino_no[AIOFILE]`, the word behind the inodes, is read though nothing ever
initialised it (`Strays`); a new entry makes the size its index plus one, so a replacement
shrinks a full table, and a slow call cuts off what others added meanwhile. The model stops
after a store past the table, behind which the structure keeps its pointers.

### SysThread (`fs/aiopro.c`)

One call of `print_sys_result` (959-1218) is two halves of the same shape; `arr` says which.
`MakeLine`, `TooLong`, `FlushStage`, `Stage` are the copy loop: a line is a width, the buffer
is the sequence of lines copied since it was last cleared, and a buffer cleared with `len`
above 0 would have its text hidden behind a gap (`Text`). `WriteOut` is `aio_file_write`, which
may write less than it is given and whose result is not looked at; a short write loses the
lines of that pass. A read file that does not open ends the thread, and with it the writes.
`Margin` is what each loop leaves free: 2 bytes in the half for the reads, none in the other,
so that the final NUL may land one byte behind the buffer; the real one is allocated in whole
pages and bears it. Both files are opened to append, so the file position `fpl`, which the
halves share, means nothing and is left out.

### RequestTimes (`drivers/block/nvme-core.c`)

`Issue` is a submission under its queue's lock: the clock is read into the global `rq_prev`
(743), then `add_rq_start` is entered unless the request is a discard or starts at sector 0.
A flush bypasses the list like a discard (836-839) and is one here; a request without a bio sets
`rq_prev` and is never looked up, as one at sector 0 here whose completion does not come.
`Pass` to `GrowMax` are its accesses to the shared list, `Ring` the doorbell. `Finish`, `Find`,
`Take`, `Miss` and `Log` are `nvme_finish_cmd` (363-397) with the search of `get_rq_start`; the
time that one leaves behind when it finds nothing is not used, `rq_prev` is. A failed request
may be requeued by `req_completion` (507-525): `Retry` submits it again. A time is the number
of the submission that read it; seconds and nanoseconds, stored one after the other, are one
value here. A command of the driver's own, whose context is no request, is not modelled.

### How they fit together

`KThreads` justifies what `LayerLog` and `SysThread` take for granted of their thread: unless two
users act on one pointer at once, a recording layer has one thread, and it is the one the pointer
names. `LayerLog` takes a hook's call apart, which `SysThread` and `FileInfo` have as one step each
of their environment; `SysThread` takes apart the copy of lines, which is one step in
`LayerLog`. `LayerLog`'s `Divert` is `TcLog`'s `Call`, its `SetSeLog` is `SeLog`'s `Enter`, and
`RequestTimes`' `Log` is a call of a hook of the SCSI layer. What a module does not name of the
others' state it does not constrain: `SeLog` lets hooks mark, the control value change and the block
thread end at any time, `KThreads` lets any file fail to open, and neither knows when.

## Runs

Every run takes four minutes or less. `expect` is *pass* unless said otherwise.

| Run | Instance | What it shows |
|---|---|---|
| `layer_session` | page cache layer; 2 tasks x 2 calls, 2 slots, up to three writes of 1, 2 or 990, restarts, a file that may not open | the claim (`ClaimIsExclusive`, and `ClaimIsTryLock`: the layer implements `TryLock`), the bound of the overrun (`OvershootIsBounded`); the file holds whole records, each once, unless a reset overlapped its users (`FileIsCleanUnlessRaced`); records are lost only in resets, and the thread's own reset loses only what came after its last look (`LossOnlyInTheWindow`); until then the layer is a queue that may be cleared (`LayerIsQueue`: it implements `LossyQueue`) |
| `layer_live` | block layer with its three hooks; 2 tasks x 1 call, three writes of 1, 2, 3 or 990, a file that may not open, fairness | `StopDrains`: after a final stop fewer than two records stay, if the thread lives; `IdleIsFlushed`: a layer that goes quiet while logging stays on is emptied |
| `tc_session` | 2 callers, 5 records, 2 buffers of 5, a SCSI hook, 3 switches | indices stay inside (`TypeOK`), the try-locks (`TcClaimIsExclusive`), losses only in resets (`TcLossOnlyInResets`) |
| `tc_live` | 2 callers x 2 records, print failures, fairness | `SoloReturns`: a task with nobody else in `set_tclog` comes back; `FullBuffersAreDrained`: after the final stop not all buffers keep two records or more, that is, a visit that no short buffer ends reaches `set_tc_size`. It does not say that what they held was written: a record whose file does not open is skipped, and the reset takes it |
| `tc_starved` | 2 callers x 1 record, fairness; *violation* | `TcStopDrains` fails: a short first buffer hides all later ones |
| `kthreads_one_user` | 1 writer x 5 writes of 0, 1, 2, 3, 990 or rubbish, 2 layers, fairness | whenever the writer is done a recording layer has its thread (`ActiveLayerHasThread`), and it gets done (`WriteReturns`) |
| `kthreads_two_users` | 2 writers x 3 writes of 0, 1, 3, 990 or rubbish, files that fail | types; without a 990, a recording layer has its thread (`StartersAgree`); unless both were at one layer's pointer at once, no second thread (`OneThreadPerLayer`), none that its pointer does not name (`NoOrphan`), none left after a 990 (`StoppedMeansNone`) |
| `kthreads_gone` | 1 writer, a file that fails; *violation* | `ExistsMeansAlive` fails: the pointer of an ended thread keeps a new one from being created |
| `selog` | 2 writers, 3 marks in a log of 2, 2 switches, fairness | an index outside is someone's debt (`SettledIsInside`); overruns take overlapping calls (`OverrunNeedsOverlap`); clean lines; marks lost in the window of the reset or in a full log only; after the last stop all others come into the file, if the block thread is there (`MarksAreWritten`) |
| `finfo` | 2 adders x 4 calls in all, 1 of them overlapping, 3 files and a namesake, 2 entries, 1 reader | overruns take overlap or the stray word; entries are whole; a hook's owner is of its file (`OwnerIsOfTheFile`); until the table is full every file is found with its latest owner (`FoundIsLatest`); a file is forgotten for a namesake or in a full table only |
| `systhread` | 2 arrays of 2 slots, 3 records each, 5 bytes of buffer, 3 switches, short writes, failing files, fairness | `OverrunIsTheNul`; `StagedIsWhatIsOwed`: the buffer is what the pass owes its file; `StopDrainsBoth`, `IdleFlushesBoth`: neither half starves the other |
| `requests` | 2 queues, 3 submissions of 3 sectors (one may be a discard), 1 overlap, repetitions, a list of 2 | overruns take overlap; the list holds the latest requests (`ListIsTheLatest`); why a start may not be the request's own (`WrongStartHasReason`), and how far off it is (`BorrowedStartIsNear`) |

**Bounds.** The array has two slots and seven tenths of it is one, so the threshold,
the full array and the overrun all occur with two tasks; a third only adds a slot to
the overrun, which the theorem below covers. Two calls per task let a task record
before and after a flush or a restart. Three control writes are a start, a stop and a
restart. TC buffers of five slots keep three records (the code keeps `TCMAX - 2`), those of
four in the fair runs two, so two callers fill one and spill over; two buffers are the fewest for which "the next one"
and "the first short one" mean something. Two layers tell apart what 1 and 3 start.
The mark log has four entries in the runs (two in the fair ones): its capping is
reached. `SeLog`'s log of two is full with the second mark and clamped by the third. A table of two
entries is filled, replaced from and shrunk by four calls; a list of two start times wraps and
loses its first entry with three submissions. The widths of `MCWidths` fill the five bytes of
`SysThread`'s buffer exactly, overflow it, or are 0 (a record without a name). One overlapping
call is enough for every way an index leaves its array, and the theorems cover any number.
Two writers with three writes each
meet at a pointer in every way that breaks the three properties once `met` is dropped from them.
`MaxCtl`, `MaxCalls`, `MaxRecords`, `MaxSwitch`, `MaxWrites`, `MaxMarks`, `MaxAdds`, `MaxReads`, `MaxSubmits` and
`MaxOverlaps` are the only bounds in guards; `Next` of `FileInfo` and of `RequestTimes` also stops
at the first store past the array.

**Deadlock.** Where a run says `CHECK_DEADLOCK FALSE` the system may stop: a thread that
failed to open its file or was stopped has ended and all bounded calls are used up, or (TcLog) nobody
switches and no record is left, or all writes (KThreads), calls (FileInfo) or submissions
(RequestTimes) are done, or the thread has ended (SysThread).

**Symmetry** is over tasks, writers or queues, in runs without liveness only.

**Fairness.** Tasks inside a hook, callers, writers inside a write and threads are
scheduled: weak fairness each. The idle timer is a wall clock compared at every poll, so
if the thread keeps polling it finds the time passed: strong fairness of
`TimerExpires`, in `SysThread` for each half's timer (each half's clock is compared in turn).
The mark log's file opens sooner or later (`SeLog`; every poll tries again). Nobody must enter a hook, write the control file or fail to open a file.
There is no fairness between two callers in `set_tclog`: two in lock step can keep each
other from every buffer for ever, which no line of the code rules out; `SoloReturns`
therefore speaks of a caller left alone.

## Findings

* "Without any data loss" (src/README.md 16) does not hold: short TC buffers strand records
  (`tc_starved`).
* "It already exists" (aiopro.c 1331, in a message that is commented out) takes a pointer that is
  not NULL for a thread, which may have ended (`kthreads_gone`).

Seen while modelling and not among the runs:

* The comment "within predefined size" on the capacity test (read_write.c 251) holds up to an
  overshoot: tasks pass the test before any has claimed. `OvershootIsBounded` says by how much.
* A record stored between the thread's last look at the size and its reset is lost; that is
  the window of `LossOnlyInTheWindow`, and the same holds of a mark in `SeLog`.
* Two users who write at once can create two threads for one layer, or leave one after a 990, if
  both are at the layer's pointer: `met` is the exception in `OneThreadPerLayer`, `NoOrphan` and
  `StoppedMeansNone`, and TLC finds each violated without it.
* A record stored in a TC buffer between the two stores of `set_tc_size` is hidden from the thread:
  after a final stop it stays so.
* A hook that passed its gate before a stop may set a start mark after the stop's end mark, so the
  last mark does not tell the state.
* A full TC buffer overwrites its last record; the stop branch of a layer leaves a single record.
* src/README.md 24 lists "Device I/O start/finish time": with NVMe the start is the first one
  noted for the sector, so of two requests for one sector, or of a repeated one, the later is
  logged with the earlier's start even on a single queue; `WrongStartHasReason` names all causes.
* `rq_num == 50` is an equality: an index that two queues push past 50 is never put back.
* A short write loses the rest of a pass, since nobody looks at its result.

## Proofs

| Theorem | Says | For |
|---|---|---|
| `TypeCorrect` | `TypeOK` of a layer | any tasks, sizes, control values |
| `ClaimExclusive` | the counter counts the tasks inside, one of them at most writes | the same |
| `OvershootBounded` | until a reset falls into a claim, at most one slot per further task is overrun | the same |
| `TcTypeCorrect` | no index leaves its TC buffer, whoever resets what | any callers, buffers, sizes |
| `TcClaimExclusive` | each buffer's counter is a try-lock until a held claim is reset | the same |
| `TcLossInResets` | `TcLossOnlyInResets`: only resets make what a buffer holds go missing; the thread's of the index takes nothing it had passed, its later one of the copy hides only what was stored between the two | the same, if files open |
| `ImplementsTryLock` | `Spec => Claims!Spec`: a layer implements `TryLock`, resets or not | the same as `TypeCorrect` |
| `FileClean` | `FileIsCleanUnlessRaced` | the same |
| `ImplementsQueue` | `Spec => Queue!Spec`: until a race a layer implements `LossyQueue` | the same as `TypeCorrect` |
| `LossInTheWindow` | `LossOnlyInTheWindow`: only resets lose records, the thread's own only those past its last look at the size | the same |
| `KTypeCorrect` | `TypeOK` of the thread control | any writers, lists of layers |
| `NoOrphans`, `OneThread`, `StoppedNone` | until two writers act on one pointer at once: every thread is the one its pointer names, there is one per layer, none is left after 990 | the same |
| `ActiveHasThread` | with one user whose write is over, a recording layer has its thread | any lists of layers, writes |
| `StartersAgreeAlways` | `StartersAgree` | any number of writers |
| `SeTypeCorrect`, `SettledInside`, `OverrunIsOverlap` | the mark log's index: its type, who owes its return, what an overrun takes | any writers, capacity |
| `SeFileClean`, `MarksLostForReason` | every mark once and whole in the file; what is lost fell into the window of the reset or a full log | the same |
| `FileTypeCorrect`, `FileOverrunNeedsOverlap`, `EntriesWhole` | the file table: its type, what an overrun takes, entries of one call each | any tasks, files, capacity |
| `OwnerOfTheFile`, `FoundLatest`, `ForgetsForReason` | what a hook finds is one owner, of its file, the latest one; what is forgotten has a reason | the same |
| `SysTypeCorrect`, `OverrunBounded`, `StagedIsOwed` | the thread for system calls: its type, at most a NUL past the buffer, the buffer is what is owed | any widths, margins, capacity |
| `RequestTypeCorrect`, `ListOverrunIsOverlap`, `BorrowedIsNear` | the NVMe list: its type, what an overrun takes, the start logged is of the sector or the latest one | any queues, requests, capacity |
| `ListLatest`, `WrongStartReason` | the list holds the latest submissions and nothing else; a start that is not the request's own has one of three reasons | the same |

*LayerLog.* `ClaimIsExclusive` is inductive with `TypeOK`: the first conjunct counts, and
whoever finds the counter at 1 is the only task inside; a task already writing would make
it 2. The overshoot needs more: `sys_size` and the tasks that have passed the capacity test
are bounded together, and a task between `BumpLoad` and `BumpStore` must have loaded the
present size (`LoadedIsCurrent`), or its store could undo another's. That in turn holds
because of the claim, and only while no reset intervened (`~raced`). The invariant is the
conjunction `IInv` of the four.

*LayerLog and its file* (`LayerFileProofs`). The refinement maps the tasks inside the claim to
`trying` and the one that writes to `owner`; `TestClaim` finding 1 is `Win`, `Publish` is `Done`, and
all else that does not enter or leave is a stutter; it needs `ClaimIsExclusive` and nothing of
`sys_size`. For the file, `CInv` says that up to the size the array holds whole records of
pairwise different calls, that none of those from the thread's index on is in the file yet, and
that the slot being written is past the size. `LossOnlyInTheWindow` follows from it step by step: a
hook only adds to what is below the size, unless it restarts the layer, and the thread takes away at
`ResetLog` only what lies past its own copy of the size and is not written yet.

The refinement of `LossyQueue` maps `waiting` to the slots from the thread's index up to the size, in
their order; after the reset of the size the index counts as 0, although it is put back a step later
(`First`). `spoilt` is `raced`, so nothing is promised after the first race, and everything before it.
`BumpStore` is `Keep`, `Scan` is `Write`, `ResetSize` and `Restart` are `Clear`, all else stutters. `QInv`
adds to `CInv` what a queue needs to know of its elements: exactly those calls whose record was
counted are kept (`KeptAreCounted`), so a record never comes twice, and every slot in use holds a kept
one (`SlotsAreKept`), so that a reset takes just what it should. `TcLog` implements no such queue: a
visit that ends at a short buffer prints the earlier ones again at the next.

*TcLog.* `TypeOK` is strong enough by itself: a caller between `Load` and `Publish` holds a
size that is an index (whatever happened to the buffer since), so what it stores is one
again. `TcClaimIsExclusive` is inductive with it, per buffer. The losses need `Kept`: a thread's
copy of a buffer's size never exceeds the size, the one writer stores at the size and not below it,
and what the thread has passed it has printed. Between the two stores of a reset the copy may
exceed the size; what it then hides is below the size and was stored after the first store, since
that one emptied the buffer. The theorem has the assumption `FilesOpen` (`OpenMayFail = FALSE`),
since a failure to open the file drops what was passed.

*KThreads.* `NoOrphan` is not inductive: between the test of the pointer and `kthread_run`
the pointer must still be NULL, and in `stop_aiopro` the thread waited for must be the one
the pointer holds (`PointersKnown`). A second writer breaks that only by acting on the same
pointer, which is what `met` records; so the invariant `OrphanInv` has these facts, and that no
two writers collide, as long as `~met`, for any number of writers. For `StoppedNone`, `StopInv` adds
that whatever runs while 990 is the value lies ahead of some writer that will stop it: one that is
in the pass of the stops and has not come to that layer, or one that has its last test to come.
`ActiveHasThread` is stated for `Writers = {u}`: it also needs which layers a walk has
already passed and that a loaded control value is the present one. `StartersAgree` survives
further writers because no write but 990 ever ends a thread or clears a pointer.

*SeLog.* `SettledIsInside` is inductive with `TypeOK`: `Bump` makes the debt, `Test` passes it to
`Clamp`, and an overlapping call's stale store takes the debt over. Without overlap the one
writer's place bounds the index; the thread's reset only lowers it. For the file, `MarksInv` says
that the one writer works on the slot at `se_size`, that the marks below it are whole, of different
calls, and in the file exactly if the thread has passed them. The exception is the last slot, which
`Clamp` gives back after the thread may have printed it, and which the next mark shares.

*FileInfo.* Without overlap at most one task is inside; `FileInv` says for each of its places
what its index, the size and its half-written entry are, and that all other entries below the
size are whole. The stray word is the one way out that a single task has. `Chosen` adds why an entry
is being written: it matched, it is a new one behind the last, or the table is full. `ReaderAt` says
that a reader no call overlapped has the table to itself until it has read both fields. `FoundInv`
adds for as long as the table was never full that unused entries still hold the initial inode, that
no inode has two entries, and that no later call than an entry's owner was for the same inode.

*SysThread.* `StagedIsWhatIsOwed` needs `len = 0` whenever a half is left (`Finish`), so that `base`
is 0 when the other opens its file; the bound of the overrun follows from `TooLong` and the
assumption that a single line with its margin fits.

*RequestTimes.* `Inside` says that as long as no two queues overlapped one at most is in
`add_rq_start`, and where `rq_num` and `rq_max` are at each of its places. `BorrowedIsNear` adds
that while the list grows `rq_num` and `rq_max` are the same entry (`Noting`), that all entries in
use but the one between its two stores belong to one submission (`EntriesFit`), that a search no
`add_rq_start` overlapped has the list to itself (`Quiet`), and that only discards came after
`rq_prev` (`Latest`). For the other two, `Kept` describes the list as a ring: from `rq_num` around to the
entry before it the submissions rise (`Ordered`), none is missing between the oldest held and the
newest (`Complete`), and the newest replaces the oldest; `Listing` says so at each place between the
stores of `add_rq_start`, where `rq_num` may be an entry ahead or not yet put back. A search that no
submission overlapped has passed only entries of other sectors (`Searched`), so one that finds nothing
has seen the whole list, and then `Complete` gives the reason: `RQMAX` later ones. Cardinalities come in
at the very end, from the entries being as many different submissions (`EntriesCount`). TLC checked
these invariants first, on the instance of `requests`, with a list of one entry, and partly with one
more submission.

**Assumptions**: the named assumptions of the constants (`LayerAssumption`, `TcAssumption`,
`KThreadsAssumption`, `SeAssumption`, `FileAssumption`, `SysAssumption`, `RequestAssumption`), which TLC evaluates in the runs.

`MCLayerLog` has TLC check that all five layers of `Layers` satisfy what `LayerAssumption` asks of
one (`EveryLayerIsAssumed`), so the theorems hold of the layers no run instantiates.

The type invariants of `LayerLog`, `SeLog`, `FileInfo` and `RequestTimes` are proved and not among the
properties of the runs, whose invariants on the indices say more.

**Only model-checked**: everything temporal under fairness (`StopDrains`, `IdleIsFlushed`,
`SoloReturns`, `FullBuffersAreDrained`, `WriteReturns`, `MarksAreWritten`, `StopDrainsBoth`,
`IdleFlushesBoth`), which TLAPS cannot do with this tool set. Every invariant, action property and
refinement that a passing run checks is also proved.

## Plan

What was planned is written, except for these, in order of worth:

1. *A weaker queue* for `TcLog`, whose records may be handed out again as long as they wait, and the
   proof that each overflow buffer implements it until a claim or a size is reset under its users.
2. *Composition* of a layer with the overflow buffers, so that a diverted record can be followed
   to its file. Its state space is the product of `layer_session` and `tc_session`, beyond the time
   of a run; it would take `LossyQueue` in the place of `LayerLog`, which `ImplementsQueue` justifies.

New runs will take the place of runs whose question they contain.

## Not modelled

*Most of the repository is not IOPro.* The source files are whole files of five stock kernels with
IOPro's lines in them: `cfq-iosched.c`, `blk-core.c`, `mmc/core.c`, `filemap.c`, `scsi.c`, `fs.h` and so
on, several times over. The I/O scheduler, the block core, the page cache and the drivers
themselves are third-party code and left alone. What IOPro adds to the linux-3.19 port is
`fs/aiopro.c` (1482 lines, of which 270 are includes, path names and a thread for UFS that is
commented out) and stretches of `read_write.c` (32-694), `scsi.c` (90-753), `blk-core.c` (125-835),
`filemap.c` (114-262) and `nvme-core.c` (54-96, 363-397, 700-758); the models map nearly all of it.

*The ports* (`old_linux-3.19`, `linux-3.10`, `linux-4.4`, `nexus6`, `pmfs`) are near copies of these
stretches with other path names; the control values their hooks react to are those of `Layers`
but for hooks that nexus6 alone has. `linux-4.4`'s `pci.c` and `pmfs`' `scsi_lib.c` have the list of
`RequestTimes`. A model of its own would repeat the same definitions.

*Also left out*: the same list in 3.19's `scsi_lib.c`, whose look-ups are commented out; the
statistics counters; `set_sys2_log`'s test of the function of the record stored before (647), which
no other actor can tell; `set_bio_log3` and `set_scsi_log2`, which nothing calls; boot-time
initialisation (it is `Init`); the VFS call sites (they are the calls of a hook); failures of
`kthread_run` and `vmalloc`, the former checked nowhere and the latter at boot only; TcLog's SCSI
hooks in `tc_live`, since a hook that resets buffers for ever would let nothing be said of progress.
The contents of records, file names and the wording of the logs are abstracted.

*User space* (visualizer, parser, database import, `log_write.c`) is sequential text processing of
the files of a session that has ended. Seen while reading: the parser sorts lines by start time
as strings (`aiopro_parser.py` 207).
