------------------------------ MODULE KThreads ------------------------------
(***************************************************************************)
(* The life of IOPro's kernel threads: the debugfs file whose writes       *)
(* create and stop them (sec_debug_write and what it calls, fs/aiopro.c),  *)
(* the task pointers, and the threads themselves as far as they end.       *)
(*                                                                         *)
(* The file has no lock: each open of it is a writer of its own, and two   *)
(* writes interleave at every access to debug_enabled and to the task      *)
(* pointers.  What a thread does between two looks at its stop flag is     *)
(* LayerLog; here it can only fail to open its file.  The marks the        *)
(* writers leave in the start/end log (set_se_log) are SeLog's.            *)
(***************************************************************************)
EXTENDS Integers, Sequences, FiniteSets

CONSTANTS
    Writers,     \* who writes the debugfs file
    RunAll,      \* layers aiopro_run_kths starts and aiopro_stop_kths stops, in order
    RunSome,     \* layers aiopro_run_kth starts: no page cache
    CtlVals,     \* BOUND: values written
    MaxWrites,   \* BOUND: writes of one writer
    OpenMayFail  \* can a thread fail to open its layer's file

Layers == {RunAll[k] : k \in 1..Len(RunAll)}

ASSUME KThreadsAssumption ==
    /\ Writers # {} /\ IsFiniteSet(Writers)
    /\ RunAll \in Seq(Layers) /\ RunSome \in Seq(Layers)
    /\ \A j, k \in 1..Len(RunAll) : RunAll[j] = RunAll[k] => j = k
    /\ CtlVals \subseteq Nat /\ MaxWrites \in Nat /\ OpenMayFail \in BOOLEAN

VARIABLES
    debug_enabled,  \* what the file holds
    task,           \* aiopro_X_task: the number of the layer's thread, 0 for NULL
    made,           \* threads created for the layer so far
    alive,          \* the threads that have not ended, <<layer, number>>
    asked,          \* the threads kthread_stop was called for
    fo,             \* X_fo: the layer's file could not be opened
    wpc, wk,        \* the writers: place, position in the list of layers
    wlist,          \* the writers: the list they work through
    wt,             \* the writers: the thread they wait for
    writes,         \* writes done so far
    stops,          \* history: a write has reached aiopro_stop_kths
    met             \* history: two writers were at one layer's pointer at once

thrVars == <<task, made, alive, asked, fo>>
wrVars  == <<wpc, wk, wlist, wt, writes>>
hisVars == <<stops, met>>
vars    == <<debug_enabled, thrVars, wrVars, hisVars>>

\* kstrtouint_from_user refuses the text: debug_enabled stays.
Unparsable == -1
STOP == 990

WriterPcs == {"idle", "branch", "check", "create", "branch990",
              "stopcheck", "stopcall", "stopwait", "oops"}
Goto(w, place) == wpc' = [wpc EXCEPT ![w] = place]
Layer(w) == wlist[w][wk[w]]

\* The places inside a pass over the list of layers.
AtLayer == {"check", "create", "stopcheck", "stopcall", "stopwait"}

\* A writer has looked at its layer's pointer and acts on what it saw.
Acting(w) == wpc[w] \in {"create", "stopcall", "stopwait"}
Colliding == \E v, w \in Writers :
                v # w /\ Acting(v) /\ Acting(w) /\ Layer(v) = Layer(w)

\* Mutant: the list is run past its end.
AdvancePast(w, again, done) ==
    IF wk[w] <= Len(wlist[w])
    THEN wk' = [wk EXCEPT ![w] = @ + 1] /\ Goto(w, again) /\ UNCHANGED wlist
    ELSE /\ wk' = [wk EXCEPT ![w] = 1] /\ wlist' = [wlist EXCEPT ![w] = <<>>]
         /\ Goto(w, done)

\* The next layer of the list, or the place after the list.
Advance(w, again, done) ==
    IF wk[w] < Len(wlist[w])
    THEN wk' = [wk EXCEPT ![w] = @ + 1] /\ Goto(w, again) /\ UNCHANGED wlist
    ELSE /\ wk' = [wk EXCEPT ![w] = 1] /\ wlist' = [wlist EXCEPT ![w] = <<>>]
         /\ Goto(w, done)

\* Takes up a list; an empty one leads straight to the place after it.
Begin(w, list, again, done) ==
    /\ wk' = [wk EXCEPT ![w] = 1]
    /\ wlist' = [wlist EXCEPT ![w] = list]
    /\ Goto(w, IF list = <<>> THEN done ELSE again)

Init ==
    /\ debug_enabled = 0
    /\ task = [l \in Layers |-> 0] /\ made = [l \in Layers |-> 0]
    /\ alive = {} /\ asked = {} /\ fo = [l \in Layers |-> 0]
    /\ stops = FALSE /\ met = FALSE
    /\ wpc = [w \in Writers |-> "idle"] /\ wk = [w \in Writers |-> 1]
    /\ wlist = [w \in Writers |-> <<>>] /\ wt = [w \in Writers |-> 0]
    /\ writes = [w \in Writers |-> 0]

-----------------------------------------------------------------------------
(* sec_debug_write                                                         *)

\* The number is parsed straight into debug_enabled; a text that is none
\* leaves it, and the write goes on all the same.
Write(w, v) ==
    /\ wpc[w] = "idle" /\ writes[w] < MaxWrites
    /\ debug_enabled' = IF v = Unparsable THEN debug_enabled ELSE v
    /\ writes' = [writes EXCEPT ![w] = @ + 1]
    /\ Goto(w, "branch")
    /\ UNCHANGED <<thrVars, wk, wlist, wt, hisVars>>

\* Mutant: 1 forgets the page cache.
BranchSome(w) ==
    /\ wpc[w] = "branch"
    /\ IF debug_enabled \in {1, 3} THEN Begin(w, RunSome, "check", "branch990")
       ELSE Goto(w, "branch990") /\ UNCHANGED <<wk, wlist>>
    /\ UNCHANGED <<debug_enabled, thrVars, wt, writes, stops>>

\* 1 runs every layer's thread, 3 those of the system calls and the disk.
\* Nothing is called between the two tests: they share one load.
Branch(w) ==
    /\ wpc[w] = "branch"
    /\ CASE debug_enabled = 1 -> Begin(w, RunAll, "check", "branch990")
         [] debug_enabled = 3 -> Begin(w, RunSome, "check", "branch990")
         [] OTHER -> Goto(w, "branch990") /\ UNCHANGED <<wk, wlist>>
    /\ UNCHANGED <<debug_enabled, thrVars, wt, writes, stops>>

\* Mutant: init_aiopro_X without its test.
CheckAlways(w) ==
    /\ wpc[w] = "check"
    /\ Goto(w, "create")
    /\ UNCHANGED <<debug_enabled, thrVars, wk, wlist, wt, writes, stops>>

\* init_aiopro_X: only a NULL pointer gets a thread.
Check(w) ==
    /\ wpc[w] = "check"
    /\ IF task[Layer(w)] = 0
       THEN Goto(w, "create") /\ UNCHANGED <<wk, wlist>>
       ELSE Advance(w, "check", "branch990")
    /\ UNCHANGED <<debug_enabled, thrVars, wt, writes, stops>>

\* Mutant: the test of 990 is an else of the two starts.
CreateReturns(w) ==
    /\ wpc[w] = "create"
    /\ LET l == Layer(w)  n == made[l] + 1 IN
       /\ made' = [made EXCEPT ![l] = n]
       /\ task' = [task EXCEPT ![l] = n]
       /\ alive' = alive \cup {<<l, n>>}
    /\ Advance(w, "check", "idle")
    /\ UNCHANGED <<debug_enabled, asked, fo, wt, writes, stops>>

\* kthread_run, and its result into the pointer.
Create(w) ==
    /\ wpc[w] = "create"
    /\ LET l == Layer(w)  n == made[l] + 1 IN
       /\ made' = [made EXCEPT ![l] = n]
       /\ task' = [task EXCEPT ![l] = n]
       /\ alive' = alive \cup {<<l, n>>}
    /\ Advance(w, "check", "branch990")
    /\ UNCHANGED <<debug_enabled, asked, fo, wt, writes, stops>>

\* Mutant: the stop leaves the page cache out.
Branch990Some(w) ==
    /\ wpc[w] = "branch990"
    /\ IF debug_enabled = STOP
       THEN Begin(w, RunSome, "stopcheck", "idle") /\ stops' = TRUE
       ELSE Goto(w, "idle") /\ UNCHANGED <<wk, wlist, stops>>
    /\ UNCHANGED <<debug_enabled, thrVars, wt, writes>>

\* The last test, after set_se_log, loads debug_enabled again: a writer that
\* started threads stops them when 990 was written meanwhile.
Branch990(w) ==
    /\ wpc[w] = "branch990"
    /\ IF debug_enabled = STOP
       THEN Begin(w, RunAll, "stopcheck", "idle") /\ stops' = TRUE
       ELSE Goto(w, "idle") /\ UNCHANGED <<wk, wlist, stops>>
    /\ UNCHANGED <<debug_enabled, thrVars, wt, writes>>

\* stop_aiopro: a NULL pointer is only reported.
StopCheck(w) ==
    /\ wpc[w] = "stopcheck"
    /\ IF task[Layer(w)] # 0
       THEN Goto(w, "stopcall") /\ UNCHANGED <<wk, wlist>>
       ELSE Advance(w, "stopcheck", "idle")
    /\ UNCHANGED <<debug_enabled, thrVars, wt, writes, stops>>

\* Mutant: the thread is waited for and not told.
StopCallUnasked(w) ==
    /\ wpc[w] = "stopcall"
    /\ wt' = [wt EXCEPT ![w] = task[Layer(w)]]
    /\ Goto(w, "stopwait")
    /\ UNCHANGED <<debug_enabled, thrVars, wk, wlist, writes, stops>>

\* kthread_stop of what the pointer holds by now.  A NULL pointer or a thread
\* that is gone is not a task: the writer may die of it.
StopCall(w) ==
    /\ wpc[w] = "stopcall"
    /\ LET t == <<Layer(w), task[Layer(w)]>> IN
       \/ /\ task[Layer(w)] # 0
          /\ asked' = asked \cup {t} /\ wt' = [wt EXCEPT ![w] = t[2]]
          /\ Goto(w, "stopwait")
       \/ t \notin alive /\ Goto(w, "oops") /\ UNCHANGED <<asked, wt>>
    /\ UNCHANGED <<debug_enabled, task, made, alive, fo, wk, wlist, writes, stops>>

\* Mutant: the pointer keeps its value.
StopWaitForgets(w) ==
    /\ wpc[w] = "stopwait"
    /\ <<Layer(w), wt[w]>> \notin alive
    /\ Advance(w, "stopcheck", "idle")
    /\ UNCHANGED <<debug_enabled, thrVars, wt, writes, stops>>

\* Mutant: the pointer is cleared before the thread has ended.
StopWaitEarly(w) ==
    /\ wpc[w] = "stopwait"
    /\ task' = [task EXCEPT ![Layer(w)] = 0]
    /\ Advance(w, "stopcheck", "idle")
    /\ UNCHANGED <<debug_enabled, made, alive, asked, fo, wt, writes, stops>>

\* kthread_stop returns when the thread has ended.
StopWait(w) ==
    /\ wpc[w] = "stopwait"
    /\ <<Layer(w), wt[w]>> \notin alive
    /\ task' = [task EXCEPT ![Layer(w)] = 0]
    /\ Advance(w, "stopcheck", "idle")
    /\ UNCHANGED <<debug_enabled, made, alive, asked, fo, wt, writes, stops>>

WriterStep(w) ==
    /\ \/ Branch(w) \/ Check(w) \/ Create(w) \/ Branch990(w)
       \/ StopCheck(w) \/ StopCall(w) \/ StopWait(w)
    /\ met' = (met \/ Colliding')

-----------------------------------------------------------------------------
(* aiopro_X_thread                                                         *)

\* print_X_result cannot open its file.
OpenFails(t) ==
    /\ OpenMayFail /\ t \in alive /\ fo[t[1]] = 0
    /\ fo' = [fo EXCEPT ![t[1]] = 1]
    /\ UNCHANGED <<debug_enabled, task, made, alive, asked, wrVars, hisVars>>

\* The test of the thread's loop.
Exit(t) ==
    /\ t \in alive /\ (t \in asked \/ fo[t[1]] = 1)
    /\ alive' = alive \ {t}
    /\ UNCHANGED <<debug_enabled, task, made, asked, fo, wrVars, hisVars>>

Threads == UNION {{l} \X (1..made[l]) : l \in Layers}

Next ==
    \/ \E w \in Writers : WriterStep(w) \/ \E v \in CtlVals \cup {Unparsable} : Write(w, v)
    \/ \E t \in Threads : OpenFails(t) \/ Exit(t)

Spec == Init /\ [][Next]_vars

\* A write that has begun and a thread are scheduled; nobody has to write, and
\* no file has to fail.
FairSpec ==
    /\ Spec
    /\ \A w \in Writers : WF_vars(WriterStep(w))
    /\ \A l \in Layers, n \in 1..(MaxWrites * Cardinality(Writers)) : WF_vars(Exit(<<l, n>>))

-----------------------------------------------------------------------------
\* Types; among them that a writer inside a pass is at a layer of its list.
TypeOK ==
    /\ debug_enabled \in CtlVals \cup {0}
    /\ task \in [Layers -> Nat] /\ made \in [Layers -> Nat]
    /\ \A l \in Layers : task[l] <= made[l]
    /\ alive \subseteq Threads /\ asked \subseteq Threads
    /\ fo \in [Layers -> {0, 1}] /\ stops \in BOOLEAN /\ met \in BOOLEAN
    /\ wpc \in [Writers -> WriterPcs]
    /\ wlist \in [Writers -> {<<>>, RunAll, RunSome}]
    /\ wk \in [Writers -> Nat]
    /\ \A w \in Writers : IF wlist[w] = <<>> THEN wk[w] = 1 /\ wpc[w] \notin AtLayer
                                             ELSE wk[w] \in 1..Len(wlist[w])
    /\ wt \in [Writers -> Nat] /\ writes \in [Writers -> 0..MaxWrites]

Quiet == \A w \in Writers : wpc[w] = "idle"

\* What the commented-out message of init_aiopro_X says of a pointer that is
\* not NULL, "FAIL to create kernel thread ... It already exists": the thread
\* exists.
ExistsMeansAlive ==
    \A w \in Writers : wpc[w] = "check" =>
        (task[Layer(w)] # 0 => <<Layer(w), task[Layer(w)]>> \in alive)

\* A layer gets a second thread, which would drain the same array, only when
\* two writers were between a look at its pointer and the store that follows:
\* init_aiopro_X tests and sets, and stop_aiopro tests, waits and clears, with
\* nothing that keeps others out.  Every other interleaving of starts, stops
\* and failing threads keeps them apart.
OneThreadPerLayer == ~met => \A s, t \in alive : s[1] = t[1] => s = t

\* Short of that, a thread that runs is the one its layer's pointer names, so
\* that 990 reaches it.
NoOrphan == ~met => \A t \in alive : task[t[1]] = t[2]

\* Once all writes have returned, a recording layer has its thread, unless its
\* file could not be opened: what the hooks log is drained.
ActiveLayerHasThread ==
    Quiet => LET list == CASE debug_enabled = 1 -> RunAll
                           [] debug_enabled = 3 -> RunSome
                           [] OTHER -> <<>> IN
             \A k \in 1..Len(list) :
                 fo[list[k]] = 0 => <<list[k], task[list[k]]>> \in alive

\* Writers that never stop the threads cannot take a recording layer's thread
\* from each other, however their writes interleave.
StartersAgree == ~stops => ActiveLayerHasThread

\* Once the writes have returned and 990 is what was written last, no thread
\* runs, short of two writers at one pointer: also when a start was still
\* creating threads behind the stop's pass, or its 1 was overwritten by 990
\* before its last test.
StoppedMeansNone == (Quiet /\ debug_enabled = STOP /\ ~met) => alive = {}

\* A write returns: kthread_stop waits for no thread for ever.
WriteReturns == \A w \in Writers : wpc[w] # "idle" ~> wpc[w] = "idle"
=============================================================================
