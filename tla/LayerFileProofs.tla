-------------------------- MODULE LayerFileProofs --------------------------
(* What the hooks and the thread of a layer do together: the claim          *)
(* implements a try-lock, and as long as no reset overlaps the users of the *)
(* array the file is clean.                                                 *)
EXTENDS LayerLogProofs, SequenceTheorems

-----------------------------------------------------------------------------
(* The refinement of TryLock.                                              *)

\* A step of a task that neither crosses the border of the claim nor that of
\* the writing part is a stutter of the lock.
LEMMA LockUntouched ==
    ASSUME TypeOK, NEW l \in Loggers, NEW place \in LoggerPcs, Goto(l, place),
           pc[l] \in Inside <=> place \in Inside,
           pc[l] \in Writing <=> place \in Writing
    PROVE  UNCHANGED Claims!vars
<1>1. Busy(Inside)' = Busy(Inside) /\ Busy(Writing)' = Busy(Writing)
  BY BusyMoves DEF Busy
<1> QED BY <1>1 DEF Claims!vars

LEMMA LockStep == TypeOK /\ ClaimIsExclusive /\ [Next]_vars => [Claims!Next]_(Claims!vars)
<1> SUFFICES ASSUME TypeOK, ClaimIsExclusive, [Next]_vars
             PROVE  Claims!Next \/ UNCHANGED Claims!vars
  OBVIOUS
<1>1. ASSUME UNCHANGED pc PROVE UNCHANGED Claims!vars
  BY <1>1 DEF Claims!vars, Busy
<1>2. ASSUME NEW l \in Loggers, NEW h \in Layer.hooks, CallInactive(l, h)
      PROVE  UNCHANGED Claims!vars
  <2> DEFINE place == IF debug_enabled \in h.stop /\ flag1 = 0 THEN "stopping" ELSE "idle"
  <2>1. place \in LoggerPcs /\ place \notin Inside /\ place \notin Writing
    BY DEF LoggerPcs, Inside, Writing
  <2>2. Goto(l, place) /\ pc[l] = "idle"
    BY <1>2 DEF CallInactive
  <2> HIDE DEF place
  <2> QED BY <2>1, <2>2, LockUntouched DEF Inside, Writing
<1>3. ASSUME NEW l \in Loggers, NEW h \in Layer.hooks, CallActive(l, h)
      PROVE  UNCHANGED Claims!vars
  <2> DEFINE place == IF flag1 = 1 THEN "restart" ELSE "check"
  <2>1. place \in LoggerPcs /\ place \notin Inside /\ place \notin Writing
    BY DEF LoggerPcs, Inside, Writing
  <2>2. Goto(l, place) /\ pc[l] = "idle"
    BY <1>3 DEF CallActive
  <2> HIDE DEF place
  <2> QED BY <2>1, <2>2, LockUntouched DEF Inside, Writing
<1>4. ASSUME NEW l \in Loggers, LoggerStep(l)
      PROVE  Claims!Next \/ UNCHANGED Claims!vars
  <2> USE DEF LoggerPcs, Inside, Writing
  <2>1. CASE NoteStop(l) \/ Restart(l) \/ Restarted(l)
    <3>1. /\ pc[l] \in {"stopping", "restart", "restarted"}
          /\ Goto(l, "idle") \/ Goto(l, "restarted") \/ Goto(l, "check")
      BY <2>1 DEF NoteStop, Restart, Restarted
    <3> QED BY <3>1, LockUntouched
  <2>2. CASE CheckRoom(l)
    <3>1. pc[l] = "check" /\ (Goto(l, "idle") \/ Goto(l, "claim"))
      BY <2>2 DEF CheckRoom
    <3> QED BY <3>1, LockUntouched
  <2>3. CASE Filtered(l)
    BY <2>3, LockUntouched DEF Filtered
  <2>4. CASE Claim(l)
    <3>1. pc[l] = "claim" /\ Goto(l, "test")
      BY <2>4 DEF Claim
    <3>2. l \notin Busy(Inside) /\ l \notin Busy(Writing)
      BY <3>1 DEF Busy
    <3>3. Busy(Inside)' = Busy(Inside) \cup {l}
      BY <3>1, BusyMoves
    <3>5. Busy(Writing)' = Busy(Writing)
      BY <3>1, <3>2, BusyMoves
    <3>4. Claims!Enter(l)
      BY <3>2, <3>3, <3>5 DEF Claims!Enter
    <3> QED BY <3>4 DEF Claims!Next
  <2>5. CASE TestClaim(l)
    <3>1. CASE aios # 1
      BY <2>5, <3>1, LockUntouched DEF TestClaim
    <3>2. CASE aios = 1
      <4>1. pc[l] = "test" /\ Goto(l, "head")
        BY <2>5, <3>2 DEF TestClaim
      <4>2. PICK x : Busy(Inside) = {x}
        BY <3>2, BusyIsFinite, FS_Singleton DEF ClaimIsExclusive
      <4>3. Busy(Inside) = {l}
        BY <4>1, <4>2 DEF Busy
      <4>4. Busy(Writing) = {}
        BY <4>1, <4>3 DEF Busy
      <4>5. Busy(Inside)' = Busy(Inside) /\ Busy(Writing)' = {l}
        BY <4>1, <4>3, <4>4, BusyMoves
      <4>6. Claims!Win(l)
        BY <4>3, <4>4, <4>5 DEF Claims!Win
      <4> QED BY <4>6 DEF Claims!Next
    <3> QED BY <3>1, <3>2
  <2>6. CASE Divert(l)
    BY <2>6, LockUntouched DEF Divert
  <2>7. CASE WriteHead(l)
    BY <2>7, LockUntouched DEF WriteHead, Store
  <2>8. CASE WriteTail(l)
    BY <2>8, LockUntouched DEF WriteTail, Store
  <2>9. CASE BumpLoad(l)
    BY <2>9, LockUntouched DEF BumpLoad
  <2>10. CASE BumpStore(l)
    BY <2>10, LockUntouched DEF BumpStore
  <2>11. CASE Publish(l)
    <3>1. pc[l] = "publish" /\ Goto(l, "release")
      BY <2>11 DEF Publish
    <3>2. l \in Busy(Writing) /\ \A m \in Busy(Writing) : m = l
      BY <3>1 DEF ClaimIsExclusive, Busy
    <3>5. Busy(Writing) = {l}
      BY <3>2
    <3>6. l \in Busy(Inside)
      BY <3>1 DEF Busy
    <3>7. Busy(Writing)' = Busy(Writing) \ {l}
      BY <3>1, BusyMoves
    <3>8. Busy(Inside)' = Busy(Inside) \cup {l}
      BY <3>1, BusyMoves
    <3>3. Busy(Writing)' = {} /\ Busy(Inside)' = Busy(Inside)
      BY <3>5, <3>6, <3>7, <3>8
    <3>4. Claims!Done(l)
      BY <3>5, <3>3 DEF Claims!Done
    <3> QED BY <3>4 DEF Claims!Next
  <2>12. CASE Release(l)
    <3>1. pc[l] = "release" /\ Goto(l, "idle")
      BY <2>12 DEF Release
    <3>2. l \in Busy(Inside) /\ l \notin Busy(Writing)
      BY <3>1 DEF Busy
    <3>3. Busy(Inside)' = Busy(Inside) \ {l} /\ Busy(Writing)' = Busy(Writing)
      BY <3>1, <3>2, BusyMoves
    <3>4. Claims!Leave(l)
      BY <3>2, <3>3 DEF Claims!Leave
    <3> QED BY <3>4 DEF Claims!Next
  <2> QED
    BY <1>4, <2>1, <2>2, <2>3, <2>4, <2>5, <2>6, <2>7, <2>8, <2>9, <2>10, <2>11, <2>12
       DEF LoggerStep
<1>5. CASE ThreadStep
  <2>1. UNCHANGED pc
    BY <1>5 DEF ThreadStep, Poll, ThreadStopped, NothingLeft, OpenFile, OpenFails, ArmTimer,
       TimerRuns, TimerExpires, Scan, Refresh, ResetSize, ResetLog, logVars
  <2> QED BY <2>1, <1>1
<1>6. CASE \E v \in CtlVals : WriteControl(v)
  BY <1>1, <1>6 DEF WriteControl, logVars
<1>7. CASE UNCHANGED vars
  BY <1>1, <1>7 DEF vars, logVars
<1>8. CASE \E l \in Loggers, h \in Layer.hooks : CallInactive(l, h) \/ CallActive(l, h)
  BY <1>8, <1>2, <1>3
<1>9. CASE \E l \in Loggers : LoggerStep(l)
  BY <1>9, <1>4
<1> QED
  BY <1>5, <1>6, <1>7, <1>8, <1>9 DEF Next

\* The counter around the array implements a try-lock for any number of tasks:
\* every step of the layer is a step of TryLock or leaves the lock alone.
THEOREM ImplementsTryLock == Spec => ClaimIsTryLock
<1>1. Init => Claims!Init
  BY DEF Init, Claims!Init, Busy, Inside, Writing
<1>2. TypeOK /\ ClaimIsExclusive /\ [Next]_vars => (TypeOK /\ ClaimIsExclusive)'
  BY TypeStep, ClaimStep
<1>3. Init => TypeOK /\ ClaimIsExclusive
  BY TypeInit, ClaimInit
<1> QED
  BY <1>1, <1>2, <1>3, LockStep, PTL DEF Spec, ClaimIsTryLock, Claims!Spec

-----------------------------------------------------------------------------
(* The file.                                                               *)

InUse == {s \in Slots : s < sys_size}

\* A call whose record is not counted in the array yet.
AheadPcs == LoggerPcs \ {"idle", "publish", "release"}
Ahead(e) ==
    \/ e[2] > calls[e[1]]
    \/ e[2] = calls[e[1]] /\ pc[e[1]] \in AheadPcs

\* Slots in use hold whole records, each its own, and the file has a line of
\* those the thread went past, and of no call that is ahead.
SlotsAreWhole == \A s \in InUse :
    /\ Line(s) \in Event /\ sys_log[s].hd = Line(s) /\ ~Ahead(Line(s))
    /\ file[Line(s)] = IF s < fi /\ fpc # "resetlog" THEN 1 ELSE 0
LinesDiffer == \A s, t \in InUse : Line(s) = Line(t) => s = t
FileIsClean ==
    /\ ~torn /\ \A e \in Event : file[e] <= 1
    /\ \A e \in Event : Ahead(e) => file[e] = 0

\* What the writer has stored so far is in the slot behind the last.
WriterIsThere == \A l \in Loggers :
    /\ pc[l] \in {"tail", "bump", "store"} => sys_log[sys_size].hd = Me(l)
    /\ pc[l] \in {"bump", "store"} => sys_log[sys_size].tl = Me(l)
    /\ pc[l] = "publish" => tmp[l] + 1 = sys_size

\* The thread's copies of the size never exceed it.
CopiesAreBehind ==
    /\ log_size <= sys_size \/ fpc = "resetlog" \/ Busy({"restarted"}) # {}
    /\ fpc \in {"gate", "scan", "refresh"} =>
          Busy({"restarted"}) = {} /\ fsz <= sys_size /\ fi <= sys_size
    /\ fpc \in {"none", "poll", "gate", "exited"} => fi = 0

Clean == SlotsAreWhole /\ LinesDiffer /\ FileIsClean /\ WriterIsThere /\ CopiesAreBehind

CInv == IInv /\ (~raced => Clean)

LEMMA CTypes ==
    ASSUME TypeOK
    PROVE  /\ sys_size \in Nat /\ log_size \in Nat /\ fsz \in Nat /\ fi \in Nat
           /\ pc \in [Loggers -> LoggerPcs] /\ calls \in [Loggers -> Nat]
           /\ tmp \in [Loggers -> Nat] /\ file \in [Event -> 0..2]
           /\ sys_log \in [Slots -> [hd : Event \cup {NoEvent}, tl : Event \cup {NoEvent}]]
           /\ torn \in BOOLEAN /\ raced \in BOOLEAN /\ fpc \in ThreadPcs
           /\ \A s \in Slots : s \in Nat
<1>1. calls \in [Loggers -> Nat]
  BY LayerAssumption DEF TypeOK
<1>2. \A s \in Slots : s \in Nat
  BY DEF Slots
<1> QED BY <1>1, <1>2 DEF TypeOK

LEMMA EventFacts ==
    ASSUME NEW e \in Event
    PROVE  e[1] \in Loggers /\ e[2] \in Nat /\ e = <<e[1], e[2]>> /\ e # NoEvent
  BY LayerAssumption DEF Event, NoEvent

\* A hook that moves without touching the array: the slots, the file and the
\* writer, if it is another one, stay as they are.
LEMMA HookStep ==
    ASSUME TypeOK, Clean, NEW l \in Loggers,
           NEW place \in LoggerPcs \ {"tail", "bump", "store", "publish"}, Goto(l, place),
           \/ UNCHANGED calls /\ (place \in AheadPcs => pc[l] \in AheadPcs)
           \/ pc[l] = "idle" /\ calls' = [calls EXCEPT ![l] = @ + 1],
           UNCHANGED <<sys_size, sys_log, file, torn, fi, fpc>>,
           \A m \in Loggers \ {l} : tmp'[m] = tmp[m]
    PROVE  SlotsAreWhole' /\ LinesDiffer' /\ FileIsClean' /\ WriterIsThere'
<1>1. \A e \in Event : Ahead(e)' => Ahead(e)
  <2> SUFFICES ASSUME NEW e \in Event, Ahead(e)' PROVE Ahead(e)
    OBVIOUS
  <2>1. e[1] \in Loggers /\ e[2] \in Nat
    BY EventFacts
  <2> QED BY <2>1, CTypes DEF Ahead, Goto, AheadPcs
<1>2. InUse' = InUse /\ \A s \in InUse : Line(s)' = Line(s)
  BY DEF InUse, Line
<1>3. SlotsAreWhole' /\ LinesDiffer'
  BY <1>1, <1>2 DEF Clean, SlotsAreWhole, LinesDiffer
<1>4. FileIsClean'
  BY <1>1 DEF Clean, FileIsClean
<1>5. \A m \in Loggers \ {l} : pc'[m] = pc[m] /\ calls'[m] = calls[m]
  BY CTypes DEF Goto
<1>6. pc'[l] = place
  BY CTypes DEF Goto
<1>7. WriterIsThere'
  BY <1>5, <1>6 DEF Clean, WriterIsThere, Me
<1> QED BY <1>3, <1>4, <1>7

\* The same for the copies of the size.
LEMMA CopiesStep ==
    ASSUME TypeOK, Clean, NEW l \in Loggers,
           NEW place \in LoggerPcs \ {"restarted"}, Goto(l, place), pc[l] # "restarted",
           UNCHANGED <<fpc, fsz, fi, log_size>>, sys_size' \in Nat, sys_size' >= sys_size
    PROVE  CopiesAreBehind'
<1>1. Busy({"restarted"})' = Busy({"restarted"})
  BY CTypes DEF Busy, Goto
<1> QED BY <1>1, CTypes DEF Clean, CopiesAreBehind

\* The writer is alone, and the slot behind the last is one of the array's.
LEMMA WriterSlot ==
    ASSUME IInv, ~raced, NEW l \in Loggers, pc[l] \in {"head", "tail", "bump", "store"}
    PROVE  /\ sys_size \in Slots
           /\ \A m \in Loggers \ {l} : pc[m] \notin {"tail", "bump", "store", "publish"}
<1>1. l \in Busy(Passed) /\ l \in Busy(Writing)
  BY DEF Busy, Passed, Writing
<1>2. Cardinality(Busy(Passed)) > 0
  <2>1. Cardinality(Busy(Passed)) # 0
    BY <1>1, BusyIsFinite, FS_EmptySet
  <2> QED BY <2>1, BusyIsFinite
<1>3. sys_size + Cardinality(Busy(Passed)) <= AIOMAX - 1 + Cardinality(Loggers)
  BY DEF IInv, OvershootIsBounded
<1>4. /\ sys_size \in Nat /\ AIOMAX \in Nat /\ Cardinality(Busy(Passed)) \in Nat
      /\ Cardinality(Loggers) \in Nat
  BY BusyIsFinite, LayerAssumption, FS_CardinalityType, CTypes DEF LayerAssumption, IInv
<1>5. sys_size \in Slots
  BY <1>2, <1>3, <1>4 DEF Slots
<1>6. \A m \in Loggers : pc[m] \in Writing => m = l
  BY <1>1 DEF IInv, ClaimIsExclusive, Busy
<1> QED BY <1>5, <1>6 DEF Writing

\* A field of the record is stored behind the slots in use.
LEMMA CleanStore ==
    ASSUME IInv, Clean, ~raced, NEW l \in Loggers,
           NEW place, NEW field, NEW next,
           \/ place = "head" /\ field = "hd" /\ next = "tail"
           \/ place = "tail" /\ field = "tl" /\ next = "bump",
           Store(l, place, field, next)
    PROVE  Clean'
<1>0. TypeOK
  BY DEF IInv
<1>1. sys_size \in Slots /\ pc[l] = place /\ pc[l] \in {"head", "tail", "bump", "store"}
  BY WriterSlot DEF Store
<1>2. /\ sys_log' = [sys_log EXCEPT ![sys_size][field] = Me(l)] /\ Goto(l, next)
      /\ UNCHANGED <<sys_size, log_size, calls, tmp, fpc, fsz, fi, file, torn>>
  BY <1>1 DEF Store, thrVars, histVars
<1>3. \A e \in Event : Ahead(e)' => Ahead(e)
  <2> SUFFICES ASSUME NEW e \in Event, Ahead(e)' PROVE Ahead(e)
    OBVIOUS
  <2>1. e[1] \in Loggers /\ e[2] \in Nat
    BY EventFacts
  <2> QED BY <2>1, <1>0, <1>1, <1>2, CTypes DEF Ahead, Goto, AheadPcs, LoggerPcs
<1>4. InUse' = InUse /\ \A s \in InUse : sys_log'[s] = sys_log[s]
  BY <1>0, <1>2, CTypes DEF InUse
<1>5. SlotsAreWhole' /\ LinesDiffer'
  BY <1>2, <1>3, <1>4 DEF Clean, SlotsAreWhole, LinesDiffer, Line
<1>6. FileIsClean'
  BY <1>2, <1>3 DEF Clean, FileIsClean
<1>7. WriterIsThere'
  <2>1. \A m \in Loggers \ {l} : pc'[m] \notin {"tail", "bump", "store", "publish"}
    BY <1>0, <1>1, <1>2, WriterSlot, CTypes DEF Goto
  <2>2. pc'[l] = next
    BY <1>0, <1>2, CTypes DEF Goto
  <2>3. sys_log'[sys_size].hd = Me(l)
    BY <1>0, <1>1, <1>2, CTypes DEF Clean, WriterIsThere
  <2>4. next = "bump" => sys_log'[sys_size].tl = Me(l)
    BY <1>0, <1>1, <1>2, CTypes
  <2> QED BY <2>1, <2>2, <2>3, <2>4, <1>2 DEF WriterIsThere, Me
<1>8. CopiesAreBehind'
  BY <1>0, <1>1, <1>2, CTypes, CopiesStep DEF LoggerPcs
<1> QED BY <1>5, <1>6, <1>7, <1>8 DEF Clean

\* The record is counted: one whole slot more, which the file does not have.
LEMMA CleanBump ==
    ASSUME IInv, Clean, ~raced, NEW l \in Loggers, BumpStore(l)
    PROVE  Clean'
<1>0. TypeOK
  BY DEF IInv
<1>1. sys_size \in Slots /\ pc[l] = "store" /\ tmp[l] = sys_size /\ Me(l) \in Event
  BY <1>0, WriterSlot, MeIsEvent DEF BumpStore, IInv, LoadedIsCurrent
<1>2. /\ sys_size' = sys_size + 1 /\ Goto(l, "publish")
      /\ UNCHANGED <<sys_log, log_size, calls, tmp, fpc, fsz, fi, file, torn>>
  BY <1>1 DEF BumpStore, thrVars
<1>3. /\ \A e \in Event : Ahead(e)' => Ahead(e)
      /\ Ahead(Me(l)) /\ ~Ahead(Me(l))'
  <2>1. \A e \in Event : Ahead(e)' => Ahead(e)
    <3> SUFFICES ASSUME NEW e \in Event, Ahead(e)' PROVE Ahead(e)
      OBVIOUS
    <3>1. e[1] \in Loggers /\ e[2] \in Nat
      BY EventFacts
    <3> QED BY <3>1, <1>0, <1>1, <1>2, CTypes DEF Ahead, Goto, AheadPcs, LoggerPcs
  <2>2. Ahead(Me(l))
    BY <1>1 DEF Ahead, Me, AheadPcs, LoggerPcs
  <2>3. ~Ahead(Me(l))'
    BY <1>0, <1>2, CTypes DEF Ahead, Me, Goto, AheadPcs
  <2> QED BY <2>1, <2>2, <2>3
<1>4. InUse' = InUse \cup {sys_size} /\ \A s \in InUse : s # sys_size
  BY <1>0, <1>1, <1>2, CTypes DEF InUse
<1>5. \A s \in Slots : Line(s)' = Line(s)
  BY <1>2 DEF Line
<1>6. Line(sys_size) = Me(l) /\ sys_log[sys_size].hd = Me(l)
  BY <1>1 DEF Line, Clean, WriterIsThere
<1>7. file[Me(l)] = 0 /\ ~(sys_size < fi /\ fpc # "resetlog")
  <2>1. file[Me(l)] = 0
    BY <1>1, <1>3 DEF Clean, FileIsClean
  <2>2. fpc # "resetlog" => fi <= sys_size
    BY <1>0, CTypes DEF Clean, CopiesAreBehind, ThreadPcs
  <2> QED BY <2>1, <2>2, <1>0, CTypes
<1>8. SlotsAreWhole'
  <2>2. InUse \subseteq Slots
    BY DEF InUse
  <2>1. ASSUME NEW s \in InUse
        PROVE  /\ Line(s) \in Event /\ sys_log[s].hd = Line(s) /\ ~Ahead(Line(s))'
               /\ file[Line(s)] = IF s < fi /\ fpc # "resetlog" THEN 1 ELSE 0
    <3>1. /\ Line(s) \in Event /\ sys_log[s].hd = Line(s) /\ ~Ahead(Line(s))
          /\ file[Line(s)] = IF s < fi /\ fpc # "resetlog" THEN 1 ELSE 0
      BY DEF Clean, SlotsAreWhole
    <3>2. Line(s)' = Line(s)
      BY <1>5, <2>2
    <3> QED BY <3>1, <3>2, <1>3
  <2>3. ASSUME NEW s \in InUse'
        PROVE  /\ Line(s)' \in Event /\ sys_log'[s].hd = Line(s)' /\ ~Ahead(Line(s))'
               /\ file'[Line(s)'] = IF s < fi' /\ fpc' # "resetlog" THEN 1 ELSE 0
    <3>1. CASE s \in InUse
      BY <3>1, <2>1, <2>2, <1>2, <1>5
    <3>2. CASE s = sys_size
      <4>1. Line(s)' = Me(l) /\ Me(l)' = Me(l)
        BY <3>2, <1>1, <1>2, <1>5, <1>6 DEF Me
      <4> QED BY <4>1, <3>2, <1>1, <1>2, <1>3, <1>6, <1>7
    <3> QED BY <3>1, <3>2, <1>4
  <2> QED BY <2>3 DEF SlotsAreWhole
<1>9. LinesDiffer'
  <2>1. \A s \in InUse : Line(s) # Me(l)
    BY <1>3 DEF Clean, SlotsAreWhole
  <2>2. InUse \subseteq Slots
    BY DEF InUse
  <2> QED BY <2>1, <2>2, <1>1, <1>4, <1>5, <1>6 DEF Clean, LinesDiffer
<1>10. FileIsClean'
  BY <1>2, <1>3 DEF Clean, FileIsClean
<1>11. WriterIsThere'
  <2>1. \A m \in Loggers \ {l} : pc'[m] \notin {"tail", "bump", "store", "publish"}
    BY <1>0, <1>1, <1>2, WriterSlot, CTypes DEF Goto
  <2>2. pc'[l] = "publish"
    BY <1>0, <1>2, CTypes DEF Goto
  <2> QED BY <2>1, <2>2, <1>1, <1>2 DEF WriterIsThere
<1>12. CopiesAreBehind'
  BY <1>0, <1>1, <1>2, CTypes, CopiesStep DEF LoggerPcs
<1> QED BY <1>8, <1>9, <1>10, <1>11, <1>12 DEF Clean

\* Hooks, one by one.
LEMMA CleanHook ==
    ASSUME IInv, Clean, ~raced, ~raced', NEW l \in Loggers, LoggerStep(l)
    PROVE  Clean'
<1>0. TypeOK /\ pc \in [Loggers -> LoggerPcs]
  BY CTypes DEF IInv
<1> USE DEF LoggerPcs, AheadPcs, bufVars, thrVars, histVars
<1>1. ASSUME NEW place \in LoggerPcs \ {"restarted", "tail", "bump", "store", "publish"},
             Goto(l, place), pc[l] # "restarted",
             place \in AheadPcs => pc[l] \in AheadPcs, UNCHANGED calls,
             UNCHANGED <<sys_size, log_size, sys_log, file, torn, fi, fpc, fsz, tmp>>
      PROVE  Clean'
  <2>1. SlotsAreWhole' /\ LinesDiffer' /\ FileIsClean' /\ WriterIsThere'
    BY <1>0, <1>1, HookStep
  <2>2. CopiesAreBehind'
    BY <1>0, <1>1, CTypes, CopiesStep
  <2> QED BY <2>1, <2>2 DEF Clean
<1>2. CASE NoteStop(l)
  BY <1>1, <1>2 DEF NoteStop
<1>3. CASE Restart(l)
  <2>1. /\ Goto(l, "restarted") /\ sys_size' = 0 /\ pc[l] = "restart"
        /\ UNCHANGED <<sys_log, log_size, calls, tmp, fpc, fsz, fi, file, torn>>
        /\ Busy(Writing) = {} /\ fpc \notin {"gate", "scan", "refresh"}
    BY <1>3 DEF Restart
  <2>2. \A e \in Event : Ahead(e)' => Ahead(e)
    <3> SUFFICES ASSUME NEW e \in Event, Ahead(e)' PROVE Ahead(e)
      OBVIOUS
    <3>1. e[1] \in Loggers /\ e[2] \in Nat
      BY EventFacts
    <3> QED BY <3>1, <1>0, <2>1, CTypes DEF Ahead, Goto
  <2>3. InUse' = {}
    BY <2>1, <1>0, CTypes DEF InUse
  <2>4. SlotsAreWhole' /\ LinesDiffer'
    BY <2>3 DEF SlotsAreWhole, LinesDiffer
  <2>5. FileIsClean'
    BY <2>1, <2>2 DEF Clean, FileIsClean
  <2>6. \A m \in Loggers : pc[m] \notin Writing
    BY <2>1 DEF Busy
  <2>7. \A m \in Loggers : pc'[m] \notin {"tail", "bump", "store", "publish"}
    BY <2>1, <2>6, <1>0 DEF Goto, Writing
  <2>8. WriterIsThere'
    BY <2>7 DEF WriterIsThere
  <2>9. l \in Busy({"restarted"})'
    BY <2>1, <1>0 DEF Busy, Goto
  <2>10. CopiesAreBehind'
    BY <2>1, <2>9 DEF Clean, CopiesAreBehind
  <2> QED BY <2>4, <2>5, <2>8, <2>10 DEF Clean
<1>4. CASE Restarted(l)
  <2>1. /\ Goto(l, "check") /\ log_size' = 0 /\ pc[l] = "restarted"
        /\ UNCHANGED <<sys_size, sys_log, calls, tmp, fpc, fsz, fi, file, torn>>
    BY <1>4 DEF Restarted
  <2>2. SlotsAreWhole' /\ LinesDiffer' /\ FileIsClean' /\ WriterIsThere'
    BY <1>0, <2>1, HookStep
  <2>3. Busy({"restarted"})' \subseteq Busy({"restarted"})
    BY <2>1, <1>0 DEF Busy, Goto
  <2>4. CopiesAreBehind'
    BY <2>1, <2>3, <1>0, CTypes DEF Clean, CopiesAreBehind
  <2> QED BY <2>2, <2>4 DEF Clean
<1>5. CASE CheckRoom(l)
  <2>1. pc[l] = "check" /\ (Goto(l, "claim") \/ Goto(l, "idle"))
    BY <1>5 DEF CheckRoom
  <2>2. UNCHANGED <<sys_size, log_size, sys_log, file, torn, fi, fpc, fsz, tmp, calls>>
    BY <1>5 DEF CheckRoom
  <2> QED BY <1>1, <2>1, <2>2
<1>6. CASE Filtered(l)
  BY <1>1, <1>6 DEF Filtered
<1>7. CASE Claim(l)
  BY <1>1, <1>7 DEF Claim
<1>8. CASE TestClaim(l)
  BY <1>1, <1>8 DEF TestClaim
<1>9. CASE Divert(l)
  BY <1>1, <1>9 DEF Divert
<1>10. CASE WriteHead(l)
  BY <1>10, CleanStore DEF WriteHead
<1>11. CASE WriteTail(l)
  BY <1>11, CleanStore DEF WriteTail
<1>12. CASE BumpLoad(l)
  <2>1. /\ Goto(l, "store") /\ pc[l] = "bump" /\ tmp' = [tmp EXCEPT ![l] = sys_size]
        /\ UNCHANGED <<sys_size, log_size, sys_log, calls, fpc, fsz, fi, file, torn>>
    BY <1>12 DEF BumpLoad
  <2>2. \A e \in Event : Ahead(e)' => Ahead(e)
    <3> SUFFICES ASSUME NEW e \in Event, Ahead(e)' PROVE Ahead(e)
      OBVIOUS
    <3>1. e[1] \in Loggers /\ e[2] \in Nat
      BY EventFacts
    <3> QED BY <3>1, <1>0, <2>1, CTypes DEF Ahead, Goto
  <2>3. SlotsAreWhole' /\ LinesDiffer'
    BY <2>1, <2>2 DEF Clean, SlotsAreWhole, LinesDiffer, InUse, Line
  <2>4. FileIsClean'
    BY <2>1, <2>2 DEF Clean, FileIsClean
  <2>5. \A m \in Loggers \ {l} : pc'[m] \notin {"tail", "bump", "store", "publish"}
    BY <1>0, <2>1, WriterSlot DEF Goto
  <2>6. pc'[l] = "store"
    BY <1>0, <2>1 DEF Goto
  <2>7. WriterIsThere'
    BY <2>1, <2>5, <2>6 DEF Clean, WriterIsThere, Me
  <2>8. CopiesAreBehind'
    BY <1>0, <2>1, CTypes, CopiesStep
  <2> QED BY <2>3, <2>4, <2>7, <2>8 DEF Clean
<1>13. CASE BumpStore(l)
  BY <1>13, CleanBump
<1>14. CASE Publish(l)
  <2>1. /\ Goto(l, "release") /\ pc[l] = "publish" /\ tmp' = [tmp EXCEPT ![l] = 0]
        /\ log_size' \in {sys_size, tmp[l] + 1}
        /\ UNCHANGED <<sys_size, sys_log, calls, fpc, fsz, fi, file, torn>>
    BY <1>14 DEF Publish
  <2>2. log_size' = sys_size
    BY <2>1 DEF Clean, WriterIsThere
  <2>3. \A m \in Loggers \ {l} : tmp'[m] = tmp[m]
    BY <2>1, <1>0, CTypes
  <2>4. SlotsAreWhole' /\ LinesDiffer' /\ FileIsClean' /\ WriterIsThere'
    BY <1>0, <2>1, <2>3, HookStep
  <2>5. Busy({"restarted"})' = Busy({"restarted"})
    BY <2>1, <1>0 DEF Busy, Goto
  <2>6. CopiesAreBehind'
    BY <2>1, <2>2, <2>5, <1>0, CTypes DEF Clean, CopiesAreBehind
  <2> QED BY <2>4, <2>6 DEF Clean
<1>15. CASE Release(l)
  BY <1>1, <1>15 DEF Release
<1> QED
  BY <1>2, <1>3, <1>4, <1>5, <1>6, <1>7, <1>8, <1>9, <1>10, <1>11, <1>12, <1>13, <1>14,
     <1>15 DEF LoggerStep

\* Steps that leave the hooks where they are.
LEMMA StillStep ==
    ASSUME TypeOK, Clean,
           UNCHANGED <<sys_size, log_size, sys_log, pc, calls, tmp, file, torn, fi>>,
           (fpc' = "resetlog") <=> (fpc = "resetlog")
    PROVE  SlotsAreWhole' /\ LinesDiffer' /\ FileIsClean' /\ WriterIsThere'
<1>1. \A e \in Event : Ahead(e)' <=> Ahead(e)
  BY DEF Ahead
<1>2. SlotsAreWhole' /\ LinesDiffer'
  BY <1>1 DEF Clean, SlotsAreWhole, LinesDiffer, InUse, Line
<1>3. FileIsClean'
  BY <1>1 DEF Clean, FileIsClean
<1>4. WriterIsThere'
  BY DEF Clean, WriterIsThere, Me
<1> QED BY <1>2, <1>3, <1>4

\* The thread, step by step.
LEMMA CleanThread ==
    ASSUME IInv, Clean, ~raced, ~raced', ThreadStep
    PROVE  Clean'
<1>0. TypeOK
  BY DEF IInv
<1> USE DEF logVars, bufVars, histVars
<1>1. CASE Poll
  <2>1. /\ fpc = "poll" /\ fpc' = "gate" /\ fsz' = log_size /\ Busy({"restarted"}) = {}
        /\ UNCHANGED <<sys_size, log_size, sys_log, pc, calls, tmp, file, torn, fi>>
    BY <1>1 DEF Poll
  <2>2. Busy({"restarted"})' = Busy({"restarted"})
    BY <2>1 DEF Busy
  <2>3. CopiesAreBehind'
    BY <2>1, <2>2, <1>0, CTypes DEF Clean, CopiesAreBehind
  <2> QED BY <1>0, <2>1, <2>3, StillStep DEF Clean
<1>2. CASE ThreadStopped \/ NothingLeft \/ ArmTimer \/ TimerRuns \/ TimerExpires \/ OpenFails
  <2>1. /\ fpc \in {"poll", "gate"} /\ fpc' \in {"none", "poll", "exited"} /\ fsz' = 0 /\ fi' = 0
        /\ UNCHANGED <<sys_size, log_size, sys_log, pc, calls, tmp, file, torn>>
    BY <1>2 DEF ThreadStopped, NothingLeft, ArmTimer, TimerRuns, TimerExpires, OpenFails, Return
  <2>2. fi' = fi
    BY <2>1 DEF Clean, CopiesAreBehind
  <2>3. Busy({"restarted"})' = Busy({"restarted"})
    BY <2>1 DEF Busy
  <2>4. CopiesAreBehind'
    BY <2>1, <2>2, <2>3 DEF Clean, CopiesAreBehind
  <2> QED BY <1>0, <2>1, <2>2, <2>4, StillStep DEF Clean
<1>3. CASE OpenFile
  <2>1. /\ fpc = "gate" /\ fpc' = "scan" /\ fsz' = fsz
        /\ UNCHANGED <<sys_size, log_size, sys_log, pc, calls, tmp, file, torn, fi>>
    BY <1>3 DEF OpenFile
  <2>2. Busy({"restarted"})' = Busy({"restarted"})
    BY <2>1 DEF Busy
  <2>3. CopiesAreBehind'
    BY <2>1, <2>2 DEF Clean, CopiesAreBehind
  <2> QED BY <1>0, <2>1, <2>3, StillStep DEF Clean
<1>4. CASE Scan
  <2>1. /\ fpc = "scan" /\ fi < fsz /\ fi' = fi + 1 /\ fpc' = "refresh"
        /\ UNCHANGED <<sys_size, log_size, sys_log, pc, calls, tmp, fsz>>
    BY <1>4 DEF Scan
  <2>2. fi < sys_size /\ fi \in Nat /\ sys_size \in Nat
    BY <2>1, <1>0, CTypes DEF Clean, CopiesAreBehind
  <2>3. fi \in Slots
    <3>1. Cardinality(Busy(Passed)) \in Nat /\ Cardinality(Loggers) \in Nat /\ AIOMAX \in Nat
      BY BusyIsFinite, LayerAssumption, FS_CardinalityType DEF LayerAssumption
    <3>2. sys_size + Cardinality(Busy(Passed)) <= AIOMAX - 1 + Cardinality(Loggers)
      BY DEF IInv, OvershootIsBounded
    <3> QED BY <2>2, <3>1, <3>2 DEF Slots
  <2>4. fi \in InUse
    BY <2>2, <2>3 DEF InUse
  <2>5. /\ Line(fi) \in Event /\ sys_log[fi].hd = Line(fi) /\ ~Ahead(Line(fi))
        /\ file[Line(fi)] = 0
    BY <2>4, <2>2 DEF Clean, SlotsAreWhole
  <2>6. Line(fi) # NoEvent
    BY <2>5, EventFacts
  <2>7. file' = [file EXCEPT ![Line(fi)] = 1]
    BY <1>4, <2>3, <2>5, <2>6, <1>0, CTypes DEF Scan
  <2>8. torn' = torn
    BY <1>4, <2>5, <1>0, CTypes DEF Scan
  <2>9. \A e \in Event : Ahead(e)' <=> Ahead(e)
    BY <2>1 DEF Ahead
  <2>10. InUse' = InUse /\ \A s : Line(s)' = Line(s)
    BY <2>1 DEF InUse, Line
  <2>11. LinesDiffer'
    BY <2>10 DEF Clean, LinesDiffer
  <2>12. SlotsAreWhole'
    <3>1. ASSUME NEW s \in InUse
          PROVE  file'[Line(s)] = IF s < fi + 1 THEN 1 ELSE 0
      <4>1. Line(s) \in Event /\ file[Line(s)] = IF s < fi THEN 1 ELSE 0
        BY <2>1 DEF Clean, SlotsAreWhole
      <4>2. s \in Nat
        BY <1>0, CTypes DEF InUse
      <4>3. CASE s = fi
        BY <4>3, <2>2, <2>5, <2>7, <1>0, CTypes
      <4>4. CASE s # fi
        <5>1. Line(s) # Line(fi)
          BY <4>4, <2>4 DEF Clean, LinesDiffer
        <5>2. file'[Line(s)] = file[Line(s)]
          BY <5>1, <4>1, <2>7, <1>0, CTypes
        <5> QED BY <5>2, <4>1, <4>2, <4>4, <2>2
      <4> QED BY <4>3, <4>4
    <3>2. ASSUME NEW s \in InUse
          PROVE  Line(s) \in Event /\ sys_log[s].hd = Line(s) /\ ~Ahead(Line(s))
      BY DEF Clean, SlotsAreWhole
    <3>3. \A s \in InUse : ~Ahead(Line(s))'
      BY <3>2, <2>9, <2>10
    <3> QED BY <3>1, <3>2, <3>3, <2>1, <2>10 DEF SlotsAreWhole
  <2>13. FileIsClean'
    <3>1. \A e \in Event : file'[e] <= 1
      BY <2>5, <2>7, <1>0, CTypes DEF Clean, FileIsClean
    <3>2. \A e \in Event : Ahead(e)' => file'[e] = 0
      BY <2>5, <2>7, <2>9, <1>0, CTypes DEF Clean, FileIsClean
    <3> QED BY <3>1, <3>2, <2>8 DEF Clean, FileIsClean
  <2>14. WriterIsThere'
    BY <2>1 DEF Clean, WriterIsThere, Me
  <2>15. Busy({"restarted"})' = Busy({"restarted"})
    BY <2>1 DEF Busy
  <2>16. CopiesAreBehind'
    BY <2>1, <2>2, <2>15 DEF Clean, CopiesAreBehind
  <2> QED BY <2>11, <2>12, <2>13, <2>14, <2>16 DEF Clean
<1>5. CASE Refresh
  <2>1. /\ fpc = "refresh" /\ fpc' = "scan" /\ fsz' \in {fsz, log_size}
        /\ UNCHANGED <<sys_size, log_size, sys_log, pc, calls, tmp, file, torn, fi>>
    BY <1>5 DEF Refresh
  <2>2. Busy({"restarted"})' = Busy({"restarted"})
    BY <2>1 DEF Busy
  <2>3. CopiesAreBehind'
    BY <2>1, <2>2 DEF Clean, CopiesAreBehind
  <2> QED BY <1>0, <2>1, <2>3, StillStep DEF Clean
<1>6. CASE ResetSize
  <2>1. /\ fpc' = "resetlog" /\ sys_size' = 0 /\ Busy(Writing) = {}
        /\ UNCHANGED <<log_size, sys_log, pc, calls, tmp, file, torn, fi>>
    BY <1>6 DEF ResetSize
  <2>2. InUse' = {}
    BY <2>1, <1>0, CTypes DEF InUse
  <2>3. SlotsAreWhole' /\ LinesDiffer'
    BY <2>2 DEF SlotsAreWhole, LinesDiffer
  <2>4. \A e \in Event : Ahead(e)' <=> Ahead(e)
    BY <2>1 DEF Ahead
  <2>5. FileIsClean'
    BY <2>1, <2>4 DEF Clean, FileIsClean
  <2>6. \A m \in Loggers : pc'[m] \notin {"tail", "bump", "store", "publish"}
    BY <2>1 DEF Busy, Writing
  <2>7. WriterIsThere'
    BY <2>6 DEF WriterIsThere
  <2> QED BY <2>1, <2>3, <2>5, <2>7 DEF Clean, CopiesAreBehind
<1>7. CASE ResetLog
  <2>1. /\ fpc = "resetlog" /\ fpc' = "poll" /\ log_size' = 0 /\ fi' = 0
        /\ UNCHANGED <<sys_size, sys_log, pc, calls, tmp, file, torn>>
    BY <1>7 DEF ResetLog, Return
  <2>2. \A e \in Event : Ahead(e)' <=> Ahead(e)
    BY <2>1 DEF Ahead
  <2>3. \A s \in InUse : ~(s < 0)
    BY <1>0, CTypes DEF InUse
  <2>4. InUse' = InUse /\ \A s : Line(s)' = Line(s)
    BY <2>1 DEF InUse, Line
  <2>5. \A s \in InUse : ~Ahead(Line(s))'
    BY <2>2, <2>4 DEF Clean, SlotsAreWhole
  <2>6. SlotsAreWhole' /\ LinesDiffer'
    BY <2>1, <2>3, <2>4, <2>5 DEF Clean, SlotsAreWhole, LinesDiffer
  <2>7. FileIsClean'
    BY <2>1, <2>2 DEF Clean, FileIsClean
  <2>8. WriterIsThere'
    BY <2>1 DEF Clean, WriterIsThere, Me
  <2>9. CopiesAreBehind'
    BY <2>1, <1>0, CTypes DEF CopiesAreBehind
  <2> QED BY <2>6, <2>7, <2>8, <2>9 DEF Clean
<1> QED BY <1>1, <1>2, <1>3, <1>4, <1>5, <1>6, <1>7 DEF ThreadStep

\* Raced is never taken back.
LEMMA RacedStays == TypeOK /\ [Next]_vars => (raced => raced')
<1> SUFFICES ASSUME TypeOK, [Next]_vars PROVE raced => raced'
  OBVIOUS
<1>1. raced' = raced \/ Poll \/ ResetSize \/ \E l \in Loggers : Restart(l)
  BY DEF Next, WriteControl, CallInactive, CallActive, LoggerStep, NoteStop, Restarted,
         CheckRoom, Filtered, Claim, TestClaim, Divert, WriteHead, WriteTail, Store,
         BumpLoad, BumpStore, Publish, Release, ThreadStep, ThreadStopped, NothingLeft, OpenFile,
         OpenFails, ArmTimer, TimerRuns, TimerExpires, Scan, Refresh, ResetLog,
         histVars, vars
<1>2. Poll \/ ResetSize \/ (\E l \in Loggers : Restart(l)) => (raced => raced')
  BY DEF Poll, ResetSize, Restart
<1> QED BY <1>1, <1>2

LEMMA CInvStep == CInv /\ [Next]_vars => CInv'
<1> SUFFICES ASSUME CInv, [Next]_vars PROVE CInv'
  OBVIOUS
<1>0. IInv /\ TypeOK /\ IInv'
  BY TypeStep, ClaimStep, LoadedStep, OvershootStep DEF CInv, IInv
<1>1. raced \in BOOLEAN /\ (raced => raced')
  BY <1>0, CTypes, RacedStays
<1> SUFFICES ASSUME ~raced' PROVE Clean'
  BY <1>0 DEF CInv
<1>2. ~raced /\ Clean
  BY <1>1 DEF CInv
<1>3. CASE \E v \in CtlVals : WriteControl(v)
  <2>1. /\ UNCHANGED <<sys_size, log_size, sys_log, pc, calls, tmp, file, torn, fi, fsz>>
        /\ fpc' = fpc \/ (fpc = "none" /\ fpc' = "poll")
    BY <1>3 DEF WriteControl, bufVars, logVars, histVars
  <2>2. Busy({"restarted"})' = Busy({"restarted"})
    BY <2>1 DEF Busy
  <2>3. CopiesAreBehind'
    BY <2>1, <2>2, <1>2 DEF Clean, CopiesAreBehind
  <2> QED BY <1>0, <1>2, <2>1, <2>3, StillStep DEF Clean
<1>4. ASSUME NEW l \in Loggers, NEW h \in Layer.hooks, CallInactive(l, h) \/ CallActive(l, h)
      PROVE  Clean'
  <2>1. PICK place \in {"stopping", "idle", "restart", "check"} : Goto(l, place)
    BY <1>4 DEF CallInactive, CallActive
  <2>2. /\ pc[l] = "idle" /\ calls' = [calls EXCEPT ![l] = @ + 1]
        /\ UNCHANGED <<sys_size, log_size, sys_log, tmp, file, torn, fi, fpc, fsz>>
    BY <1>4 DEF CallInactive, CallActive, bufVars, thrVars, histVars
  <2>3. SlotsAreWhole' /\ LinesDiffer' /\ FileIsClean' /\ WriterIsThere'
    BY <1>0, <1>2, <2>1, <2>2, HookStep DEF LoggerPcs
  <2>4. CopiesAreBehind'
    BY <1>0, <1>2, <2>1, <2>2, CTypes, CopiesStep DEF LoggerPcs
  <2> QED BY <2>3, <2>4 DEF Clean
<1>5. CASE UNCHANGED vars
  <2>1. UNCHANGED <<sys_size, log_size, sys_log, pc, calls, tmp, file, torn, fi, fsz, fpc>>
    BY <1>5 DEF vars, bufVars, logVars, thrVars, histVars
  <2>2. CopiesAreBehind'
    BY <2>1, <1>2 DEF Clean, CopiesAreBehind, Busy
  <2> QED BY <1>0, <1>2, <2>1, <2>2, StillStep DEF Clean
<1> QED BY <1>0, <1>2, <1>3, <1>4, <1>5, CleanHook, CleanThread DEF Next

LEMMA InitCInv == Init => CInv
<1> SUFFICES ASSUME Init PROVE CInv
  OBVIOUS
<1>1. IInv
  BY InitIInv
<1>2. InUse = {}
  BY <1>1, CTypes DEF Init, InUse, IInv
<1>3. CopiesAreBehind /\ WriterIsThere
  BY DEF Init, CopiesAreBehind, WriterIsThere
<1>4. FileIsClean
  BY DEF Init, FileIsClean
<1> QED BY <1>1, <1>2, <1>3, <1>4 DEF CInv, Clean, SlotsAreWhole, LinesDiffer

\* Until a reset overlaps a claim or a flush, the file is made of whole records,
\* each at most once, although the thread reads what the hooks write (the
\* thread's copies of the size, the claim and the stores behind the size).
THEOREM FileClean == Spec => []FileIsCleanUnlessRaced
<1>1. CInv => FileIsCleanUnlessRaced
  BY DEF CInv, Clean, FileIsClean, FileIsCleanUnlessRaced
<1> QED BY <1>1, InitCInv, CInvStep, PTL DEF Spec

-----------------------------------------------------------------------------
(* Losses.                                                                 *)

\* Records stay where they are unless the step writes the array, and are lost
\* only if the step keeps one or takes slots away.
LEMMA NothingLost ==
    ASSUME TypeOK, UNCHANGED <<sys_size, sys_log>>,
           \A e \in Event : fate'[e] = "kept" => fate[e] = "kept",
           \A e \in Event : file'[e] = 0 => file[e] = 0
    PROVE  Lost' \subseteq Lost
<1>1. Waiting' = Waiting
  BY DEF Waiting, Line
<1> QED BY <1>1 DEF Lost

LEMMA HookLosesNothing ==
    ASSUME IInv, Clean, ~raced, NEW l \in Loggers, LoggerStep(l)
    PROVE  Lost' \subseteq Lost \/ (pc[l] = "restart" /\ pc'[l] = "restarted")
<1>0. TypeOK
  BY DEF IInv
<1>1. CASE \/ NoteStop(l) \/ Restarted(l) \/ Filtered(l) \/ Claim(l) \/ TestClaim(l)
           \/ BumpLoad(l) \/ Publish(l) \/ Release(l)
  <2>1. UNCHANGED <<sys_size, sys_log, file, fate>>
    BY <1>1 DEF NoteStop, Restarted, Filtered, Claim, TestClaim, BumpLoad, Publish,
                Release, bufVars, histVars
  <2> QED BY <1>0, <2>1, NothingLost
<1>2. CASE Restart(l)
  BY <1>0, <1>2, CTypes DEF Restart, Goto
<1>3. CASE CheckRoom(l) \/ Divert(l)
  <2>1. /\ UNCHANGED <<sys_size, sys_log, file>>
        /\ \/ fate' = fate
           \/ fate' = [fate EXCEPT ![Me(l)] = "full"]
           \/ fate' = [fate EXCEPT ![Me(l)] = "tc"]
    BY <1>3 DEF CheckRoom, Divert, bufVars
  <2>2. \A e \in Event : fate'[e] = "kept" => fate[e] = "kept"
    BY <1>0, <2>1 DEF TypeOK
  <2> QED BY <1>0, <2>1, <2>2, NothingLost
<1>4. CASE WriteHead(l) \/ WriteTail(l)
  <2>1. PICK field \in {"hd", "tl"} :
          sys_log' = IF sys_size \in Slots
                     THEN [sys_log EXCEPT ![sys_size][field] = Me(l)] ELSE sys_log
    BY <1>4 DEF WriteHead, WriteTail, Store
  <2>2. UNCHANGED <<sys_size, file, fate>>
    BY <1>4 DEF WriteHead, WriteTail, Store, histVars
  <2>3. \A s \in Slots : s < sys_size => sys_log'[s] = sys_log[s]
    BY <1>0, <2>1, CTypes
  <2>4. Waiting' = Waiting
    BY <2>2, <2>3 DEF Waiting, Line
  <2> QED BY <2>2, <2>4 DEF Lost
<1>5. CASE BumpStore(l)
  <2>1. sys_size \in Slots /\ pc[l] = "store" /\ tmp[l] = sys_size
    BY <1>0, <1>5, WriterSlot DEF BumpStore, IInv, LoadedIsCurrent
  <2>2. /\ sys_size' = sys_size + 1 /\ fate' = [fate EXCEPT ![Me(l)] = "kept"]
        /\ UNCHANGED <<sys_log, file>>
    BY <1>5, <2>1 DEF BumpStore
  <2>3. Line(sys_size) = Me(l)
    BY <2>1 DEF Clean, WriterIsThere, Line
  <2>4. sys_size \in Nat /\ \A s \in Slots : s \in Nat
    BY <1>0, CTypes
  <2>5. Waiting \subseteq Waiting' /\ Me(l) \in Waiting'
    BY <2>1, <2>2, <2>3, <2>4 DEF Waiting, Line
  <2>6. \A e \in Event : fate'[e] = "kept" => fate[e] = "kept" \/ e = Me(l)
    BY <1>0, <2>2 DEF TypeOK
  <2> QED BY <2>2, <2>5, <2>6 DEF Lost
<1> QED BY <1>1, <1>2, <1>3, <1>4, <1>5 DEF LoggerStep

LEMMA ThreadLosesTheWindow ==
    ASSUME IInv, Clean, ~raced, ThreadStep
    PROVE  WindowOnly
<1>0. TypeOK
  BY DEF IInv
<1>1. CASE ~Scan /\ ~ResetSize
  <2>1. UNCHANGED <<sys_size, sys_log, file, fate>>
    BY <1>1 DEF ThreadStep, Poll, ThreadStopped, NothingLeft, OpenFile, OpenFails, ArmTimer, TimerRuns,
                TimerExpires, Refresh, ResetLog, bufVars, histVars
  <2> QED BY <1>0, <2>1, NothingLost DEF WindowOnly
<1>2. CASE Scan
  <2>1. UNCHANGED <<sys_size, sys_log, fate>>
    BY <1>2 DEF Scan, bufVars
  <2>2. file' = file \/ file' = [file EXCEPT ![Line(fi)] = @ + 1]
    BY <1>2 DEF Scan
  <2>3. \A e \in Event : file'[e] = 0 => file[e] = 0
    BY <1>0, <2>2, CTypes
  <2> QED BY <1>0, <2>1, <2>3, NothingLost DEF WindowOnly
<1>3. CASE ResetSize
  <2>1. /\ fpc = "scan" /\ fpc' = "resetlog" /\ fi >= fsz
        /\ UNCHANGED <<sys_log, file, fate>>
    BY <1>3 DEF ResetSize
  <2>2. ASSUME NEW e \in Lost' \ Lost
        PROVE  e \in {Line(s) : s \in {t \in Slots : t >= fsz}}
    <3>1. e \in Event /\ file[e] = 0 /\ e \in Waiting
      BY <2>1 DEF Lost
    <3>2. PICK s \in Slots : s < sys_size /\ Line(s) = e
      BY <3>1 DEF Waiting
    <3>3. ~(s < fi)
      BY <2>1, <3>1, <3>2 DEF Clean, SlotsAreWhole, InUse
    <3>4. s \in Nat /\ fi \in Nat /\ fsz \in Nat
      BY <1>0, CTypes
    <3> QED BY <2>1, <3>2, <3>3, <3>4
  <2> QED BY <2>1, <2>2 DEF WindowOnly
<1> QED BY <1>1, <1>2, <1>3

\* Whatever the hooks and the control file do, a record that reached the array
\* is lost in a reset only, and by the thread's own reset only if it came after
\* the thread's last look at the size (set_sys_size at the end of
\* print_sys_result).
THEOREM LossInTheWindow == Spec => LossOnlyInTheWindow
<1>1. CInv /\ [Next]_vars => [raced' \/ WindowOnly]_vars
  <2> SUFFICES ASSUME CInv, Next, ~raced' PROVE WindowOnly \/ UNCHANGED vars
    BY DEF CInv
  <2>1. IInv /\ TypeOK
    BY DEF CInv, IInv
  <2>2. ~raced /\ Clean
    BY <2>1, RacedStays DEF CInv
  <2>3. CASE \E v \in CtlVals : WriteControl(v)
    <3>1. UNCHANGED <<sys_size, sys_log, file, fate>>
      BY <2>3 DEF WriteControl, bufVars, histVars
    <3> QED BY <2>1, <3>1, NothingLost DEF WindowOnly
  <2>4. CASE \E l \in Loggers, h \in Layer.hooks : CallInactive(l, h) \/ CallActive(l, h)
    <3>1. UNCHANGED <<sys_size, sys_log, file, fate>>
      BY <2>4 DEF CallInactive, CallActive, bufVars, histVars
    <3> QED BY <2>1, <3>1, NothingLost DEF WindowOnly
  <2>5. CASE \E l \in Loggers : LoggerStep(l)
    BY <2>1, <2>2, <2>5, HookLosesNothing DEF WindowOnly
  <2>6. CASE ThreadStep
    BY <2>1, <2>2, <2>6, ThreadLosesTheWindow
  <2> QED BY <2>3, <2>4, <2>5, <2>6 DEF Next
<1> QED BY <1>1, InitCInv, CInvStep, PTL DEF Spec, LossOnlyInTheWindow
-----------------------------------------------------------------------------
(* The layer as a queue that may be cleared.                               *)

\* Exactly the counted records are kept, and of those the array is made.
KeptAreCounted == \A e \in Event : fate[e] = "kept" => ~Ahead(e)
SlotsAreKept == ~raced => \A s \in InUse : fate[Line(s)] = "kept"

QInv == CInv /\ KeptAreCounted /\ SlotsAreKept

\* No call gets ahead of its record again.
LEMMA AheadGoto ==
    ASSUME TypeOK, NEW l \in Loggers, NEW place \in LoggerPcs, Goto(l, place),
           \/ UNCHANGED calls /\ (place \in AheadPcs => pc[l] \in AheadPcs)
           \/ pc[l] = "idle" /\ calls' = [calls EXCEPT ![l] = @ + 1]
    PROVE  \A e \in Event : Ahead(e)' => Ahead(e)
<1> SUFFICES ASSUME NEW e \in Event, Ahead(e)' PROVE Ahead(e)
  OBVIOUS
<1>1. e[1] \in Loggers /\ e[2] \in Nat
  BY EventFacts
<1> QED BY <1>1, CTypes DEF Ahead, Goto, AheadPcs

LEMMA AheadStep == TypeOK /\ [Next]_vars => \A e \in Event : Ahead(e)' => Ahead(e)
<1> SUFFICES ASSUME TypeOK, [Next]_vars PROVE \A e \in Event : Ahead(e)' => Ahead(e)
  OBVIOUS
<1>1. CASE UNCHANGED <<pc, calls>>
  BY <1>1 DEF Ahead
<1>2. ASSUME NEW l \in Loggers, NEW h \in Layer.hooks, CallInactive(l, h) \/ CallActive(l, h)
      PROVE  \A e \in Event : Ahead(e)' => Ahead(e)
  <2>1. PICK place \in {"stopping", "idle", "restart", "check"} : Goto(l, place)
    BY <1>2 DEF CallInactive, CallActive
  <2>2. pc[l] = "idle" /\ calls' = [calls EXCEPT ![l] = @ + 1]
    BY <1>2 DEF CallInactive, CallActive
  <2>3. place \in LoggerPcs
    BY DEF LoggerPcs
  <2> QED BY <2>1, <2>2, <2>3, AheadGoto
<1>3. ASSUME NEW l \in Loggers, LoggerStep(l)
      PROVE  \A e \in Event : Ahead(e)' => Ahead(e)
  <2>1. UNCHANGED calls
    BY <1>3 DEF LoggerStep, NoteStop, Restart, Restarted, CheckRoom, Filtered, Claim,
       TestClaim, Divert, WriteHead, WriteTail, Store, BumpLoad, BumpStore, Publish, Release
  <2>2. PICK place \in LoggerPcs : Goto(l, place)
    BY <1>3 DEF LoggerPcs, LoggerStep, NoteStop, Restart, Restarted, CheckRoom, Filtered,
       Claim, TestClaim, Divert, WriteHead, WriteTail, Store, BumpLoad, BumpStore, Publish,
       Release
  <2>3. pc[l] \in AheadPcs \/ (pc[l] \in {"publish", "release"} /\ place \in {"idle", "release"})
    <3>1. CASE Publish(l) \/ Release(l)
      <4>1. pc[l] \in {"publish", "release"} /\ pc' \in {[pc EXCEPT ![l] = "idle"],
                                                        [pc EXCEPT ![l] = "release"]}
        BY <3>1 DEF Publish, Release, Goto
      <4> QED BY <4>1, <2>2, CTypes DEF Goto
    <3>2. CASE ~Publish(l) /\ ~Release(l)
      BY <1>3, <3>2 DEF AheadPcs, LoggerPcs, LoggerStep, NoteStop, Restart, Restarted,
         CheckRoom, Filtered, Claim, TestClaim, Divert, WriteHead, WriteTail, Store,
         BumpLoad, BumpStore
    <3> QED BY <3>1, <3>2
  <2>4. place \in AheadPcs => pc[l] \in AheadPcs
    BY <2>3 DEF AheadPcs
  <2> QED BY <2>1, <2>2, <2>4, AheadGoto
<1>4. CASE ThreadStep \/ (\E v \in CtlVals : WriteControl(v)) \/ UNCHANGED vars
  <2>1. UNCHANGED <<pc, calls>>
    BY <1>4 DEF ThreadStep, Poll, ThreadStopped, NothingLeft, OpenFile, OpenFails, ArmTimer, TimerRuns,
       TimerExpires, Scan, Refresh, ResetSize, ResetLog, WriteControl, logVars, vars
  <2> QED BY <2>1, <1>1
<1> QED BY <1>2, <1>3, <1>4 DEF Next

\* A step that leaves the array and the fates alone.
LEMMA FatesStay ==
    ASSUME QInv, [Next]_vars, UNCHANGED <<sys_size, sys_log, fate>>
    PROVE  (KeptAreCounted /\ SlotsAreKept)'
<1>1. TypeOK /\ (raced => raced') /\ raced \in BOOLEAN
  BY RacedStays, CTypes DEF QInv, CInv, IInv
<1>2. KeptAreCounted'
  BY <1>1, AheadStep DEF QInv, KeptAreCounted
<1>3. SlotsAreKept'
  BY <1>1 DEF QInv, SlotsAreKept, InUse, Line
<1> QED BY <1>2, <1>3

LEMMA QInvStep == QInv /\ [Next]_vars => QInv'
<1> SUFFICES ASSUME QInv, [Next]_vars PROVE (KeptAreCounted /\ SlotsAreKept)'
  BY CInvStep DEF QInv
<1>0. IInv /\ TypeOK /\ CInv /\ KeptAreCounted /\ SlotsAreKept
  BY DEF QInv, CInv, IInv
<1>1. /\ raced \in BOOLEAN /\ (raced => raced')
      /\ \A e \in Event : Ahead(e)' => Ahead(e)
      /\ fate \in [Event -> {"none", "full", "tc", "kept"}]
  BY <1>0, CTypes, RacedStays, AheadStep DEF TypeOK
<1>2. ~raced => Clean
  BY <1>0 DEF CInv
<1>3. CASE (\E v \in CtlVals : WriteControl(v)) \/ UNCHANGED vars
  BY <1>3, FatesStay DEF WriteControl, bufVars, histVars, vars
<1>4. CASE \E l \in Loggers, h \in Layer.hooks : CallInactive(l, h) \/ CallActive(l, h)
  BY <1>4, FatesStay DEF CallInactive, CallActive, bufVars, histVars
<1>5. ASSUME NEW l \in Loggers, LoggerStep(l) PROVE (KeptAreCounted /\ SlotsAreKept)'
  <2>1. CASE \/ NoteStop(l) \/ Restarted(l) \/ Filtered(l) \/ Claim(l) \/ TestClaim(l)
             \/ BumpLoad(l) \/ Publish(l) \/ Release(l)
    <3>1. UNCHANGED <<sys_size, sys_log, fate>>
      BY <2>1 DEF NoteStop, Restarted, Filtered, Claim, TestClaim, BumpLoad, Publish,
                  Release, bufVars, histVars
    <3> QED BY <3>1, FatesStay
  <2>2. CASE Restart(l)
    <3>1. sys_size' = 0 /\ UNCHANGED fate
      BY <2>2 DEF Restart
    <3>2. InUse' = {}
      BY <3>1, <1>0, CTypes DEF InUse
    <3>3. KeptAreCounted'
      BY <3>1, <1>0, <1>1 DEF KeptAreCounted
    <3> QED BY <3>2, <3>3 DEF SlotsAreKept
  <2>3. CASE CheckRoom(l) \/ Divert(l)
    <3>1. /\ UNCHANGED <<sys_size, sys_log, raced>> /\ pc[l] \in AheadPcs /\ Me(l) \in Event
          /\ \/ fate' = fate
             \/ fate' = [fate EXCEPT ![Me(l)] = "full"]
             \/ fate' = [fate EXCEPT ![Me(l)] = "tc"]
      BY <2>3, <1>0, MeIsEvent DEF CheckRoom, Divert, bufVars, AheadPcs, LoggerPcs
    <3>2. \A e \in Event : fate'[e] = "kept" => fate[e] = "kept"
      BY <1>1, <3>1
    <3>3. Ahead(Me(l))
      BY <3>1 DEF Ahead, Me
    <3>4. KeptAreCounted'
      BY <1>0, <1>1, <3>2 DEF KeptAreCounted
    <3>5. ASSUME ~raced, NEW s \in InUse PROVE Line(s) \in Event /\ Line(s) # Me(l)
      BY <1>2, <3>3, <3>5 DEF Clean, SlotsAreWhole
    <3>6. InUse' = InUse /\ \A s : Line(s)' = Line(s)
      BY <3>1 DEF InUse, Line
    <3>7. SlotsAreKept'
      <4>1. ASSUME ~raced, NEW s \in InUse PROVE fate'[Line(s)] = "kept"
        BY <4>1, <3>1, <3>5, <1>0, <1>1 DEF SlotsAreKept
      <4> QED BY <4>1, <3>1, <3>6 DEF SlotsAreKept
    <3> QED BY <3>4, <3>7
  <2>4. CASE WriteHead(l) \/ WriteTail(l)
    <3>1. PICK field \in {"hd", "tl"} :
            sys_log' = IF sys_size \in Slots
                       THEN [sys_log EXCEPT ![sys_size][field] = Me(l)] ELSE sys_log
      BY <2>4 DEF WriteHead, WriteTail, Store
    <3>2. UNCHANGED <<sys_size, raced, fate>>
      BY <2>4 DEF WriteHead, WriteTail, Store, histVars
    <3>3. InUse' = InUse /\ \A s \in InUse : Line(s)' = Line(s)
      BY <1>0, <3>1, <3>2, CTypes DEF InUse, Line
    <3>4. KeptAreCounted'
      BY <1>0, <1>1, <3>2 DEF KeptAreCounted
    <3>5. SlotsAreKept'
      BY <1>0, <3>2, <3>3 DEF SlotsAreKept
    <3> QED BY <3>4, <3>5
  <2>5. CASE BumpStore(l)
    <3>1. /\ Goto(l, "publish") /\ fate' = [fate EXCEPT ![Me(l)] = "kept"]
          /\ UNCHANGED <<sys_log, calls, raced>> /\ Me(l) \in Event
          /\ pc[l] = "store" /\ sys_size' = tmp[l] + 1
      BY <1>0, <2>5, MeIsEvent DEF BumpStore
    <3>2. ~Ahead(Me(l))'
      BY <1>0, <3>1, CTypes DEF Ahead, Me, Goto, AheadPcs
    <3>3. KeptAreCounted'
      <4>1. ASSUME NEW e \in Event, fate'[e] = "kept" PROVE ~Ahead(e)'
        <5>1. CASE e = Me(l)
          BY <5>1, <3>1, <3>2 DEF Me
        <5>2. CASE e # Me(l)
          <6>1. fate[e] = "kept"
            BY <4>1, <5>2, <3>1, <1>1
          <6> QED BY <6>1, <1>0, <1>1 DEF KeptAreCounted
        <5> QED BY <5>1, <5>2
      <4> QED BY <4>1 DEF KeptAreCounted
    <3>4. ASSUME ~raced PROVE \A s \in InUse' : fate'[Line(s)'] = "kept"
      <4>1. sys_size \in Slots /\ tmp[l] = sys_size
        BY <1>0, <3>1, <3>4, WriterSlot DEF IInv, LoadedIsCurrent
      <4>2. Line(sys_size) = Me(l)
        BY <1>2, <3>1, <3>4 DEF Clean, WriterIsThere, Line
      <4>3. InUse' = InUse \cup {sys_size}
        <5>1. sys_size' = sys_size + 1
          BY <3>1, <4>1
        <5>2. {t \in Slots : t < sys_size + 1} = {t \in Slots : t < sys_size} \cup {sys_size}
          BY <1>0, <4>1, CTypes
        <5> QED BY <5>1, <5>2 DEF InUse
      <4>4. \A s : Line(s)' = Line(s)
        BY <3>1 DEF Line
      <4>5. ASSUME NEW s \in InUse PROVE fate'[Line(s)] = "kept"
        <5>1. fate[Line(s)] = "kept" /\ Line(s) \in Event
          BY <1>0, <1>2, <3>4 DEF SlotsAreKept, Clean, SlotsAreWhole
        <5> QED BY <5>1, <3>1, <1>1
      <4>6. fate'[Me(l)] = "kept"
        BY <3>1, <1>1
      <4> QED BY <4>2, <4>3, <4>4, <4>5, <4>6
    <3> QED BY <3>1, <3>3, <3>4 DEF SlotsAreKept
  <2> QED BY <1>5, <2>1, <2>2, <2>3, <2>4, <2>5 DEF LoggerStep
<1>6. CASE ThreadStep
  <2>1. CASE ~ResetSize
    BY <1>6, <2>1, FatesStay DEF ThreadStep, Poll, ThreadStopped, NothingLeft, OpenFile, OpenFails, ArmTimer,
       TimerRuns, TimerExpires, Scan, Refresh, ResetLog, bufVars, histVars
  <2>2. CASE ResetSize
    <3>1. sys_size' = 0 /\ UNCHANGED fate
      BY <2>2 DEF ResetSize
    <3>2. InUse' = {}
      BY <3>1, <1>0, CTypes DEF InUse
    <3>3. KeptAreCounted'
      BY <3>1, <1>0, <1>1 DEF KeptAreCounted
    <3> QED BY <3>2, <3>3 DEF SlotsAreKept
  <2> QED BY <2>1, <2>2
<1> QED BY <1>3, <1>4, <1>5, <1>6 DEF Next

LEMMA InitQInv == Init => QInv
<1> SUFFICES ASSUME Init PROVE QInv
  OBVIOUS
<1>1. CInv
  BY InitCInv
<1>2. InUse = {}
  BY <1>1, CTypes DEF Init, InUse, CInv, IInv
<1>3. KeptAreCounted
  BY DEF Init, KeptAreCounted
<1> QED BY <1>1, <1>2, <1>3 DEF QInv, SlotsAreKept
\* The queue is what the thread has before it, slot by slot.
LEMMA PendingFacts ==
    ASSUME IInv, Clean, ~raced
    PROVE  /\ First \in Nat /\ sys_size \in Nat /\ First <= sys_size
           /\ \A s \in Nat : s < sys_size => s \in InUse
           /\ \A s \in InUse : Line(s) \in Event
           /\ Pending \in Seq(Event) /\ Len(Pending) = sys_size - First
           /\ Pending = [k \in 1 .. sys_size - First |-> Line(First + k - 1)]
           /\ Queue!Range(Pending) = {Line(s) : s \in {t \in InUse : t >= First}}
<1>0. TypeOK /\ sys_size \in Nat /\ fi \in Nat /\ fpc \in ThreadPcs
  BY CTypes DEF IInv
<1>1. First \in Nat /\ First <= sys_size
  BY <1>0 DEF First, Clean, CopiesAreBehind, ThreadPcs
<1>2. \A s \in Nat : s < sys_size => s \in InUse
  <2>1. Cardinality(Busy(Passed)) \in Nat /\ Cardinality(Loggers) \in Nat /\ AIOMAX \in Nat
    BY BusyIsFinite, LayerAssumption, FS_CardinalityType DEF LayerAssumption
  <2>2. sys_size + Cardinality(Busy(Passed)) <= AIOMAX - 1 + Cardinality(Loggers)
    BY DEF IInv, OvershootIsBounded
  <2> QED BY <1>0, <2>1, <2>2 DEF InUse, Slots
<1>3. \A s \in InUse : Line(s) \in Event /\ s \in Nat /\ s < sys_size
  BY <1>0, CTypes DEF Clean, SlotsAreWhole, InUse
<1>4. Pending = [k \in 1 .. sys_size - First |-> Line(First + k - 1)]
  BY DEF Pending
<1>5. \A k \in 1 .. sys_size - First : First + k - 1 \in InUse
  BY <1>0, <1>1, <1>2
<1>6. sys_size - First \in Nat /\ \A k \in 1 .. sys_size - First : Line(First + k - 1) \in Event
  <2>1. sys_size - First \in Nat
    BY <1>0, <1>1
  <2> QED BY <2>1, <1>3, <1>5
<1>7. Pending \in [1 .. sys_size - First -> Event] /\ Pending \in Seq(Event)
  <2>1. Pending \in [1 .. sys_size - First -> Event]
    BY <1>4, <1>6
  <2> QED BY <2>1, <1>6, SeqDef
<1>8. Len(Pending) = sys_size - First
  BY <1>6, <1>7, LenProperties
<1>9. Queue!Range(Pending) = {Line(s) : s \in {t \in InUse : t >= First}}
  <2>1. Queue!Range(Pending) = {Line(First + k - 1) : k \in 1 .. sys_size - First}
    BY <1>4 DEF Queue!Range
  <2>2. ASSUME NEW s \in InUse, s >= First
        PROVE  \E k \in 1 .. sys_size - First : Line(s) = Line(First + k - 1)
    <3>1. s - First + 1 \in 1 .. sys_size - First /\ First + (s - First + 1) - 1 = s
      BY <1>0, <1>1, <1>3, <2>2
    <3> QED BY <3>1
  <2>3. ASSUME NEW k \in 1 .. sys_size - First
        PROVE  First + k - 1 \in InUse /\ First + k - 1 >= First
    BY <1>1, <1>5
  <2> QED BY <2>1, <2>2, <2>3
<1> QED BY <1>0, <1>1, <1>2, <1>3, <1>4, <1>7, <1>8, <1>9

\* Who waits in the array and is not in the file is in the queue.
LEMMA PendingAreUnwritten ==
    ASSUME IInv, Clean, ~raced, NEW s \in InUse
    PROVE  file[Line(s)] = 0 <=> s >= First
<1>1. s \in Nat /\ fi \in Nat
  BY CTypes DEF InUse, IInv
<1>2. file[Line(s)] = IF s < fi /\ fpc # "resetlog" THEN 1 ELSE 0
  BY DEF Clean, SlotsAreWhole
<1> QED BY <1>1, <1>2 DEF First

\* Steps that leave the slots in use, the place of the thread and the file alone.
LEMMA QueueStays ==
    ASSUME QInv, ~raced, UNCHANGED <<sys_size, file, raced>>, First' = First,
           \A s \in InUse : Line(s)' = Line(s),
           \A e \in Event : fate'[e] = "kept" <=> fate[e] = "kept"
    PROVE  UNCHANGED Queue!vars
<1>1. IInv /\ Clean
  BY DEF QInv, CInv
<1>2. Pending' = Pending
  <2>1. /\ Pending = [k \in 1 .. sys_size - First |-> Line(First + k - 1)]
        /\ First \in Nat /\ sys_size \in Nat
        /\ \A s \in Nat : s < sys_size => s \in InUse
    BY <1>1, PendingFacts
  <2>2. Pending' = [k \in 1 .. sys_size - First |-> Line(First + k - 1)']
    BY DEF Pending
  <2>3. \A k \in 1 .. sys_size - First : Line(First + k - 1)' = Line(First + k - 1)
    BY <2>1
  <2> QED BY <2>1, <2>2, <2>3
<1>3. Waiting' = Waiting
  <2>1. Waiting = {Line(s) : s \in InUse}
    BY DEF Waiting, InUse
  <2>2. Waiting' = {Line(s)' : s \in InUse}
    BY DEF Waiting, InUse
  <2> QED BY <2>1, <2>2
<1>4. Lost' = Lost
  BY <1>3 DEF Lost
<1> QED BY <1>2, <1>4 DEF Queue!vars

\* A reset of the index throws away the whole queue.
LEMMA QueueClears ==
    ASSUME QInv, ~raced, sys_size' = 0, UNCHANGED <<sys_log, file, fate, raced>>,
           First' \in Nat
    PROVE  Queue!Clear
<1>1. IInv /\ Clean /\ SlotsAreKept
  BY DEF QInv, CInv
<1>2. Pending' = <<>>
  <2>1. Pending' = [k \in 1 .. 0 - First' |-> Line(First + k - 1)']
    BY DEF Pending
  <2>2. \A n \in Nat : 1 .. 0 - n = 1 .. 0 /\ 1 .. 0 = {}
    OBVIOUS
  <2>3. Pending' \in [1 .. 0 -> Event]
    BY <2>1, <2>2
  <2>4. Pending' \in Seq(Event)
    BY <2>3, SeqDef
  <2>5. Len(Pending') = 0
    BY <2>3, <2>4, LenProperties
  <2> QED BY <2>4, <2>5, EmptySeq
<1>3. Waiting = {Line(s) : s \in InUse} /\ Waiting' = {}
  <2>1. \A s \in Slots : ~(s < 0)
    BY <1>1, CTypes DEF IInv
  <2> QED BY <2>1 DEF Waiting, InUse
<1>4. Queue!Range(Pending) = {Line(s) : s \in {t \in InUse : t >= First}}
  BY <1>1, PendingFacts
<1>5. Lost' = {e \in Event : fate[e] = "kept" /\ file[e] = 0}
  BY <1>3 DEF Lost
<1>6. Lost' = Lost \cup Queue!Range(Pending)
  <2>1. ASSUME NEW e \in Lost', e \notin Lost PROVE e \in Queue!Range(Pending)
    <3>1. file[e] = 0 /\ e \in Waiting
      BY <1>5, <2>1 DEF Lost
    <3>2. PICK s \in InUse : e = Line(s)
      BY <3>1, <1>3
    <3> QED BY <1>1, <1>4, <3>1, <3>2, PendingAreUnwritten
  <2>2. ASSUME NEW s \in InUse, s >= First PROVE Line(s) \in Lost'
    <3>1. Line(s) \in Event /\ fate[Line(s)] = "kept"
      BY <1>1 DEF SlotsAreKept, Clean, SlotsAreWhole
    <3> QED BY <1>1, <1>5, <2>2, <3>1, PendingAreUnwritten
  <2>3. Lost \subseteq Lost'
    BY <1>5 DEF Lost
  <2> QED BY <1>4, <2>1, <2>2, <2>3
<1> QED BY <1>2, <1>6 DEF Queue!Clear

\* The store that counts a record appends it.
LEMMA QueueKeeps ==
    ASSUME QInv, ~raced, NEW l \in Loggers, BumpStore(l)
    PROVE  Queue!Keep(Me(l)) /\ Me(l) \in Event
<1>1. IInv /\ TypeOK /\ Clean /\ KeptAreCounted
  BY DEF QInv, CInv, IInv
<1>2. /\ sys_size \in Slots /\ pc[l] = "store" /\ sys_size' = sys_size + 1
      /\ fate' = [fate EXCEPT ![Me(l)] = "kept"] /\ Me(l) \in Event
      /\ UNCHANGED <<sys_log, file, raced, fi, fpc>>
  BY <1>1, WriterSlot, MeIsEvent DEF BumpStore, IInv, LoadedIsCurrent, thrVars
<1>3. Ahead(Me(l)) /\ Line(sys_size) = Me(l)
  BY <1>1, <1>2 DEF Ahead, Me, AheadPcs, LoggerPcs, Clean, WriterIsThere, Line
<1>4. /\ file[Me(l)] = 0 /\ fate[Me(l)] # "kept"
      /\ \A s \in InUse : Line(s) \in Event /\ Line(s) # Me(l)
  BY <1>1, <1>2, <1>3 DEF Clean, FileIsClean, KeptAreCounted, SlotsAreWhole
<1>5. /\ First \in Nat /\ sys_size \in Nat /\ First <= sys_size
      /\ Pending \in Seq(Event) /\ Len(Pending) = sys_size - First
      /\ Pending = [k \in 1 .. sys_size - First |-> Line(First + k - 1)]
      /\ Queue!Range(Pending) = {Line(s) : s \in {t \in InUse : t >= First}}
  BY <1>1, PendingFacts
<1>6. Me(l) \notin Queue!Range(Pending) \cup {e \in Event : file[e] > 0} \cup Lost
  BY <1>4, <1>5 DEF Lost
<1>7. Pending' = Append(Pending, Me(l))
  <2>1. Pending' = [k \in 1 .. sys_size + 1 - First |-> Line(First + k - 1)]
    <3>1. First' = First /\ ~raced'
      BY <1>2 DEF First
    <3>2. Pending' = [k \in 1 .. sys_size' - First' |-> sys_log'[First' + k - 1].tl]
      BY <3>1 DEF Pending, Line
    <3>3. sys_size' - First' = sys_size + 1 - First /\ sys_log' = sys_log
      <4>1. sys_size' = sys_size + 1 /\ sys_log' = sys_log
        BY <1>2
      <4> QED BY <4>1, <3>1, <1>5
    <3>4. Pending' = [k \in 1 .. sys_size + 1 - First |-> sys_log[First + k - 1].tl]
      BY <3>1, <3>2, <3>3
    <3> QED BY <3>4 DEF Line
  <2>2. \A k \in 1 .. sys_size + 1 - First :
          Line(First + k - 1) = IF k <= Len(Pending) THEN Pending[k] ELSE Me(l)
    <3> SUFFICES ASSUME NEW k \in 1 .. sys_size + 1 - First
                 PROVE Line(First + k - 1) = IF k <= Len(Pending) THEN Pending[k] ELSE Me(l)
      OBVIOUS
    <3>1. CASE k <= Len(Pending)
      <4>1. k \in 1 .. sys_size - First
        BY <3>1, <1>5
      <4>2. Pending[k] = Line(First + k - 1)
        BY <4>1, <1>5
      <4> QED BY <3>1, <4>2
    <3>2. CASE ~(k <= Len(Pending))
      <4>1. First + k - 1 = sys_size
        BY <3>2, <1>5
      <4> QED BY <4>1, <3>2, <1>3
    <3> QED BY <3>1, <3>2
  <2>3. /\ Append(Pending, Me(l)) \in Seq(Event)
        /\ Len(Append(Pending, Me(l))) = Len(Pending) + 1
        /\ \A k \in 1 .. Len(Pending) + 1 :
             Append(Pending, Me(l))[k] = IF k <= Len(Pending) THEN Pending[k] ELSE Me(l)
    BY <1>2, <1>5, AppendProperties
  <2>4. Len(Pending) + 1 = sys_size + 1 - First
    BY <1>5
  <2>5. Append(Pending, Me(l)) = [k \in 1 .. sys_size + 1 - First |-> Append(Pending, Me(l))[k]]
    BY <2>3, <2>4, LenProperties
  <2> QED BY <2>1, <2>2, <2>3, <2>4, <2>5
<1>8. Lost' = Lost
  <2>1. Waiting = {Line(s) : s \in InUse} /\ Waiting' = Waiting \cup {Me(l)}
    <3>1. {t \in Slots : t < sys_size + 1} = {t \in Slots : t < sys_size} \cup {sys_size}
      <4>1. sys_size \in Slots /\ sys_size \in Nat /\ \A t \in Slots : t \in Nat
        BY <1>1, <1>2, CTypes
      <4>2. \A t \in Slots : t < sys_size + 1 <=> t < sys_size \/ t = sys_size
        BY <4>1
      <4> QED BY <4>1, <4>2
    <3>2. Waiting' = {Line(t) : t \in {u \in Slots : u < sys_size + 1}}
      BY <1>2 DEF Waiting, Line
    <3> QED BY <1>3, <3>1, <3>2 DEF Waiting, InUse
  <2>2. \A e \in Event : e # Me(l) => fate'[e] = fate[e]
    BY <1>1, <1>2 DEF TypeOK
  <2> QED BY <1>2, <1>4, <2>1, <2>2 DEF Lost
<1>9. {e \in Event : file[e] > 0}' = {e \in Event : file[e] > 0}
  BY <1>2
<1> QED BY <1>2, <1>6, <1>7, <1>8, <1>9 DEF Queue!Keep

\* The thread's step over a record hands out the head.
LEMMA QueueWrites ==
    ASSUME QInv, ~raced, Scan
    PROVE  Queue!Write
<1>1. IInv /\ TypeOK /\ Clean
  BY DEF QInv, CInv, IInv
<1>2. /\ fpc = "scan" /\ fi < fsz /\ fi' = fi + 1 /\ fpc' = "refresh"
      /\ UNCHANGED <<sys_size, sys_log, raced, fate>>
  BY DEF Scan, bufVars
<1>3. fi \in Nat /\ sys_size \in Nat /\ fsz \in Nat /\ fi < sys_size
  BY <1>1, <1>2, CTypes DEF Clean, CopiesAreBehind
<1>4. First = fi /\ First' = fi + 1
  BY <1>2 DEF First
<1>5. /\ Pending \in Seq(Event) /\ Len(Pending) = sys_size - fi
      /\ Pending = [k \in 1 .. sys_size - fi |-> Line(fi + k - 1)]
      /\ fi \in InUse /\ Line(fi) \in Event
  BY <1>1, <1>3, <1>4, PendingFacts
<1>6. Pending # <<>> /\ Head(Pending) = Line(fi)
  <2>1. Len(Pending) > 0
    BY <1>3, <1>5
  <2>2. Pending # <<>>
    BY <2>1, EmptySeq
  <2>3. 1 \in 1 .. sys_size - fi /\ fi + 1 - 1 = fi
    BY <1>3
  <2>4. Pending[1] = Line(fi)
    BY <1>5, <2>3
  <2>5. Head(Pending) = Pending[1]
    BY <1>5, <2>2
  <2> QED BY <2>2, <2>4, <2>5
<1>7. Pending' = Tail(Pending)
  <2>1. Pending' = [k \in 1 .. sys_size - (fi + 1) |-> Line(fi + 1 + k - 1)]
    <3>1. Pending' = [k \in 1 .. sys_size' - First' |-> sys_log'[First' + k - 1].tl]
      BY <1>2 DEF Pending, Line
    <3> QED BY <1>2, <1>4, <3>1 DEF Line
  <2>2. /\ Tail(Pending) \in Seq(Event) /\ Len(Tail(Pending)) = Len(Pending) - 1
        /\ \A k \in 1 .. Len(Tail(Pending)) : Tail(Pending)[k] = Pending[k + 1]
    BY <1>5, <1>6, HeadTailProperties
  <2>3. Len(Tail(Pending)) = sys_size - (fi + 1)
    BY <1>3, <1>5, <2>2
  <2>4. ASSUME NEW k \in 1 .. sys_size - (fi + 1)
        PROVE  Tail(Pending)[k] = Line(fi + 1 + k - 1)
    <3>1. k + 1 \in 1 .. sys_size - fi /\ fi + (k + 1) - 1 = fi + 1 + k - 1
      BY <1>3
    <3>2. Pending[k + 1] = Line(fi + (k + 1) - 1)
      BY <1>5, <3>1
    <3> QED BY <2>2, <2>3, <3>1, <3>2
  <2>5. Tail(Pending) = [k \in 1 .. sys_size - (fi + 1) |-> Tail(Pending)[k]]
    BY <2>2, <2>3, LenProperties
  <2> QED BY <2>1, <2>4, <2>5
<1>8. file[Line(fi)] = 0 /\ file' = [file EXCEPT ![Line(fi)] = 1]
  <2>1. file[Line(fi)] = 0
    BY <1>1, <1>3, <1>4, <1>5, PendingAreUnwritten
  <2>2. fi \in Slots /\ Line(fi) # NoEvent
    BY <1>5, EventFacts DEF InUse
  <2> QED BY <1>1, <1>5, <2>1, <2>2, CTypes DEF Scan
<1>9. {e \in Event : file[e] > 0}' = {e \in Event : file[e] > 0} \cup {Line(fi)}
  BY <1>1, <1>5, <1>8, CTypes
<1>10. Lost' = Lost
  <2>1. Waiting' = Waiting /\ Line(fi) \in Waiting
    BY <1>2, <1>5 DEF Waiting, InUse, Line
  <2>2. \A e \in Event : e # Line(fi) => file'[e] = file[e]
    BY <1>1, <1>8, CTypes
  <2> QED BY <1>2, <2>1, <2>2 DEF Lost
<1> QED BY <1>2, <1>6, <1>7, <1>9, <1>10 DEF Queue!Write

\* Hooks.
LEMMA HookIsQueue ==
    ASSUME QInv, ~raced, ~raced', NEW l \in Loggers, LoggerStep(l)
    PROVE  Queue!Next \/ UNCHANGED Queue!vars
<1>1. IInv /\ TypeOK /\ Clean /\ KeptAreCounted /\ raced \in BOOLEAN /\ raced' = raced
  <2>1. IInv /\ TypeOK /\ Clean /\ KeptAreCounted
    BY DEF QInv, CInv, IInv
  <2>2. raced' = raced
    BY <2>1, CTypes DEF LoggerStep, NoteStop, Restart, Restarted, CheckRoom, Filtered, Claim,
       TestClaim, Divert, WriteHead, WriteTail, Store, BumpLoad, BumpStore, Publish, Release,
       histVars
  <2> QED BY <2>1, <2>2, CTypes
<1>2. First' = First
  <2>1. UNCHANGED <<fpc, fi>>
    BY DEF LoggerStep, NoteStop, Restart, Restarted, CheckRoom, Filtered, Claim,
       TestClaim, Divert, WriteHead, WriteTail, Store, BumpLoad, BumpStore, Publish, Release,
       thrVars
  <2> QED BY <2>1 DEF First
<1>3. CASE \/ NoteStop(l) \/ Restarted(l) \/ Filtered(l) \/ Claim(l) \/ TestClaim(l)
           \/ BumpLoad(l) \/ Publish(l) \/ Release(l)
  <2>1. UNCHANGED <<sys_size, sys_log, file, fate>>
    BY <1>3 DEF NoteStop, Restarted, Filtered, Claim, TestClaim, BumpLoad, Publish,
                Release, bufVars, histVars
  <2>2. \A s : Line(s)' = Line(s)
    BY <2>1 DEF Line
  <2> QED BY <1>1, <1>2, <2>1, <2>2, QueueStays
<1>4. CASE Restart(l)
  <2>1. sys_size' = 0 /\ UNCHANGED <<sys_log, file, fate>>
    BY <1>4 DEF Restart
  <2>2. First \in Nat
    BY <1>1, PendingFacts
  <2> QED BY <1>1, <1>2, <2>1, <2>2, QueueClears DEF Queue!Next
<1>5. CASE CheckRoom(l) \/ Divert(l)
  <2>1. /\ UNCHANGED <<sys_size, sys_log, file>> /\ pc[l] \in AheadPcs /\ Me(l) \in Event
        /\ \/ fate' = fate
           \/ fate' = [fate EXCEPT ![Me(l)] = "full"]
           \/ fate' = [fate EXCEPT ![Me(l)] = "tc"]
    BY <1>5, <1>1, MeIsEvent DEF CheckRoom, Divert, bufVars, AheadPcs, LoggerPcs
  <2>2. fate[Me(l)] # "kept"
    BY <1>1, <2>1 DEF KeptAreCounted, Ahead, Me
  <2>3. \A e \in Event : fate'[e] = "kept" <=> fate[e] = "kept"
    BY <1>1, <2>1, <2>2 DEF TypeOK
  <2>4. \A s : Line(s)' = Line(s)
    BY <2>1 DEF Line
  <2> QED BY <1>1, <1>2, <2>1, <2>3, <2>4, QueueStays
<1>6. CASE WriteHead(l) \/ WriteTail(l)
  <2>1. PICK field \in {"hd", "tl"} :
          sys_log' = IF sys_size \in Slots
                     THEN [sys_log EXCEPT ![sys_size][field] = Me(l)] ELSE sys_log
    BY <1>6 DEF WriteHead, WriteTail, Store
  <2>2. UNCHANGED <<sys_size, file, fate>>
    BY <1>6 DEF WriteHead, WriteTail, Store, histVars
  <2>3. \A s \in InUse : Line(s)' = Line(s)
    BY <1>1, <2>1, CTypes DEF InUse, Line
  <2> QED BY <1>1, <1>2, <2>2, <2>3, QueueStays
<1>7. CASE BumpStore(l)
  BY <1>7, QueueKeeps DEF Queue!Next
<1> QED BY <1>3, <1>4, <1>5, <1>6, <1>7 DEF LoggerStep

\* The thread.
LEMMA ThreadIsQueue ==
    ASSUME QInv, ~raced, ~raced', ThreadStep
    PROVE  Queue!Next \/ UNCHANGED Queue!vars
<1>1. IInv /\ TypeOK /\ Clean /\ raced' = raced
  <2>1. IInv /\ TypeOK /\ Clean
    BY DEF QInv, CInv, IInv
  <2>2. raced' = raced
    BY <2>1, CTypes DEF ThreadStep, Poll, ThreadStopped, NothingLeft, OpenFile, OpenFails, ArmTimer,
       TimerRuns, TimerExpires, Scan, Refresh, ResetSize, ResetLog, histVars
  <2> QED BY <2>1, <2>2
<1>2. CASE ~Scan /\ ~ResetSize
  <2>1. UNCHANGED <<sys_size, sys_log, file, fate>>
    BY <1>2 DEF ThreadStep, Poll, ThreadStopped, NothingLeft, OpenFile, OpenFails, ArmTimer, TimerRuns,
                TimerExpires, Refresh, ResetLog, bufVars, histVars
  <2>2. First' = First
    <3>1. CASE Poll \/ OpenFile \/ Refresh
      BY <3>1 DEF Poll, OpenFile, Refresh, First
    <3>2. CASE ThreadStopped \/ NothingLeft \/ OpenFails \/ ArmTimer \/ TimerRuns \/ TimerExpires
      <4>1. fpc \in {"poll", "gate"} /\ fi' = 0 /\ fpc' \in {"none", "poll", "exited"}
        BY <3>2 DEF ThreadStopped, NothingLeft, OpenFails, ArmTimer, TimerRuns, TimerExpires, Return
      <4> QED BY <1>1, <4>1 DEF Clean, CopiesAreBehind, First
    <3>3. CASE ResetLog
      BY <3>3 DEF ResetLog, Return, First
    <3> QED BY <1>2, <3>1, <3>2, <3>3 DEF ThreadStep
  <2>3. \A s : Line(s)' = Line(s)
    BY <2>1 DEF Line
  <2> QED BY <1>1, <2>1, <2>2, <2>3, QueueStays
<1>3. CASE Scan
  BY <1>3, QueueWrites DEF Queue!Next
<1>4. CASE ResetSize
  <2>1. sys_size' = 0 /\ UNCHANGED <<sys_log, file, fate>> /\ fpc' = "resetlog"
    BY <1>4 DEF ResetSize
  <2>2. First' \in Nat
    BY <2>1 DEF First
  <2> QED BY <1>1, <2>1, <2>2, QueueClears DEF Queue!Next
<1> QED BY <1>2, <1>3, <1>4

LEMMA QueueStep == QInv /\ [Next]_vars => [Queue!Next]_(Queue!vars)
<1> SUFFICES ASSUME QInv, [Next]_vars
             PROVE  Queue!Next \/ UNCHANGED Queue!vars
  OBVIOUS
<1>1. IInv /\ TypeOK /\ raced \in BOOLEAN /\ (raced => raced') /\ raced' \in BOOLEAN
  <2>1. IInv /\ TypeOK
    BY DEF QInv, CInv, IInv
  <2>2. TypeOK'
    BY <2>1, TypeStep
  <2> QED BY <2>1, <2>2, RacedStays DEF TypeOK
<1>2. CASE raced'
  BY <1>1, <1>2 DEF Queue!Next, Queue!Spoil
<1>3. CASE ~raced'
  <2>1. ~raced /\ raced' = raced /\ Clean
    BY <1>1, <1>3 DEF QInv, CInv
  <2>2. CASE \/ \E v \in CtlVals : WriteControl(v)
             \/ \E l \in Loggers, h \in Layer.hooks : CallInactive(l, h) \/ CallActive(l, h)
             \/ UNCHANGED vars
    <3>1. UNCHANGED <<sys_size, sys_log, file, fate, fi>>
      BY <2>2 DEF WriteControl, CallInactive, CallActive, bufVars, thrVars, histVars, vars
    <3>2. fpc' = fpc \/ (fpc = "none" /\ fpc' = "poll")
      BY <2>2 DEF WriteControl, CallInactive, CallActive, thrVars, vars
    <3>3. First' = First /\ \A s : Line(s)' = Line(s)
      BY <3>1, <3>2 DEF First, Line
    <3> QED BY <2>1, <3>1, <3>3, QueueStays
  <2>3. CASE \E l \in Loggers : LoggerStep(l)
    BY <1>3, <2>1, <2>3, HookIsQueue
  <2>4. CASE ThreadStep
    BY <1>3, <2>1, <2>4, ThreadIsQueue
  <2> QED BY <2>2, <2>3, <2>4 DEF Next
<1> QED BY <1>1, <1>2, <1>3

LEMMA QueueInit == Init => Queue!Init
<1> SUFFICES ASSUME Init PROVE Queue!Init
  OBVIOUS
<1>1. IInv /\ Clean /\ ~raced
  BY InitCInv DEF CInv, Init
<1>2. Pending \in Seq(Event) /\ Len(Pending) = 0
  <2>1. Pending \in Seq(Event) /\ Len(Pending) = sys_size - First
    BY <1>1, PendingFacts
  <2>2. sys_size = 0 /\ First = 0
    BY DEF Init, First
  <2> QED BY <2>1, <2>2
<1>3. Pending = <<>>
  BY <1>2, EmptySeq
<1>4. Lost = {} /\ {e \in Event : file[e] > 0} = {} /\ raced = FALSE
  BY DEF Init, Lost
<1> QED BY <1>3, <1>4 DEF Queue!Init

\* Every behaviour of a layer is one of a queue that may be cleared, until it is
\* raced: order, uniqueness, and that what a reset took never comes back
\* (sys_size, the loop of print_sys_result and set_sys_size), for any tasks.
THEOREM ImplementsQueue == Spec => LayerIsQueue
  BY InitQInv, QInvStep, QueueInit, QueueStep, PTL DEF Spec, LayerIsQueue, Queue!Spec
=============================================================================
