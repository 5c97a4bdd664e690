--------------------------- MODULE LayerLogProofs ---------------------------
(* What holds of a layer's log for every number of tasks, capacity, set of *)
(* control values and bound, proved from LayerAssumption alone.            *)
EXTENDS LayerLog, FiniteSetTheorems, TLAPS

\* A call in progress has a number, so its record is one of Event.
LEMMA MeIsEvent ==
    ASSUME TypeOK, NEW l \in Loggers, pc[l] # "idle"
    PROVE  Me(l) \in Event
  BY DEF TypeOK, Me, Event

\* A store leaves whole slots of records behind.
LEMMA StoreStep ==
    ASSUME TypeOK, NEW l \in Loggers, NEW field \in {"hd", "tl"},
           NEW place, NEW next \in LoggerPcs \ {"idle"}, place # "idle",
           Me(l) \in Event, Store(l, place, field, next)
    PROVE  TypeOK'
<1>1. sys_log' \in [Slots -> [hd : Event \cup {NoEvent}, tl : Event \cup {NoEvent}]]
  BY DEF Store, TypeOK
<1>2. pc' \in [Loggers -> LoggerPcs]
  BY DEF Store, TypeOK, Goto
<1>3. \A m \in Loggers : pc'[m] # "idle" => calls'[m] > 0
  BY DEF Store, TypeOK, Goto, logVars
<1> QED
  BY <1>1, <1>2, <1>3 DEF Store, TypeOK, ctlVars, thrVars, histVars

\* Every variable keeps its type (all hooks, the thread, the control file).
LEMMA TypeStep == TypeOK /\ [Next]_vars => TypeOK'
<1> SUFFICES ASSUME TypeOK, [Next]_vars PROVE TypeOK'
  OBVIOUS
<1> USE LayerAssumption
<1>1. ASSUME NEW v \in CtlVals, WriteControl(v) PROVE TypeOK'
  BY <1>1 DEF TypeOK, WriteControl, SetSeLog, bufVars, logVars, histVars, ThreadPcs
<1>2. ASSUME NEW l \in Loggers, NEW h \in Layer.hooks, CallInactive(l, h) PROVE TypeOK'
  BY <1>2 DEF TypeOK, CallInactive, Goto, ctlVars, bufVars, thrVars, histVars, LoggerPcs
<1>3. ASSUME NEW l \in Loggers, NEW h \in Layer.hooks, CallActive(l, h) PROVE TypeOK'
  BY <1>3 DEF TypeOK, CallActive, Goto, ctlVars, bufVars, thrVars, histVars, LoggerPcs
<1>4. ASSUME NEW l \in Loggers, LoggerStep(l) PROVE TypeOK'
  <2> USE DEF TypeOK, Goto, ctlVars, bufVars, thrVars, histVars, LoggerPcs
  <2>1. CASE NoteStop(l)
    BY <2>1 DEF NoteStop, SetSeLog
  <2>2. CASE Restart(l)
    BY <2>2 DEF Restart, SetSeLog
  <2>3. CASE Restarted(l)
    BY <2>3 DEF Restarted
  <2>4. CASE CheckRoom(l)
    <3>1. Me(l) \in Event
      BY <2>4, MeIsEvent DEF CheckRoom
    <3>2. se_log' \in Seq({0, 1})
      <4>1. SetSeLog(0) \in Seq({0, 1})
        BY DEF SetSeLog
      <4>2. se_log' = SetSeLog(0) \/ se_log' = se_log
        BY <2>4 DEF CheckRoom
      <4> QED BY <4>1, <4>2
    <3>3. fate' \in [Event -> {"none", "full", "tc", "kept"}]
      BY <2>4, <3>1 DEF CheckRoom
    <3>4. pc' \in [Loggers -> LoggerPcs] /\ sys_start' \in {0, 1}
      BY <2>4 DEF CheckRoom
    <3>5. \A m \in Loggers : pc'[m] # "idle" => calls'[m] > 0
      BY <2>4 DEF CheckRoom
    <3> QED BY <2>4, <3>2, <3>3, <3>4, <3>5 DEF CheckRoom
  <2>5. CASE Filtered(l)
    BY <2>5 DEF Filtered
  <2>6. CASE Claim(l)
    BY <2>6 DEF Claim
  <2>7. CASE TestClaim(l)
    BY <2>7 DEF TestClaim
  <2>8. CASE Divert(l)
    <3>1. Me(l) \in Event
      BY <2>8, MeIsEvent DEF Divert
    <3> QED BY <2>8, <3>1 DEF Divert
  <2>9. CASE WriteHead(l)
    <3>1. Me(l) \in Event
      BY <2>9, MeIsEvent DEF WriteHead, Store
    <3>2. Store(l, "head", "hd", "tail")
      BY <2>9 DEF WriteHead
    <3> QED BY <3>1, <3>2, StoreStep
  <2>10. CASE WriteTail(l)
    <3>1. Me(l) \in Event
      BY <2>10, MeIsEvent DEF WriteTail, Store
    <3>2. Store(l, "tail", "tl", "bump")
      BY <2>10 DEF WriteTail
    <3> QED BY <3>1, <3>2, StoreStep
  <2>11. CASE BumpLoad(l)
    BY <2>11 DEF BumpLoad
  <2>12. CASE BumpStore(l)
    <3>1. Me(l) \in Event
      BY <2>12, MeIsEvent DEF BumpStore
    <3> QED BY <2>12, <3>1 DEF BumpStore
  <2>13. CASE Publish(l)
    BY <2>13 DEF Publish
  <2>14. CASE Release(l)
    BY <2>14 DEF Release
  <2> QED
    BY <1>4, <2>1, <2>2, <2>3, <2>4, <2>5, <2>6, <2>7, <2>8, <2>9, <2>10, <2>11,
       <2>12, <2>13, <2>14 DEF LoggerStep
<1>5. ASSUME ThreadStep PROVE TypeOK'
  <2> USE DEF TypeOK, Return, ctlVars, bufVars, logVars, histVars, ThreadPcs
  <2>1. CASE Poll
    BY <2>1 DEF Poll
  <2>0. CASE ThreadStopped
    BY <2>0 DEF ThreadStopped
  <2>2. CASE NothingLeft
    BY <2>2 DEF NothingLeft
  <2>3. CASE OpenFile
    BY <2>3 DEF OpenFile
  <2>4. CASE OpenFails
    BY <2>4 DEF OpenFails
  <2>5. CASE ArmTimer
    BY <2>5 DEF ArmTimer
  <2>6. CASE TimerRuns
    BY <2>6 DEF TimerRuns
  <2>7. CASE TimerExpires
    BY <2>7 DEF TimerExpires
  <2>8. CASE Scan
    <3>1. ASSUME fi \in Slots, Line(fi) # NoEvent
          PROVE  Line(fi) \in Event
      BY <3>1 DEF Line
    <3>2. file' \in [Event -> 0..2]
      <4>1. CASE fi \in Slots /\ Line(fi) # NoEvent /\ file[Line(fi)] < 2
        <5>1. file' = [file EXCEPT ![Line(fi)] = @ + 1]
          BY <2>8, <4>1 DEF Scan
        <5>2. Line(fi) \in Event
          BY <4>1, <3>1
        <5>3. file[Line(fi)] \in 0..2
          BY <5>2
        <5>4. file[Line(fi)] + 1 \in 0..2
          BY <4>1, <5>3
        <5> QED BY <5>1, <5>2, <5>4
      <4>2. CASE ~(fi \in Slots /\ Line(fi) # NoEvent /\ file[Line(fi)] < 2)
        BY <2>8, <4>2 DEF Scan
      <4> QED BY <4>1, <4>2
    <3>3. torn' \in BOOLEAN
      BY <2>8 DEF Scan
    <3>4. /\ fi' = fi + 1 /\ fpc' = "refresh"
          /\ UNCHANGED <<ctlVars, bufVars, logVars, fsz, cnt, bef, fate, raced>>
      BY <2>8 DEF Scan
    <3> QED BY <3>2, <3>3, <3>4
  <2>9. CASE Refresh
    BY <2>9 DEF Refresh
  <2>10. CASE ResetSize
    BY <2>10 DEF ResetSize
  <2>11. CASE ResetLog
    BY <2>11 DEF ResetLog
  <2> QED
    BY <1>5, <2>0, <2>1, <2>2, <2>3, <2>4, <2>5, <2>6, <2>7, <2>8, <2>9, <2>10, <2>11
       DEF ThreadStep
<1>6. CASE UNCHANGED vars
  BY <1>6 DEF TypeOK, vars, ctlVars, bufVars, logVars, thrVars, histVars
<1>7. CASE Next
  <2>1. CASE \E v \in CtlVals : WriteControl(v)
    BY <2>1, <1>1
  <2>2. CASE \E l \in Loggers, h \in Layer.hooks : CallInactive(l, h) \/ CallActive(l, h)
    BY <2>2, <1>2, <1>3
  <2>3. CASE \E l \in Loggers : LoggerStep(l)
    BY <2>3, <1>4
  <2> QED BY <1>7, <2>1, <2>2, <2>3, <1>5 DEF Next
<1> QED
  BY <1>6, <1>7

LEMMA TypeInit == Init => TypeOK
<1> SUFFICES ASSUME Init PROVE TypeOK
  OBVIOUS
<1>1. nctl \in 0..MaxCtl /\ calls \in [Loggers -> 0..MaxCalls]
  BY LayerAssumption DEF Init
<1>2. sys_log \in [Slots -> [hd : Event \cup {NoEvent}, tl : Event \cup {NoEvent}]]
  BY DEF Init
<1>3. se_log \in Seq({0, 1})
  BY DEF Init
<1>4. pc \in [Loggers -> LoggerPcs] /\ \A l \in Loggers : pc[l] = "idle"
  BY DEF Init, LoggerPcs
<1>5. tmp \in [Loggers -> Nat]
  BY DEF Init
<1>6. /\ file \in [Event -> 0..2]
      /\ fate \in [Event -> {"none", "full", "tc", "kept"}]
  BY DEF Init
<1>7. /\ debug_enabled = 0 /\ sys_size = 0 /\ log_size = 0 /\ aios = 0
      /\ flag1 = 0 /\ sys_start = 0
      /\ fpc = "none" /\ fsz = 0 /\ fi = 0 /\ cnt = 0 /\ bef = 0
  BY DEF Init
<1>8. torn \in BOOLEAN /\ raced \in BOOLEAN
  BY Zenon DEF Init
<1> QED
  BY <1>1, <1>2, <1>3, <1>4, <1>5, <1>6, <1>7, <1>8 DEF TypeOK, ThreadPcs

\* Every variable of a layer keeps its type.
THEOREM TypeCorrect == Spec => []TypeOK
  BY TypeInit, TypeStep, PTL DEF Spec

-----------------------------------------------------------------------------
(* The claim.                                                              *)

LEMMA BusyIsFinite ==
    ASSUME NEW S
    PROVE  /\ IsFiniteSet(Busy(S)) /\ Cardinality(Busy(S)) \in Nat
           /\ Cardinality(Busy(S)) <= Cardinality(Loggers)
           /\ Cardinality(Busy(S)') \in Nat
           /\ Cardinality(Busy(S)') <= Cardinality(Loggers)
<1>1. Busy(S) \in SUBSET Loggers /\ Busy(S)' \in SUBSET Loggers
  BY DEF Busy
<1> QED
  BY <1>1, LayerAssumption, FS_Subset, FS_CardinalityType DEF LayerAssumption

\* A task that moves joins or leaves the tasks at a set of places.
LEMMA BusyMoves ==
    ASSUME TypeOK, NEW l \in Loggers, NEW place \in LoggerPcs, Goto(l, place),
           NEW S
    PROVE  /\ place \in S => Busy(S)' = Busy(S) \cup {l}
           /\ place \notin S => Busy(S)' = Busy(S) \ {l}
  BY DEF TypeOK, Goto, Busy

LEMMA BusyCount ==
    ASSUME TypeOK, NEW l \in Loggers, NEW place \in LoggerPcs, Goto(l, place),
           NEW S
    PROVE  Cardinality(Busy(S)') =
             Cardinality(Busy(S)) + (IF place \in S THEN 1 ELSE 0)
                                  - (IF pc[l] \in S THEN 1 ELSE 0)
<1>1. IsFiniteSet(Busy(S)) /\ Cardinality(Busy(S)) \in Nat
  BY BusyIsFinite
<1>2. l \in Busy(S) <=> pc[l] \in S
  BY DEF Busy
<1>3. CASE place \in S
  BY <1>1, <1>2, <1>3, BusyMoves, FS_AddElement
<1>4. CASE place \notin S
  <2>1. Busy(S)' = Busy(S) \ {l}
    BY <1>4, BusyMoves
  <2>2. Cardinality(Busy(S) \ {l}) =
          IF l \in Busy(S) THEN Cardinality(Busy(S)) - 1 ELSE Cardinality(Busy(S))
    BY <1>1, FS_RemoveElement
  <2> QED BY <1>1, <1>2, <1>4, <2>1, <2>2
<1> QED
  BY <1>3, <1>4

\* A step that neither enters nor leaves the claim, nor starts to write.
LEMMA ClaimUntouched ==
    ASSUME TypeOK, ClaimIsExclusive, NEW l \in Loggers, NEW place \in LoggerPcs,
           Goto(l, place), aios' = aios,
           pc[l] \in Inside <=> place \in Inside,
           place \in Writing => pc[l] \in Writing
    PROVE  ClaimIsExclusive'
<1>1. Cardinality(Busy(Inside)') = Cardinality(Busy(Inside))
  BY BusyCount, BusyIsFinite
<1>2. Busy(Writing)' \subseteq Busy(Writing)
  BY BusyMoves DEF Busy
<1> QED
  BY <1>1, <1>2 DEF ClaimIsExclusive

LEMMA ClaimStep == TypeOK /\ ClaimIsExclusive /\ [Next]_vars => ClaimIsExclusive'
<1> SUFFICES ASSUME TypeOK, ClaimIsExclusive, [Next]_vars PROVE ClaimIsExclusive'
  OBVIOUS
<1>1. ASSUME UNCHANGED <<pc, aios>> PROVE ClaimIsExclusive'
  BY <1>1 DEF ClaimIsExclusive, Busy
<1>2. ASSUME NEW l \in Loggers, NEW h \in Layer.hooks, CallInactive(l, h) PROVE ClaimIsExclusive'
  <2> DEFINE place == IF debug_enabled \in h.stop /\ flag1 = 0 THEN "stopping" ELSE "idle"
  <2>1. place \in LoggerPcs /\ place \notin Inside /\ place \notin Writing
    BY DEF LoggerPcs, Inside, Writing
  <2>2. Goto(l, place) /\ aios' = aios /\ pc[l] \notin Inside
    BY <1>2 DEF CallInactive, bufVars, Inside
  <2> HIDE DEF place
  <2> QED BY <2>1, <2>2, ClaimUntouched
<1>3. ASSUME NEW l \in Loggers, NEW h \in Layer.hooks, CallActive(l, h) PROVE ClaimIsExclusive'
  <2> DEFINE place == IF flag1 = 1 THEN "restart" ELSE "check"
  <2>1. place \in LoggerPcs /\ place \notin Inside /\ place \notin Writing
    BY DEF LoggerPcs, Inside, Writing
  <2>2. Goto(l, place) /\ aios' = aios /\ pc[l] \notin Inside
    BY <1>3 DEF CallActive, bufVars, Inside
  <2> HIDE DEF place
  <2> QED BY <2>1, <2>2, ClaimUntouched
<1>4. ASSUME NEW l \in Loggers, LoggerStep(l) PROVE ClaimIsExclusive'
  <2> USE DEF LoggerPcs, Inside, Writing, bufVars
  <2>1. CASE NoteStop(l)
    BY <2>1, ClaimUntouched DEF NoteStop
  <2>2. CASE Restart(l)
    BY <2>2, ClaimUntouched DEF Restart
  <2>3. CASE Restarted(l)
    BY <2>3, ClaimUntouched DEF Restarted
  <2>4. CASE CheckRoom(l)
    BY <2>4, ClaimUntouched DEF CheckRoom
  <2>5. CASE Filtered(l)
    BY <2>5, ClaimUntouched DEF Filtered
  <2>6. CASE Claim(l)
    <3>1. pc[l] = "claim" /\ Goto(l, "test") /\ aios' = aios + 1
      BY <2>6 DEF Claim
    <3>2. Cardinality(Busy(Inside)') = Cardinality(Busy(Inside)) + 1
      BY <3>1, BusyCount, BusyIsFinite
    <3>3. Busy(Writing)' \subseteq Busy(Writing)
      BY <3>1, BusyMoves
    <3> QED BY <3>1, <3>2, <3>3 DEF ClaimIsExclusive
  <2>7. CASE TestClaim(l)
    <3>1. CASE aios # 1
      BY <2>7, <3>1, ClaimUntouched DEF TestClaim
    <3>2. CASE aios = 1
      <4>1. pc[l] = "test" /\ Goto(l, "head") /\ aios' = aios
        BY <2>7, <3>2 DEF TestClaim
      <4>2. Cardinality(Busy(Inside)') = Cardinality(Busy(Inside))
        BY <4>1, BusyCount, BusyIsFinite
      <4>3. l \in Busy(Inside)
        BY <4>1 DEF Busy
      <4>4. PICK x : Busy(Inside) = {x}
        BY <3>2, BusyIsFinite, FS_Singleton DEF ClaimIsExclusive
      <4>5. Busy(Inside) = {l}
        BY <4>3, <4>4
      <4>6. Busy(Writing) \subseteq Busy(Inside)
        BY DEF Busy
      <4>7. Busy(Writing)' \subseteq {l}
        BY <4>1, <4>5, <4>6, BusyMoves
      <4> QED BY <4>1, <4>2, <4>7 DEF ClaimIsExclusive
    <3> QED BY <3>1, <3>2
  <2>8. CASE Divert(l)
    BY <2>8, ClaimUntouched DEF Divert
  <2>9. CASE WriteHead(l)
    BY <2>9, ClaimUntouched DEF WriteHead, Store
  <2>10. CASE WriteTail(l)
    BY <2>10, ClaimUntouched DEF WriteTail, Store
  <2>11. CASE BumpLoad(l)
    BY <2>11, ClaimUntouched DEF BumpLoad
  <2>12. CASE BumpStore(l)
    BY <2>12, ClaimUntouched DEF BumpStore
  <2>13. CASE Publish(l)
    BY <2>13, ClaimUntouched DEF Publish
  <2>14. CASE Release(l)
    <3>1. pc[l] = "release" /\ Goto(l, "idle") /\ aios' = aios - 1
      BY <2>14 DEF Release
    <3>2. Cardinality(Busy(Inside)') = Cardinality(Busy(Inside)) - 1
      BY <3>1, BusyCount, BusyIsFinite
    <3>3. Busy(Writing)' \subseteq Busy(Writing)
      BY <3>1, BusyMoves
    <3> QED BY <3>1, <3>2, <3>3 DEF ClaimIsExclusive
  <2> QED
    BY <1>4, <2>1, <2>2, <2>3, <2>4, <2>5, <2>6, <2>7, <2>8, <2>9, <2>10, <2>11,
       <2>12, <2>13, <2>14 DEF LoggerStep
<1>5. CASE ThreadStep
  <2>1. UNCHANGED <<pc, aios>>
    BY <1>5 DEF ThreadStep, Poll, ThreadStopped, NothingLeft, OpenFile, OpenFails, ArmTimer,
       TimerRuns, TimerExpires, Scan, Refresh, ResetSize, ResetLog, bufVars, logVars
  <2> QED BY <2>1, <1>1
<1>6. CASE \E v \in CtlVals : WriteControl(v)
  BY <1>1, <1>6 DEF WriteControl, bufVars, logVars
<1>7. CASE UNCHANGED vars
  BY <1>1, <1>7 DEF vars, bufVars, logVars
<1>8. CASE \E l \in Loggers, h \in Layer.hooks : CallInactive(l, h) \/ CallActive(l, h)
  BY <1>8, <1>2, <1>3
<1>9. CASE \E l \in Loggers : LoggerStep(l)
  BY <1>9, <1>4
<1> QED
  BY <1>5, <1>6, <1>7, <1>8, <1>9 DEF Next

LEMMA ClaimInit == Init => ClaimIsExclusive
<1> SUFFICES ASSUME Init PROVE ClaimIsExclusive
  OBVIOUS
<1>1. Busy(Inside) = {} /\ Busy(Writing) = {}
  BY DEF Init, Busy, Inside, Writing
<1> QED
  BY <1>1, FS_EmptySet DEF Init, ClaimIsExclusive

\* aios1 counts the tasks inside the claim and at most one writes the array,
\* however many there are and whatever the thread and the user do meanwhile.
THEOREM ClaimExclusive == Spec => []ClaimIsExclusive
<1>1. TypeOK /\ ClaimIsExclusive /\ [Next]_vars => (TypeOK /\ ClaimIsExclusive)'
  BY TypeStep, ClaimStep
<1>2. Init => TypeOK /\ ClaimIsExclusive
  BY TypeInit, ClaimInit
<1> QED
  BY <1>1, <1>2, PTL DEF Spec

-----------------------------------------------------------------------------
(* The overshoot.                                                          *)

\* What a task loaded for its += 1 is still the size when it stores: only a
\* reset could change it under the claim.
LoadedIsCurrent ==
    ~raced => \A l \in Loggers : pc[l] = "store" => tmp[l] = sys_size

LEMMA LoadedUntouched ==
    ASSUME TypeOK, LoadedIsCurrent, NEW l \in Loggers, NEW place \in LoggerPcs,
           Goto(l, place), place # "store", sys_size' = sys_size,
           raced' = raced, \A m \in Loggers \ {l} : tmp'[m] = tmp[m]
    PROVE  LoadedIsCurrent'
  BY DEF TypeOK, LoadedIsCurrent, Goto

LEMMA LoadedStep ==
    TypeOK /\ ClaimIsExclusive /\ LoadedIsCurrent /\ [Next]_vars => LoadedIsCurrent'
<1> SUFFICES ASSUME TypeOK, ClaimIsExclusive, LoadedIsCurrent, [Next]_vars
             PROVE  LoadedIsCurrent'
  OBVIOUS
<1>1. ASSUME UNCHANGED <<pc, tmp, sys_size, raced>> PROVE LoadedIsCurrent'
  BY <1>1 DEF LoadedIsCurrent
<1>2. ASSUME NEW l \in Loggers, NEW h \in Layer.hooks, CallInactive(l, h) PROVE LoadedIsCurrent'
  <2> DEFINE place == IF debug_enabled \in h.stop /\ flag1 = 0 THEN "stopping" ELSE "idle"
  <2>1. place \in LoggerPcs /\ place # "store"
    BY DEF LoggerPcs
  <2>2. Goto(l, place) /\ UNCHANGED <<sys_size, raced, tmp>>
    BY <1>2 DEF CallInactive, bufVars, histVars
  <2> HIDE DEF place
  <2> QED BY <2>1, <2>2, LoadedUntouched
<1>3. ASSUME NEW l \in Loggers, NEW h \in Layer.hooks, CallActive(l, h) PROVE LoadedIsCurrent'
  <2> DEFINE place == IF flag1 = 1 THEN "restart" ELSE "check"
  <2>1. place \in LoggerPcs /\ place # "store"
    BY DEF LoggerPcs
  <2>2. Goto(l, place) /\ UNCHANGED <<sys_size, raced, tmp>>
    BY <1>3 DEF CallActive, bufVars, histVars
  <2> HIDE DEF place
  <2> QED BY <2>1, <2>2, LoadedUntouched
<1>4. ASSUME NEW l \in Loggers, LoggerStep(l) PROVE LoadedIsCurrent'
  <2> USE DEF LoggerPcs, bufVars, histVars
  <2>1. CASE NoteStop(l)
    BY <2>1, LoadedUntouched DEF NoteStop
  <2>2. CASE Restart(l)
    <3>1. pc[l] = "restart" /\ Goto(l, "restarted") /\ UNCHANGED tmp
      BY <2>2 DEF Restart
    <3>2. ~raced' => Busy(Writing) = {}
      BY <2>2 DEF Restart
    <3>3. ~raced' => \A m \in Loggers : pc[m] # "store"
      BY <3>2 DEF Busy, Writing
    <3> QED BY <3>1, <3>3 DEF LoadedIsCurrent, Goto, TypeOK
  <2>3. CASE Restarted(l)
    BY <2>3, LoadedUntouched DEF Restarted
  <2>4. CASE CheckRoom(l)
    BY <2>4, LoadedUntouched DEF CheckRoom
  <2>5. CASE Filtered(l)
    BY <2>5, LoadedUntouched DEF Filtered
  <2>6. CASE Claim(l)
    BY <2>6, LoadedUntouched DEF Claim
  <2>7. CASE TestClaim(l)
    BY <2>7, LoadedUntouched DEF TestClaim
  <2>8. CASE Divert(l)
    BY <2>8, LoadedUntouched DEF Divert
  <2>9. CASE WriteHead(l)
    BY <2>9, LoadedUntouched DEF WriteHead, Store
  <2>10. CASE WriteTail(l)
    BY <2>10, LoadedUntouched DEF WriteTail, Store
  <2>11. CASE BumpLoad(l)
    <3>1. /\ pc' = [pc EXCEPT ![l] = "store"] /\ tmp' = [tmp EXCEPT ![l] = sys_size]
          /\ sys_size' = sys_size /\ raced' = raced
      BY <2>11 DEF BumpLoad, Goto
    <3> QED BY <3>1 DEF LoadedIsCurrent, TypeOK
  <2>12. CASE BumpStore(l)
    <3>1. pc[l] = "store" /\ Goto(l, "publish") /\ UNCHANGED <<tmp, raced>>
      BY <2>12 DEF BumpStore
    <3>2. \A m \in Loggers : pc[m] = "store" => m = l
      BY <3>1 DEF ClaimIsExclusive, Busy, Writing
    <3> QED BY <3>1, <3>2 DEF LoadedIsCurrent, Goto, TypeOK
  <2>13. CASE Publish(l)
    <3>1. \A m \in Loggers \ {l} : tmp'[m] = tmp[m]
      BY <2>13 DEF Publish, TypeOK
    <3> QED BY <2>13, <3>1, LoadedUntouched DEF Publish
  <2>14. CASE Release(l)
    BY <2>14, LoadedUntouched DEF Release
  <2> QED
    BY <1>4, <2>1, <2>2, <2>3, <2>4, <2>5, <2>6, <2>7, <2>8, <2>9, <2>10, <2>11,
       <2>12, <2>13, <2>14 DEF LoggerStep
<1>5. CASE ThreadStep
  <2>1. CASE ResetSize
    <3>1. ~raced' => Busy(Writing) = {}
      BY <2>1 DEF ResetSize
    <3>2. ~raced' => \A m \in Loggers : pc[m] # "store"
      BY <3>1 DEF Busy, Writing
    <3>3. UNCHANGED pc
      BY <2>1 DEF ResetSize, logVars
    <3> QED BY <3>2, <3>3 DEF LoadedIsCurrent
  <2>2. CASE Poll
    <3>1. (~raced' => ~raced) /\ UNCHANGED <<pc, tmp, sys_size>>
      BY <2>2 DEF Poll, logVars, bufVars
    <3> QED BY <3>1 DEF LoadedIsCurrent
  <2>3. CASE ~ResetSize /\ ~Poll
    <3>1. UNCHANGED <<pc, tmp, sys_size, raced>>
      BY <1>5, <2>3 DEF ThreadStep, ThreadStopped, NothingLeft, OpenFile, OpenFails, ArmTimer,
         TimerRuns, TimerExpires, Scan, Refresh, ResetLog, bufVars, logVars, histVars
    <3> QED BY <3>1, <1>1
  <2> QED BY <2>1, <2>2, <2>3
<1>6. CASE \E v \in CtlVals : WriteControl(v)
  BY <1>1, <1>6 DEF WriteControl, bufVars, logVars, histVars
<1>7. CASE UNCHANGED vars
  BY <1>1, <1>7 DEF vars, bufVars, logVars, histVars
<1>8. CASE \E l \in Loggers, h \in Layer.hooks : CallInactive(l, h) \/ CallActive(l, h)
  BY <1>8, <1>2, <1>3
<1>9. CASE \E l \in Loggers : LoggerStep(l)
  BY <1>9, <1>4
<1> QED
  BY <1>5, <1>6, <1>7, <1>8, <1>9 DEF Next

\* A step in which no task passes the capacity check and the size only falls.
LEMMA OvershootUntouched ==
    ASSUME TypeOK, OvershootIsBounded, NEW l \in Loggers, NEW place \in LoggerPcs,
           Goto(l, place), place \in Passed => pc[l] \in Passed,
           sys_size' = sys_size \/ sys_size' = 0, ~raced' => ~raced
    PROVE  OvershootIsBounded'
<1> SUFFICES ASSUME ~raced' PROVE sys_size' + Cardinality(Busy(Passed)')
                                    <= AIOMAX - 1 + Cardinality(Loggers)
  BY DEF OvershootIsBounded
<1>1. Cardinality(Busy(Passed)') <= Cardinality(Busy(Passed))
  BY BusyCount, BusyIsFinite
<1>2. /\ sys_size \in Nat /\ AIOMAX \in Nat
      /\ Cardinality(Busy(Passed)') \in Nat /\ Cardinality(Busy(Passed)) \in Nat
      /\ Cardinality(Loggers) \in Nat
  BY BusyIsFinite, LayerAssumption, FS_CardinalityType DEF TypeOK, LayerAssumption
<1> QED
  BY <1>1, <1>2 DEF OvershootIsBounded

LEMMA OvershootStep ==
    TypeOK /\ LoadedIsCurrent /\ OvershootIsBounded /\ [Next]_vars => OvershootIsBounded'
<1> SUFFICES ASSUME TypeOK, LoadedIsCurrent, OvershootIsBounded, [Next]_vars
             PROVE  OvershootIsBounded'
  OBVIOUS
<1>1. ASSUME UNCHANGED pc, sys_size' = sys_size \/ sys_size' = 0, ~raced' => ~raced
      PROVE  OvershootIsBounded'
  <2>1. Busy(Passed)' = Busy(Passed)
    BY <1>1 DEF Busy
  <2>2. /\ sys_size \in Nat /\ AIOMAX \in Nat /\ Cardinality(Busy(Passed)) \in Nat
        /\ Cardinality(Loggers) \in Nat
    BY BusyIsFinite, LayerAssumption, FS_CardinalityType DEF TypeOK, LayerAssumption
  <2> QED BY <1>1, <2>1, <2>2 DEF OvershootIsBounded
<1>2. ASSUME NEW l \in Loggers, NEW h \in Layer.hooks, CallInactive(l, h) PROVE OvershootIsBounded'
  <2> DEFINE place == IF debug_enabled \in h.stop /\ flag1 = 0 THEN "stopping" ELSE "idle"
  <2>1. place \in LoggerPcs /\ place \notin Passed
    BY DEF LoggerPcs, Passed
  <2>2. Goto(l, place) /\ UNCHANGED <<sys_size, raced>>
    BY <1>2 DEF CallInactive, bufVars, histVars
  <2> HIDE DEF place
  <2> QED BY <2>1, <2>2, OvershootUntouched
<1>3. ASSUME NEW l \in Loggers, NEW h \in Layer.hooks, CallActive(l, h) PROVE OvershootIsBounded'
  <2> DEFINE place == IF flag1 = 1 THEN "restart" ELSE "check"
  <2>1. place \in LoggerPcs /\ place \notin Passed
    BY DEF LoggerPcs, Passed
  <2>2. Goto(l, place) /\ UNCHANGED <<sys_size, raced>>
    BY <1>3 DEF CallActive, bufVars, histVars
  <2> HIDE DEF place
  <2> QED BY <2>1, <2>2, OvershootUntouched
<1>4. ASSUME NEW l \in Loggers, LoggerStep(l) PROVE OvershootIsBounded'
  <2> USE DEF LoggerPcs, Passed, bufVars, histVars
  <2>1. CASE NoteStop(l)
    BY <2>1, OvershootUntouched DEF NoteStop
  <2>2. CASE Restart(l)
    <3>1. Goto(l, "restarted") /\ sys_size' = 0 /\ (~raced' => ~raced)
      BY <2>2 DEF Restart
    <3> QED BY <3>1, OvershootUntouched
  <2>3. CASE Restarted(l)
    BY <2>3, OvershootUntouched DEF Restarted
  <2>4. CASE CheckRoom(l)
    <3>1. CASE sys_size < AIOMAX
      <4>1. UNCHANGED sys_size
        BY <2>4 DEF CheckRoom
      <4>2. Cardinality(Busy(Passed)') <= Cardinality(Loggers)
            /\ Cardinality(Busy(Passed)') \in Nat /\ Cardinality(Loggers) \in Nat
        BY BusyIsFinite, LayerAssumption, FS_CardinalityType DEF LayerAssumption
      <4>3. sys_size \in Nat /\ AIOMAX \in Nat
        BY LayerAssumption DEF TypeOK, LayerAssumption
      <4>4. sys_size' + Cardinality(Busy(Passed)') <= AIOMAX - 1 + Cardinality(Loggers)
        BY <3>1, <4>1, <4>2, <4>3
      <4> QED BY <4>4 DEF OvershootIsBounded
    <3>2. CASE ~(sys_size < AIOMAX)
      BY <2>4, <3>2, OvershootUntouched DEF CheckRoom
    <3> QED BY <3>1, <3>2
  <2>5. CASE Filtered(l)
    BY <2>5, OvershootUntouched DEF Filtered
  <2>6. CASE Claim(l)
    BY <2>6, OvershootUntouched DEF Claim
  <2>7. CASE TestClaim(l)
    BY <2>7, OvershootUntouched DEF TestClaim
  <2>8. CASE Divert(l)
    BY <2>8, OvershootUntouched DEF Divert
  <2>9. CASE WriteHead(l)
    BY <2>9, OvershootUntouched DEF WriteHead, Store
  <2>10. CASE WriteTail(l)
    BY <2>10, OvershootUntouched DEF WriteTail, Store
  <2>11. CASE BumpLoad(l)
    BY <2>11, OvershootUntouched DEF BumpLoad
  <2>12. CASE BumpStore(l)
    <3>1. pc[l] = "store" /\ Goto(l, "publish") /\ sys_size' = tmp[l] + 1 /\ raced' = raced
      BY <2>12 DEF BumpStore
    <3>2. Cardinality(Busy(Passed)') = Cardinality(Busy(Passed)) - 1
      BY <3>1, BusyCount, BusyIsFinite
    <3>3. ~raced => sys_size' = sys_size + 1
      BY <3>1 DEF LoadedIsCurrent
    <3>4. sys_size \in Nat /\ Cardinality(Busy(Passed)) \in Nat
      BY BusyIsFinite DEF TypeOK
    <3> QED BY <3>1, <3>2, <3>3, <3>4 DEF OvershootIsBounded
  <2>13. CASE Publish(l)
    BY <2>13, OvershootUntouched DEF Publish
  <2>14. CASE Release(l)
    BY <2>14, OvershootUntouched DEF Release
  <2> QED
    BY <1>4, <2>1, <2>2, <2>3, <2>4, <2>5, <2>6, <2>7, <2>8, <2>9, <2>10, <2>11,
       <2>12, <2>13, <2>14 DEF LoggerStep
<1>5. CASE ThreadStep
  <2>1. CASE ResetSize
    <3>1. UNCHANGED pc /\ sys_size' = 0 /\ (~raced' => ~raced)
      BY <2>1 DEF ResetSize, logVars
    <3> QED BY <3>1, <1>1
  <2>2. CASE Poll
    <3>1. (~raced' => ~raced) /\ UNCHANGED <<pc, sys_size>>
      BY <2>2 DEF Poll, logVars, bufVars
    <3> QED BY <3>1, <1>1
  <2>3. CASE ~ResetSize /\ ~Poll
    <3>1. UNCHANGED <<pc, sys_size, raced>>
      BY <1>5, <2>3 DEF ThreadStep, ThreadStopped, NothingLeft, OpenFile, OpenFails, ArmTimer,
         TimerRuns, TimerExpires, Scan, Refresh, ResetLog, bufVars, logVars, histVars
    <3> QED BY <3>1, <1>1
  <2> QED BY <2>1, <2>2, <2>3
<1>6. CASE \E v \in CtlVals : WriteControl(v)
  BY <1>1, <1>6 DEF WriteControl, bufVars, logVars, histVars
<1>7. CASE UNCHANGED vars
  BY <1>1, <1>7 DEF vars, bufVars, logVars, histVars
<1>8. CASE \E l \in Loggers, h \in Layer.hooks : CallInactive(l, h) \/ CallActive(l, h)
  BY <1>8, <1>2, <1>3
<1>9. CASE \E l \in Loggers : LoggerStep(l)
  BY <1>9, <1>4
<1> QED
  BY <1>5, <1>6, <1>7, <1>8, <1>9 DEF Next

\* The inductive invariant: the bound needs the claim (one task bumps the size
\* at a time) and that what it loaded is still the size when it stores.
IInv == TypeOK /\ ClaimIsExclusive /\ LoadedIsCurrent /\ OvershootIsBounded

LEMMA InitIInv == Init => IInv
<1>1. Init => IInv
  <2> SUFFICES ASSUME Init PROVE IInv
    OBVIOUS
  <2>1. Busy(Passed) = {} /\ \A l \in Loggers : pc[l] # "store"
    BY DEF Init, Busy, Passed
  <2>2. sys_size = 0 /\ Cardinality(Busy(Passed)) = 0
    BY <2>1, FS_EmptySet DEF Init
  <2>3. AIOMAX \in Nat \ {0} /\ Cardinality(Loggers) \in Nat
    BY LayerAssumption, FS_CardinalityType DEF LayerAssumption
  <2>4. LoadedIsCurrent /\ OvershootIsBounded
    BY <2>1, <2>2, <2>3 DEF LoadedIsCurrent, OvershootIsBounded
  <2> QED BY <2>4, TypeInit, ClaimInit DEF IInv
<1> QED BY <1>1

\* Until a reset falls into a claim, an array of any capacity is overrun by at
\* most one slot for each task but the first (the capacity check of set_sys_log
\* is outside the claim).
THEOREM OvershootBounded == Spec => []OvershootIsBounded
<1>2. IInv /\ [Next]_vars => IInv'
  BY TypeStep, ClaimStep, LoadedStep, OvershootStep DEF IInv
<1>3. IInv => OvershootIsBounded
  BY DEF IInv
<1> QED
  BY InitIInv, <1>2, <1>3, PTL DEF Spec
=============================================================================
