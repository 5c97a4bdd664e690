---------------------------- MODULE TcLogProofs ----------------------------
(* What holds of TcLog for every number of tasks, buffers, slots and calls. *)
EXTENDS TcLog, FiniteSetTheorems, TLAPS

SessType ==
    /\ running \in BOOLEAN /\ nswitch \in 0..MaxSwitch /\ flag1 \in {0, 1}
    /\ zpc \in [ScsiTasks -> 0..NB]
TcType ==
    /\ aiotc \in [Buffers -> Int]
    /\ tc_size \in [Buffers -> TcSlots] /\ tc_logsize \in [Buffers -> TcSlots]
    /\ tc_log \in [Buffers -> [TcSlots -> Event \cup {NoEvent}]]
CallType ==
    /\ pc \in [Callers -> CallerPcs] /\ calls \in [Callers -> 0..MaxCalls]
    /\ \A c \in Callers : pc[c] # "idle" => calls[c] > 0
    /\ buf \in [Callers -> Buffers] /\ tmp \in [Callers -> Nat]
    /\ \A c \in Callers : pc[c] \in {"bump", "publish"} => tmp[c] \in TcSlots
ThrType ==
    /\ bpc \in {"poll", "buffer", "print", "wipe", "wipesize", "wipelog"}
    /\ bj \in 0..NB /\ bi \in Nat /\ bsize \in TcSlots
    /\ (bpc = "print" => bj < NB) /\ (bpc \in {"wipesize", "wipelog"} => bi < NB)
HistType ==
    /\ printed \subseteq Event
    /\ fate \in [Event -> {"none", "stored", "dropped"}]
    /\ passed \in [Buffers -> TcSlots] /\ wiped \in BOOLEAN /\ zeroed \in BOOLEAN

LEMMA TypeSplit ==
    ASSUME TypeOK PROVE SessType /\ TcType /\ CallType /\ ThrType /\ HistType
BY DEF TypeOK, SessType, TcType, CallType, ThrType, HistType

LEMMA TypeJoin ==
    ASSUME SessType', TcType', CallType', ThrType', HistType' PROVE TypeOK'
BY DEF TypeOK, SessType, TcType, CallType, ThrType, HistType

LEMMA SessUntouched == ASSUME SessType, UNCHANGED <<sessVars, zpc>> PROVE SessType'
BY DEF SessType, sessVars
LEMMA TcUntouched == ASSUME TcType, UNCHANGED tcVars PROVE TcType'
BY DEF TcType, tcVars
LEMMA CallUntouched == ASSUME CallType, UNCHANGED callVars PROVE CallType'
BY DEF CallType, callVars
LEMMA ThrUntouched == ASSUME ThrType, UNCHANGED thrVars PROVE ThrType'
BY DEF ThrType, thrVars
LEMMA HistUntouched == ASSUME HistType, UNCHANGED histVars PROVE HistType'
BY DEF HistType, histVars

LEMMA Sizes == /\ 0 \in TcSlots /\ TcSlots \subseteq Nat /\ Buffers \subseteq Nat
               /\ 0 \in Buffers /\ NB \in Nat \ {0}
BY TcAssumption DEF TcAssumption, TcSlots, Buffers

LEMMA MeIsEvent == ASSUME CallType, NEW c \in Callers, pc[c] # "idle" PROVE Me(c) \in Event
<1>1. calls[c] \in 0..MaxCalls /\ calls[c] > 0
  BY DEF CallType
<1>2. calls[c] \in 1..MaxCalls
  BY <1>1, TcAssumption DEF TcAssumption
<1> QED
  BY <1>2 DEF Me, Event

\* A step of a task that moves to a place without an index of its own.
LEMMA MoveType ==
    ASSUME CallType, NEW c \in Callers, NEW place \in CallerPcs, Goto(c, place),
           pc[c] # "idle", place \notin {"bump", "publish"}, UNCHANGED calls,
           buf' \in [Callers -> Buffers], tmp' \in [Callers -> Nat],
           \A d \in Callers \ {c} : tmp'[d] = tmp[d]
    PROVE  CallType'
<1>1. pc' \in [Callers -> CallerPcs] /\ calls' \in [Callers -> 0..MaxCalls]
  BY DEF CallType, Goto
<1>2. \A d \in Callers : pc'[d] # "idle" => calls'[d] > 0
  BY DEF CallType, Goto
<1>3. \A d \in Callers : pc'[d] \in {"bump", "publish"} => tmp'[d] \in TcSlots
  <2> SUFFICES ASSUME NEW d \in Callers, pc'[d] \in {"bump", "publish"}
               PROVE  tmp'[d] \in TcSlots
    OBVIOUS
  <2>1. d # c
    BY DEF CallType, Goto
  <2>2. pc'[d] = pc[d]
    BY <2>1 DEF CallType, Goto
  <2> QED BY <2>1, <2>2 DEF CallType
<1> QED
  BY <1>1, <1>2, <1>3 DEF CallType

LEMMA CallerTypeStep ==
    ASSUME TypeOK, NEW c \in Callers, CallerStep(c)
    PROVE  TypeOK'
<1>0. SessType /\ TcType /\ CallType /\ ThrType /\ HistType
  BY TypeSplit
<1>1. SessType' /\ ThrType'
  BY <1>0, SessUntouched, ThrUntouched
     DEF CallerStep, Pick, Inc, Test, Back, Write, Load, Bump, Publish, Dec
<1>2. buf[c] \in Buffers /\ tmp[c] \in Nat /\ tc_size[buf[c]] \in TcSlots
  BY <1>0 DEF CallType, TcType
<1>3. buf \in [Callers -> Buffers] /\ tmp \in [Callers -> Nat]
  BY <1>0 DEF CallType
<1>4. ASSUME ~Bump(c) PROVE HistType'
  BY <1>0, <1>4, HistUntouched
     DEF CallerStep, Pick, Inc, Test, Back, Write, Load, Publish, Dec
<1>5. CASE Pick(c)
  <2> DEFINE j == tmp[c] + 1
  <2>1. j < NB => j \in Buffers
    BY <1>2, Sizes DEF Buffers
  <2>2. buf' \in [Callers -> Buffers] /\ UNCHANGED calls
    BY <1>3, <1>5, <2>1 DEF Pick
  <2>3. CASE j + 1 < NB
    <3>1. tmp' = [tmp EXCEPT ![c] = j] /\ UNCHANGED pc
      BY <1>5, <2>3 DEF Pick
    <3>2. tmp' \in [Callers -> Nat]
      BY <1>2, <1>3, <3>1
    <3>3. pc[c] = "pick"
      BY <1>5 DEF Pick
    <3>4. CallType'
      BY <1>0, <2>2, <3>1, <3>2, <3>3 DEF CallType
    <3> QED
      BY <1>0, <1>1, <1>4, <1>5, <3>4, TcUntouched, TypeJoin DEF Pick, Bump
  <2>4. CASE ~(j + 1 < NB)
    <3>1. tmp' = [tmp EXCEPT ![c] = 0] /\ Goto(c, "inc") /\ pc[c] = "pick"
      BY <1>5, <2>4 DEF Pick
    <3>2. CallType'
      BY <1>0, <1>3, <2>2, <3>1, MoveType DEF CallerPcs
    <3> QED
      BY <1>0, <1>1, <1>4, <1>5, <3>2, TcUntouched, TypeJoin DEF Pick, Bump
  <2> QED BY <2>3, <2>4
<1>6. CASE Inc(c)
  <2>1. CallType'
    BY <1>0, <1>3, <1>6, MoveType DEF Inc, CallerPcs
  <2>2. TcType'
    BY <1>0, <1>2, <1>6 DEF Inc, TcType
  <2> QED BY <1>1, <1>4, <1>6, <2>1, <2>2, TypeJoin DEF Inc, Bump
<1>7. CASE Test(c)
  <2>1. Goto(c, "back") \/ Goto(c, "write")
    BY <1>7 DEF Test
  <2>2. CallType'
    BY <1>0, <1>3, <1>7, <2>1, MoveType DEF Test, CallerPcs
  <2> QED BY <1>0, <1>1, <1>4, <1>7, <2>2, TcUntouched, TypeJoin DEF Test, Bump
<1>8. CASE Back(c)
  <2>1. (buf[c] + 1) % NB \in Buffers
    BY <1>2, Sizes DEF Buffers
  <2>2. CallType'
    BY <1>0, <1>3, <1>8, <2>1, MoveType DEF Back, CallerPcs
  <2>3. TcType'
    BY <1>0, <1>2, <1>8 DEF Back, TcType
  <2> QED BY <1>1, <1>4, <1>8, <2>2, <2>3, TypeJoin DEF Back, Bump
<1>9. CASE Write(c)
  <2>1. CallType'
    BY <1>0, <1>3, <1>9, MoveType DEF Write, CallerPcs
  <2>2. Me(c) \in Event
    BY <1>0, <1>9, MeIsEvent DEF Write
  <2>3. TcType'
    BY <1>0, <1>2, <1>9, <2>2 DEF Write, TcType
  <2> QED BY <1>1, <1>4, <1>9, <2>1, <2>3, TypeJoin DEF Write, Bump
<1>10. CASE Load(c)
  <2>1. tmp' = [tmp EXCEPT ![c] = tc_size[buf[c]]] /\ Goto(c, "bump") /\ UNCHANGED <<calls, buf>>
        /\ pc[c] = "load"
    BY <1>10 DEF Load
  <2>2. tmp' \in [Callers -> Nat]
    BY <1>2, <1>3, <2>1, Sizes
  <2>3. CallType'
    <3>1. pc' \in [Callers -> CallerPcs] /\ calls' \in [Callers -> 0..MaxCalls]
      BY <1>0, <2>1 DEF CallType, Goto, CallerPcs
    <3>2. \A d \in Callers : pc'[d] # "idle" => calls'[d] > 0
      BY <1>0, <2>1 DEF CallType, Goto
    <3>3. \A d \in Callers : pc'[d] \in {"bump", "publish"} => tmp'[d] \in TcSlots
      BY <1>0, <1>2, <2>1 DEF CallType, Goto
    <3> QED BY <1>3, <2>1, <2>2, <3>1, <3>2, <3>3 DEF CallType
  <2> QED BY <1>0, <1>1, <1>4, <1>10, <2>3, TcUntouched, TypeJoin DEF Load, Bump
<1>11. CASE Bump(c)
  <2>1. tmp[c] \in TcSlots /\ pc[c] = "bump"
    BY <1>0, <1>11 DEF Bump, CallType
  <2>2. Fits(tmp[c]) => tmp[c] + 1 \in TcSlots
    BY <2>1, TcAssumption DEF Fits, TcSlots, TcAssumption
  <2>3. CallType'
    <3>1. Goto(c, "publish") /\ UNCHANGED <<calls, buf, tmp>>
      BY <1>11 DEF Bump
    <3>2. pc' \in [Callers -> CallerPcs] /\ \A d \in Callers : pc'[d] # "idle" => calls[d] > 0
      BY <1>0, <2>1, <3>1 DEF CallType, Goto, CallerPcs
    <3>3. \A d \in Callers : pc'[d] \in {"bump", "publish"} => tmp[d] \in TcSlots
      BY <1>0, <2>1, <3>1 DEF CallType, Goto
    <3> QED BY <1>0, <3>1, <3>2, <3>3 DEF CallType
  <2>4. tc_size' = tc_size \/ (Fits(tmp[c]) /\ tc_size' = [tc_size EXCEPT ![buf[c]] = tmp[c] + 1])
    BY <1>11 DEF Bump
  <2>5. TcType'
    <3>1. tc_size' \in [Buffers -> TcSlots]
      BY <1>0, <2>2, <2>4 DEF TcType
    <3> QED BY <1>0, <1>11, <3>1 DEF Bump, TcType
  <2>6. HistType'
    <3>1. fate' = [fate EXCEPT ![Me(c)] = "stored"] \/ fate' = [fate EXCEPT ![Me(c)] = "dropped"]
      BY <1>11 DEF Bump
    <3>2. fate' \in [Event -> {"none", "stored", "dropped"}]
      BY <1>0, <3>1 DEF HistType
    <3>3. UNCHANGED <<printed, passed, wiped, zeroed>>
      BY <1>11 DEF Bump
    <3> QED BY <1>0, <3>2, <3>3 DEF HistType
  <2> QED BY <1>1, <2>3, <2>5, <2>6, TypeJoin
<1>12. CASE Publish(c)
  <2>1. tmp[c] \in TcSlots /\ pc[c] = "publish"
    BY <1>0, <1>12 DEF Publish, CallType
  <2>2. tmp[c] + (IF Fits(tmp[c]) THEN 1 ELSE 0) \in TcSlots
    BY <2>1, TcAssumption DEF Fits, TcSlots, TcAssumption
  <2>3. PICK size \in TcSlots : tc_logsize' = [tc_logsize EXCEPT ![buf[c]] = size]
    BY <1>2, <1>12, <2>2 DEF Publish
  <2>4. TcType'
    <3>1. tc_logsize' \in [Buffers -> TcSlots]
      BY <1>0, <2>3 DEF TcType
    <3> QED BY <1>0, <1>12, <3>1 DEF Publish, TcType
  <2>5. CallType'
    BY <1>0, <1>3, <1>12, <2>1, MoveType DEF Publish, CallerPcs
  <2> QED BY <1>1, <1>4, <1>12, <2>4, <2>5, TypeJoin DEF Publish, Bump
<1>13. CASE Dec(c)
  <2>1. CallType'
    BY <1>0, <1>3, <1>13, Sizes, MoveType DEF Dec, CallerPcs
  <2>2. TcType'
    BY <1>0, <1>2, <1>13 DEF Dec, TcType
  <2> QED BY <1>1, <1>4, <1>13, <2>1, <2>2, TypeJoin DEF Dec, Bump
<1> QED
  BY <1>5, <1>6, <1>7, <1>8, <1>9, <1>10, <1>11, <1>12, <1>13 DEF CallerStep

LEMMA ThreadTypeStep == ASSUME TypeOK, ThreadStep PROVE TypeOK'
<1>0. SessType /\ TcType /\ CallType /\ ThrType /\ HistType
  BY TypeSplit
<1>1. SessType' /\ CallType'
  BY <1>0, SessUntouched, CallUntouched
     DEF ThreadStep, Visit, NextBuffer, PrintOne, BufferDone, WipeClaim, WipeSize, WipeLogSize,
         NextWipe
<1>2. CASE Visit
  BY <1>0, <1>1, <1>2, TcUntouched, HistUntouched, TypeJoin, Sizes DEF Visit, ThrType
<1>3. CASE NextBuffer
  <2>1. bj \in Buffers /\ bpc = "buffer"
    BY <1>0, <1>3, Sizes DEF NextBuffer, ThrType, Buffers
  <2>2. tc_logsize[bj] \in TcSlots
    BY <1>0, <2>1 DEF TcType
  <2>3. ThrType'
    BY <1>0, <1>3, <2>1, <2>2, Sizes DEF NextBuffer, ThrType
  <2> QED BY <1>0, <1>1, <1>3, <2>3, TcUntouched, HistUntouched, TypeJoin DEF NextBuffer
<1>4. CASE PrintOne
  <2>1. bj \in Buffers /\ bpc = "print"
    BY <1>0, <1>4, Sizes DEF PrintOne, ThrType, Buffers
  <2>2. tc_logsize[bj] \in TcSlots
    BY <1>0, <2>1 DEF TcType
  <2>3. ThrType'
    BY <1>0, <1>4, <2>1, <2>2 DEF PrintOne, ThrType
  <2>4. HistType'
    <3> DEFINE e == tc_log[bj][bi]
    <3>1. printed' \subseteq printed \cup ({e} \ {NoEvent})
      BY <1>4 DEF PrintOne
    <3>3. bi \in TcSlots
      BY <1>0, <1>4, TcAssumption DEF PrintOne, ThrType, TcSlots, TcAssumption
    <3>4. e \in Event \cup {NoEvent}
      BY <1>0, <2>1, <3>3 DEF TcType
    <3>2. printed' \subseteq Event
      BY <1>0, <3>1, <3>4 DEF HistType
    <3>5. UNCHANGED <<fate, passed, wiped, zeroed>>
      BY <1>4 DEF PrintOne
    <3> QED BY <1>0, <3>2, <3>5 DEF HistType
  <2> QED BY <1>0, <1>1, <1>4, <2>3, <2>4, TcUntouched, TypeJoin DEF PrintOne
<1>5. CASE BufferDone
  <2>1. bj \in Buffers /\ bj + 1 \in 0..NB /\ bpc = "print"
    BY <1>0, <1>5, Sizes DEF BufferDone, ThrType, Buffers
  <2>2. /\ passed' = [passed EXCEPT ![bj] = bsize]
        /\ bj' = bj + 1 /\ bi' = 0 /\ bsize' = 0
        /\ bpc' \in {"wipe", "buffer"}
    BY <1>5 DEF BufferDone
  <2>3. ThrType'
    BY <2>1, <2>2, Sizes DEF ThrType
  <2>4. HistType'
    <3>1. UNCHANGED <<printed, fate, wiped, zeroed>>
      BY <1>5 DEF BufferDone
    <3> QED BY <1>0, <2>2, <3>1 DEF HistType, ThrType
  <2> QED BY <1>0, <1>1, <1>5, <2>3, <2>4, TcUntouched, TypeJoin DEF BufferDone
<1>6. CASE WipeClaim
  <2>1. bi \in Buffers /\ bi < NB
    BY <1>0, <1>6, Sizes DEF WipeClaim, ThrType, Buffers
  <2>2. TcType'
    <3>1. aiotc' = [aiotc EXCEPT ![bi] = 0] /\ UNCHANGED <<tc_size, tc_logsize, tc_log>>
      BY <1>6 DEF WipeClaim
    <3>2. aiotc \in [Buffers -> Int] /\ 0 \in Int
      BY <1>0 DEF TcType
    <3>3. aiotc' \in [Buffers -> Int]
      BY <3>1, <3>2
    <3> QED BY <1>0, <3>1, <3>3 DEF TcType
  <2>3. ThrType'
    BY <1>0, <1>6, <2>1 DEF WipeClaim, ThrType
  <2>4. wiped' \in BOOLEAN
    BY <1>6 DEF WipeClaim
  <2>5. HistType'
    <3>1. UNCHANGED <<printed, fate, passed, zeroed>>
      BY <1>6 DEF WipeClaim
    <3> QED BY <1>0, <2>4, <3>1 DEF HistType
  <2> QED BY <1>1, <2>2, <2>3, <2>5, TypeJoin
<1>7. CASE WipeSize
  <2>1. bi \in Buffers /\ bi < NB
    BY <1>0, <1>7, Sizes DEF WipeSize, ThrType, Buffers
  <2>2. TcType'
    BY <1>0, <1>7, Sizes DEF WipeSize, TcType
  <2>3. ThrType'
    BY <1>0, <1>7, <2>1 DEF WipeSize, ThrType
  <2>4. wiped' \in BOOLEAN
    BY <1>7 DEF WipeSize
  <2>5. HistType'
    <3>1. UNCHANGED <<printed, fate, zeroed>> /\ passed' = [passed EXCEPT ![bi] = 0]
      BY <1>7 DEF WipeSize
    <3> QED BY <1>0, <2>1, <2>4, <3>1, Sizes DEF HistType
  <2> QED BY <1>1, <2>2, <2>3, <2>5, TypeJoin
<1>8. CASE WipeLogSize
  <2>1. bi + 1 \in Nat
    BY <1>0 DEF ThrType
  <2>2. TcType'
    BY <1>0, <1>8, Sizes DEF WipeLogSize, TcType
  <2>3. ThrType'
    BY <1>0, <1>8, <2>1, Sizes DEF WipeLogSize, NextWipe, ThrType
  <2>4. HistType'
    BY <1>0, <1>8, HistUntouched DEF WipeLogSize
  <2> QED BY <1>1, <2>2, <2>3, <2>4, TypeJoin
<1> QED
  BY <1>2, <1>3, <1>4, <1>5, <1>6, <1>7, <1>8 DEF ThreadStep

LEMMA TypeStep == TypeOK /\ [Next]_vars => TypeOK'
<1> SUFFICES ASSUME TypeOK, [Next]_vars PROVE TypeOK'
  OBVIOUS
<1>0. SessType /\ TcType /\ CallType /\ ThrType /\ HistType
  BY TypeSplit
<1>1. CASE Switch
  <2>1. nswitch + 1 \in 0..MaxSwitch
    BY <1>0, <1>1, TcAssumption DEF Switch, SessType, TcAssumption
  <2>2. SessType'
    BY <1>0, <1>1, <2>1 DEF Switch, SessType
  <2> QED
    BY <1>0, <1>1, <2>2, TcUntouched, CallUntouched, ThrUntouched, HistUntouched, TypeJoin
       DEF Switch
<1>2. ASSUME NEW h \in ScsiTasks, ScsiStop(h) PROVE TypeOK'
  <2>1. SessType'
    BY <1>0, <1>2, Sizes DEF ScsiStop, SessType, sessVars
  <2> QED
    BY <1>0, <1>2, <2>1, TcUntouched, CallUntouched, ThrUntouched, HistUntouched, TypeJoin
       DEF ScsiStop
<1>3. ASSUME NEW h \in ScsiTasks, ScsiZero(h) PROVE TypeOK'
  <2>1. zpc[h] + 1 \in 0..NB
    BY <1>0, <1>3, Sizes DEF ScsiZero, SessType
  <2>2. SessType'
    BY <1>0, <1>3, <2>1 DEF ScsiZero, SessType
  <2>3. TcType'
    BY <1>0, <1>3, Sizes DEF ScsiZero, TcType
  <2>4. zeroed' \in BOOLEAN
    BY <1>3 DEF ScsiZero
  <2>5. HistType'
    <3>1. UNCHANGED <<printed, fate, passed, wiped>>
      BY <1>3 DEF ScsiZero
    <3> QED BY <1>0, <2>4, <3>1 DEF HistType
  <2> QED
    BY <1>0, <1>3, <2>2, <2>3, <2>5, CallUntouched, ThrUntouched, TypeJoin DEF ScsiZero
<1>4. CASE ScsiRestart
  <2>1. SessType'
    BY <1>0, <1>4 DEF ScsiRestart, SessType
  <2> QED
    BY <1>0, <1>4, <2>1, TcUntouched, CallUntouched, ThrUntouched, HistUntouched, TypeJoin
       DEF ScsiRestart
<1>5. ASSUME NEW c \in Callers, Call(c) PROVE TypeOK'
  <2>1. calls[c] + 1 \in 0..MaxCalls /\ calls[c] + 1 > 0
    BY <1>0, <1>5, TcAssumption DEF Call, CallType, TcAssumption
  <2>2. CallType'
    BY <1>0, <1>5, <2>1 DEF Call, CallType, Goto, CallerPcs
  <2> QED
    BY <1>0, <1>5, <2>2, SessUntouched, TcUntouched, ThrUntouched, HistUntouched, TypeJoin
       DEF Call
<1>6. ASSUME UNCHANGED vars PROVE TypeOK'
  BY <1>0, <1>6, SessUntouched, TcUntouched, CallUntouched, ThrUntouched, HistUntouched,
     TypeJoin DEF vars
<1> QED
  BY <1>1, <1>2, <1>3, <1>4, <1>5, <1>6, CallerTypeStep, ThreadTypeStep DEF Next

LEMMA TypeInit == Init => TypeOK
<1> SUFFICES ASSUME Init PROVE TypeOK
  OBVIOUS
<1>1. MaxCalls \in Nat /\ MaxSwitch \in Nat
  BY TcAssumption DEF TcAssumption
<1>2. SessType
  <2>1. NB \in 0..NB
    BY Sizes
  <2>2. zpc \in [ScsiTasks -> 0..NB]
    BY <2>1 DEF Init
  <2>3. running = FALSE /\ nswitch = 0 /\ flag1 = 0
    BY DEF Init
  <2>4. 0 \in 0..MaxSwitch
    BY <1>1
  <2> QED BY <2>2, <2>3, <2>4 DEF SessType
<1>3. TcType
  BY Sizes DEF Init, TcType
<1>4. CallType
  <2>1. pc \in [Callers -> CallerPcs] /\ \A c \in Callers : pc[c] = "idle"
    BY DEF Init, CallerPcs
  <2>2. calls \in [Callers -> 0..MaxCalls] /\ buf \in [Callers -> Buffers] /\ tmp \in [Callers -> Nat]
    BY <1>1, Sizes DEF Init
  <2> QED BY <2>1, <2>2 DEF CallType
<1>5. ThrType
  BY Sizes DEF Init, ThrType
<1>6. HistType
  <2>1. printed \subseteq Event /\ fate \in [Event -> {"none", "stored", "dropped"}]
    BY DEF Init
  <2>2. passed \in [Buffers -> TcSlots]
    BY Sizes DEF Init
  <2>3. wiped = FALSE /\ zeroed = FALSE
    BY DEF Init
  <2> QED BY <2>1, <2>2, <2>3 DEF HistType
<1> QED
  BY <1>2, <1>3, <1>4, <1>5, <1>6 DEF TypeOK, SessType, TcType, CallType, ThrType, HistType

\* For buffers of any number and size, no task and no reset ever brings a size
\* past the last slot but one, so no record is written outside its buffer (the
\* test against TCMAX in set_tclog).
THEOREM TcTypeCorrect == Spec => []TypeOK
  BY TypeInit, TypeStep, PTL DEF Spec

-----------------------------------------------------------------------------
(* The claim on a buffer.                                                  *)

LEMMA AtIsFinite ==
    ASSUME NEW S, NEW b
    PROVE  /\ IsFiniteSet(At(S, b)) /\ Cardinality(At(S, b)) \in Nat
           /\ IsFiniteSet(At(S, b)') /\ Cardinality(At(S, b)') \in Nat
<1>1. At(S, b) \in SUBSET Callers /\ At(S, b)' \in SUBSET Callers
  BY DEF At
<1> QED
  BY <1>1, TcAssumption, FS_Subset, FS_CardinalityType DEF TcAssumption

\* Only the task that takes a step joins or leaves the tasks at a buffer.
OnlyMoves(c) == \A d \in Callers \ {c} : pc'[d] = pc[d] /\ buf'[d] = buf[d]

LEMMA AtCount ==
    ASSUME NEW c \in Callers, OnlyMoves(c), NEW S, NEW b
    PROVE  Cardinality(At(S, b)') =
             Cardinality(At(S, b)) + (IF c \in At(S, b)' THEN 1 ELSE 0)
                                   - (IF c \in At(S, b) THEN 1 ELSE 0)
<1>1. CASE c \in At(S, b)'
  <2>1. At(S, b)' = At(S, b) \cup {c}
    BY <1>1 DEF At, OnlyMoves
  <2>2. Cardinality(At(S, b) \cup {c}) =
          IF c \in At(S, b) THEN Cardinality(At(S, b)) ELSE Cardinality(At(S, b)) + 1
    BY AtIsFinite, FS_AddElement
  <2> QED BY <1>1, <2>1, <2>2, AtIsFinite
<1>2. CASE c \notin At(S, b)'
  <2>1. At(S, b)' = At(S, b) \ {c}
    BY <1>2 DEF At, OnlyMoves
  <2>2. Cardinality(At(S, b) \ {c}) =
          IF c \in At(S, b) THEN Cardinality(At(S, b)) - 1 ELSE Cardinality(At(S, b))
    BY AtIsFinite, FS_RemoveElement
  <2> QED BY <1>2, <2>1, <2>2, AtIsFinite
<1> QED
  BY <1>1, <1>2

\* The claim on one buffer, as TcClaimIsExclusive states it for all.
Claimed(b) ==
    /\ aiotc[b] = Cardinality(At(Holding, b))
    /\ \A c, d \in At(Writing, b) : c = d

\* A step of a task that neither enters nor leaves a claim, nor starts to write.
LEMMA ClaimUntouched ==
    ASSUME NEW b \in Buffers, Claimed(b), NEW c \in Callers, OnlyMoves(c), UNCHANGED aiotc,
           c \in At(Holding, b)' <=> c \in At(Holding, b),
           c \in At(Writing, b)' => c \in At(Writing, b)
    PROVE  Claimed(b)'
<1>1. Cardinality(At(Holding, b)') = Cardinality(At(Holding, b))
  BY AtCount, AtIsFinite
<1>2. At(Writing, b)' \subseteq At(Writing, b)
  BY DEF At, OnlyMoves
<1> QED
  BY <1>1, <1>2 DEF Claimed

LEMMA CallerClaimStep ==
    ASSUME TypeOK, NEW b \in Buffers, Claimed(b), NEW c \in Callers,
           CallerStep(c) \/ Call(c)
    PROVE  Claimed(b)'
<1>0. /\ pc \in [Callers -> CallerPcs] /\ buf \in [Callers -> Buffers]
      /\ aiotc \in [Buffers -> Int] /\ buf[c] \in Buffers
  BY DEF TypeOK
<1> USE DEF Goto
<1>1. OnlyMoves(c)
  BY <1>0 DEF OnlyMoves, CallerStep, Call, Pick, Inc, Test, Back, Write, Load, Bump, Publish, Dec
<1>2. CASE Call(c) \/ Pick(c)
  <2>1. pc[c] \in {"idle", "pick"} /\ pc'[c] \in {"pick", "inc"} /\ UNCHANGED aiotc
    BY <1>0, <1>2 DEF Call, Pick, tcVars
  <2>2. c \notin At(Holding, b)' /\ c \notin At(Holding, b) /\ c \notin At(Writing, b)'
    BY <2>1 DEF At, Holding, Writing
  <2> QED BY <1>1, <2>1, <2>2, ClaimUntouched
<1>3. CASE Write(c) \/ Load(c) \/ Bump(c) \/ Publish(c)
  <2>1. /\ pc[c] \in Writing /\ pc'[c] \in {"load", "bump", "publish", "dec"}
        /\ buf' = buf /\ UNCHANGED aiotc
    BY <1>0, <1>3 DEF Write, Load, Bump, Publish, tcVars, Writing
  <2>2. c \in At(Holding, b)' <=> c \in At(Holding, b)
    BY <2>1 DEF At, Holding, Writing
  <2>3. c \in At(Writing, b)' => c \in At(Writing, b)
    BY <2>1 DEF At
  <2> QED BY <1>1, <2>1, <2>2, <2>3, ClaimUntouched
<1>4. CASE Inc(c)
  <2>1. /\ pc[c] = "inc" /\ pc'[c] = "test" /\ buf' = buf
        /\ aiotc' = [aiotc EXCEPT ![buf[c]] = @ + 1]
    BY <1>0, <1>4 DEF Inc
  <2>2. c \notin At(Holding, b) /\ (c \in At(Holding, b)' <=> buf[c] = b)
    BY <2>1 DEF At, Holding
  <2>3. aiotc'[b] = aiotc[b] + (IF buf[c] = b THEN 1 ELSE 0)
    BY <1>0, <2>1
  <2>4. Cardinality(At(Holding, b)') = Cardinality(At(Holding, b)) + (IF buf[c] = b THEN 1 ELSE 0)
    BY <1>1, <2>2, AtCount, AtIsFinite
  <2>5. At(Writing, b)' \subseteq At(Writing, b)
    BY <1>1, <2>1 DEF At, OnlyMoves, Writing
  <2> QED BY <2>3, <2>4, <2>5 DEF Claimed
<1>5. CASE Back(c) \/ Dec(c)
  <2>1. /\ pc[c] \in {"back", "dec"} /\ pc'[c] \in {"inc", "idle"}
        /\ aiotc' = [aiotc EXCEPT ![buf[c]] = @ - 1]
    BY <1>0, <1>5 DEF Back, Dec
  <2>2. c \notin At(Holding, b)' /\ (c \in At(Holding, b) <=> buf[c] = b)
    BY <2>1 DEF At, Holding
  <2>3. aiotc'[b] = aiotc[b] - (IF buf[c] = b THEN 1 ELSE 0)
    BY <1>0, <2>1
  <2>4. Cardinality(At(Holding, b)') = Cardinality(At(Holding, b)) - (IF buf[c] = b THEN 1 ELSE 0)
    BY <1>1, <2>2, AtCount, AtIsFinite
  <2>5. At(Writing, b)' \subseteq At(Writing, b)
    BY <1>1, <2>1 DEF At, OnlyMoves, Writing
  <2> QED BY <2>3, <2>4, <2>5 DEF Claimed
<1>6. CASE Test(c)
  <2>1. pc[c] = "test" /\ buf' = buf /\ UNCHANGED aiotc
    BY <1>6 DEF Test, tcVars
  <2>2. pc'[c] = IF aiotc[buf[c]] # 1 THEN "back" ELSE "write"
    BY <1>0, <1>6 DEF Test
  <2>3. c \in At(Holding, b)' <=> c \in At(Holding, b)
    BY <2>1, <2>2 DEF At, Holding
  <2>4. CASE aiotc[buf[c]] # 1 \/ buf[c] # b
    <3>1. c \notin At(Writing, b)'
      BY <2>1, <2>2, <2>4 DEF At, Writing
    <3> QED BY <1>1, <2>1, <2>3, <3>1, ClaimUntouched
  <2>5. CASE aiotc[buf[c]] = 1 /\ buf[c] = b
    <3>1. Cardinality(At(Holding, b)') = Cardinality(At(Holding, b))
      BY <1>1, <2>3, AtCount, AtIsFinite
    <3>2. PICK x : At(Holding, b) = {x}
      BY <2>5, AtIsFinite, FS_Singleton DEF Claimed
    <3>3. c \in At(Holding, b)
      BY <2>1, <2>5 DEF At, Holding
    <3>4. At(Writing, b)' \subseteq {c}
      <4>1. At(Writing, b)' \ {c} \subseteq At(Writing, b)
        BY <1>1 DEF At, OnlyMoves
      <4>2. At(Writing, b) \subseteq At(Holding, b)
        BY DEF At, Writing, Holding
      <4> QED BY <3>2, <3>3, <4>1, <4>2
    <3> QED BY <2>1, <3>1, <3>4 DEF Claimed
  <2> QED BY <2>4, <2>5
<1> QED
  BY <1>2, <1>3, <1>4, <1>5, <1>6 DEF CallerStep

LEMMA ClaimStep == TypeOK /\ TcClaimIsExclusive /\ [Next]_vars => TcClaimIsExclusive'
<1> SUFFICES ASSUME TypeOK, TcClaimIsExclusive, [Next]_vars, ~wiped', NEW b \in Buffers
             PROVE  Claimed(b)'
  BY DEF TcClaimIsExclusive, Claimed
<1>1. ASSUME UNCHANGED <<pc, buf, aiotc>>, ~wiped PROVE Claimed(b)'
  BY <1>1 DEF TcClaimIsExclusive, Claimed, At
<1>2. CASE UNCHANGED vars
  BY <1>1, <1>2 DEF vars, callVars, tcVars, histVars
<1>3. CASE Switch \/ ScsiRestart \/ \E h \in ScsiTasks : ScsiStop(h) \/ ScsiZero(h)
  BY <1>1, <1>3 DEF Switch, ScsiRestart, ScsiStop, ScsiZero, callVars, tcVars, histVars
<1>4. ASSUME NEW c \in Callers, Call(c) \/ CallerStep(c) PROVE Claimed(b)'
  <2>1. wiped' = wiped
    BY <1>4 DEF Call, CallerStep, Pick, Inc, Test, Back, Write, Load, Bump, Publish, Dec,
                histVars
  <2>2. Claimed(b)
    BY <2>1 DEF TcClaimIsExclusive, Claimed
  <2> QED BY <1>4, <2>2, CallerClaimStep
<1>5. CASE Visit \/ NextBuffer \/ PrintOne \/ BufferDone
  BY <1>1, <1>5 DEF Visit, NextBuffer, PrintOne, BufferDone, callVars, tcVars, histVars
<1>6. CASE WipeClaim
  <2>1. /\ ~wiped /\ At(Holding, bi) = {} /\ aiotc' = [aiotc EXCEPT ![bi] = 0]
        /\ UNCHANGED <<pc, buf>>
    BY <1>6 DEF WipeClaim, callVars
  <2>2. At(Holding, b)' = At(Holding, b) /\ At(Writing, b)' = At(Writing, b)
    BY <2>1 DEF At
  <2>3. aiotc'[b] = IF b = bi THEN 0 ELSE aiotc[b]
    BY <2>1 DEF TypeOK
  <2>4. aiotc[b] = Cardinality(At(Holding, b)) /\ \A c, d \in At(Writing, b) : c = d
    BY <2>1 DEF TcClaimIsExclusive
  <2>5. aiotc'[b] = Cardinality(At(Holding, b))
    BY <2>1, <2>3, <2>4, FS_EmptySet
  <2> QED BY <2>2, <2>4, <2>5 DEF Claimed
<1>7. CASE WipeSize
  <2>1. ~wiped /\ UNCHANGED <<pc, buf, aiotc>>
    BY <1>7 DEF WipeSize, callVars
  <2> QED BY <1>1, <2>1
<1>8. CASE WipeLogSize
  BY <1>1, <1>8 DEF WipeLogSize, callVars, histVars
<1> QED
  BY <1>2, <1>3, <1>4, <1>5, <1>6, <1>7, <1>8 DEF Next, ThreadStep

LEMMA ClaimInit == Init => TcClaimIsExclusive
<1> SUFFICES ASSUME Init, NEW b \in Buffers PROVE Claimed(b)
  BY DEF TcClaimIsExclusive, Claimed
<1>1. At(Holding, b) = {} /\ At(Writing, b) = {}
  BY DEF Init, At, Holding, Writing
<1>2. aiotc[b] = 0
  BY DEF Init
<1> QED
  BY <1>1, <1>2, FS_EmptySet DEF Claimed

\* Until set_tc_size resets a claim that somebody holds, every counter of
\* set_tclog is a correct try-lock on its buffer, for any number of tasks and
\* buffers.
THEOREM TcClaimExclusive == Spec => []TcClaimIsExclusive
<1>1. Init => TypeOK /\ TcClaimIsExclusive
  BY TypeInit, ClaimInit
<1>2. TypeOK /\ TcClaimIsExclusive /\ [Next]_vars => (TypeOK /\ TcClaimIsExclusive)'
  BY TypeStep, ClaimStep
<1> QED
  BY <1>1, <1>2, PTL DEF Spec

-----------------------------------------------------------------------------
(* Losses.                                                                 *)

\* What the last theorem assumes: print_tc can always open its file.
FilesOpen == OpenMayFail = FALSE

After(n) == n + (IF Fits(n) THEN 1 ELSE 0)

\* The copy of a size never exceeds it, except between the thread's resets of
\* the two, and the slots below the size hold records.
SizesAgree(b) ==
    /\ ~(bpc = "wipelog" /\ b = bi) => tc_logsize[b] <= tc_size[b]
    /\ \A s \in TcSlots : s < tc_size[b] => tc_log[b][s] \in Event

\* What a writing task has stored and loaded so far.
StoredAt(c) ==
    /\ pc[c] \in {"load", "bump"} => tc_log[buf[c]][tc_size[buf[c]]] = Me(c)
    /\ pc[c] = "bump" => tmp[c] = tc_size[buf[c]]
    /\ pc[c] = "publish" => tc_size[buf[c]] = After(tmp[c])
    /\ pc[c] = "publish" /\ Fits(tmp[c]) => tc_log[buf[c]][tmp[c]] = Me(c)
    /\ pc[c] = "publish" /\ fate[Me(c)] = "stored" => Fits(tmp[c])

\* Buffers the thread went past in this visit and has not reset yet.
Seen(b) == \/ bpc \in {"buffer", "print"} /\ b < bj
           \/ bpc \in {"wipe", "wipesize"} /\ b >= bi
           \/ bpc = "wipelog" /\ b > bi
Printed(b, n) == \A s \in TcSlots : s < n => tc_log[b][s] \in printed
PrintedFirst(b) ==
    /\ Seen(b) => passed[b] <= tc_logsize[b] /\ Printed(b, passed[b])
    /\ bpc = "print" /\ b = bj =>
          bi <= tc_logsize[b] /\ bsize <= tc_logsize[b] /\ Printed(b, bi)

Kept ==
    /\ \A b \in Buffers : SizesAgree(b) /\ PrintedFirst(b)
    /\ \A c \in Callers : StoredAt(c)
    /\ bpc \in {"poll", "buffer"} => bi = 0

TcInv == TypeOK /\ TcClaimIsExclusive /\ (~wiped /\ ~zeroed => Kept)

LEMMA TcTypes ==
    ASSUME TypeOK
    PROVE  /\ pc \in [Callers -> CallerPcs] /\ buf \in [Callers -> Buffers]
           /\ tmp \in [Callers -> Nat] /\ calls \in [Callers -> 0..MaxCalls]
           /\ tc_size \in [Buffers -> TcSlots] /\ tc_logsize \in [Buffers -> TcSlots]
           /\ tc_log \in [Buffers -> [TcSlots -> Event \cup {NoEvent}]]
           /\ printed \subseteq Event /\ passed \in [Buffers -> TcSlots]
           /\ fate \in [Event -> {"none", "stored", "dropped"}]
           /\ bi \in Nat /\ bj \in 0..NB /\ bsize \in TcSlots
           /\ wiped \in BOOLEAN /\ zeroed \in BOOLEAN
  BY DEF TypeOK

LEMMA TcNumbers ==
    ASSUME TypeOK
    PROVE  /\ \A b \in Buffers : tc_size[b] \in Nat /\ tc_logsize[b] \in Nat /\ passed[b] \in Nat
           /\ \A s \in TcSlots : s \in Nat
           /\ bi \in Nat /\ bj \in Nat /\ bsize \in Nat /\ NB \in Nat \ {0}
           /\ \A e \in Event : e # NoEvent
<1>1. \A s \in TcSlots : s \in Nat
  BY DEF TcSlots
<1>2. \A e \in Event : e # NoEvent
  BY DEF Event, NoEvent
<1>3. bj \in Nat
  BY TcTypes, Sizes
<1> QED BY <1>1, <1>2, <1>3, TcTypes, Sizes

LEMMA CallerHasEvent == ASSUME TypeOK, NEW c \in Callers, pc[c] # "idle" PROVE Me(c) \in Event
  BY TypeSplit, MeIsEvent

\* Nobody else is writing where a task writes.
LEMMA WriterIsAlone ==
    ASSUME TypeOK, TcClaimIsExclusive, ~wiped,
           NEW c \in Callers, pc[c] \in Writing,
           NEW d \in Callers \ {c}, buf[d] = buf[c]
    PROVE  pc[d] \notin Writing
<1>1. buf[c] \in Buffers
  BY TcTypes
<1>2. c \in At(Writing, buf[c]) /\ (pc[d] \in Writing => d \in At(Writing, buf[c]))
  BY DEF At
<1> QED BY <1>1, <1>2 DEF TcClaimIsExclusive

\* Where the thread has been or is, the copy does not exceed the size.
LEMMA CopyBehind ==
    ASSUME Kept, NEW b \in Buffers, Seen(b) \/ (bpc = "print" /\ b = bj)
    PROVE  tc_logsize[b] <= tc_size[b]
<1>1. ~(bpc = "wipelog" /\ b = bi)
  BY Sizes DEF Seen
<1> QED BY <1>1 DEF Kept, SizesAgree

\* A task that writes nothing shared.
LEMMA KeptMove ==
    ASSUME TypeOK, Kept, NEW c \in Callers, OnlyMoves(c),
           UNCHANGED <<tc_size, tc_logsize, tc_log, thrVars, printed, passed, fate>>,
           \A d \in Callers \ {c} : tmp'[d] = tmp[d] /\ calls'[d] = calls[d],
           pc'[c] \notin {"load", "bump", "publish"}
    PROVE  Kept'
<1>1. \A b \in Buffers : SizesAgree(b)' /\ PrintedFirst(b)'
  BY DEF Kept, SizesAgree, PrintedFirst, Seen, Printed, thrVars
<1>2. \A d \in Callers : StoredAt(d)'
  BY DEF Kept, StoredAt, OnlyMoves, Me
<1> QED BY <1>1, <1>2 DEF Kept, thrVars

LEMMA KeptCaller ==
    ASSUME TypeOK, TcClaimIsExclusive, ~wiped, Kept, NEW c \in Callers, CallerStep(c) \/ Call(c)
    PROVE  Kept'
<1> USE DEF Goto
<1>0. /\ pc \in [Callers -> CallerPcs] /\ buf \in [Callers -> Buffers] /\ buf[c] \in Buffers
      /\ tmp \in [Callers -> Nat] /\ calls \in [Callers -> 0..MaxCalls]
      /\ tc_size \in [Buffers -> TcSlots] /\ tc_logsize \in [Buffers -> TcSlots]
      /\ tc_log \in [Buffers -> [TcSlots -> Event \cup {NoEvent}]]
      /\ TcSlots \subseteq Nat /\ tc_size[buf[c]] \in TcSlots
  BY TcTypes, Sizes
<1>1. OnlyMoves(c)
  BY <1>0 DEF OnlyMoves, CallerStep, Call, Pick, Inc, Test, Back, Write, Load, Bump, Publish, Dec
<1>2. \A d \in Callers \ {c} : tmp'[d] = tmp[d] /\ calls'[d] = calls[d]
  BY <1>0 DEF CallerStep, Call, Pick, Inc, Test, Back, Write, Load, Bump, Publish, Dec
<1>3. CASE Call(c) \/ Pick(c) \/ Inc(c) \/ Test(c) \/ Back(c) \/ Dec(c)
  <2>1. pc'[c] \notin {"load", "bump", "publish"}
    BY <1>0, <1>3 DEF Call, Pick, Inc, Test, Back, Dec
  <2>2. UNCHANGED <<tc_size, tc_logsize, tc_log, thrVars, printed, passed, fate>>
    BY <1>3 DEF Call, Pick, Inc, Test, Back, Dec, tcVars, histVars
  <2> QED BY <1>1, <1>2, <2>1, <2>2, KeptMove
<1>4. ASSUME pc[c] \in Writing, NEW d \in Callers \ {c}, buf[d] = buf[c]
      PROVE  pc[d] \notin {"load", "bump", "publish"}
  BY <1>4, WriterIsAlone DEF Writing
<1>5. CASE Write(c)
  <2>1. /\ pc[c] = "write" /\ pc' = [pc EXCEPT ![c] = "load"]
        /\ tc_log' = [tc_log EXCEPT ![buf[c]][tc_size[buf[c]]] = Me(c)]
        /\ UNCHANGED <<tc_size, tc_logsize, calls, buf, tmp, thrVars, printed, passed, fate>>
    BY <1>5 DEF Write, histVars
  <2>2. ASSUME NEW b \in Buffers, NEW s \in TcSlots, s < tc_size[b]
        PROVE  tc_log'[b][s] = tc_log[b][s]
    BY <1>0, <2>1, <2>2
  <2>3. ASSUME NEW b \in Buffers PROVE SizesAgree(b)'
    BY <2>1, <2>2 DEF Kept, SizesAgree, thrVars
  <2>4. ASSUME NEW b \in Buffers PROVE PrintedFirst(b)'
    <3> SUFFICES ASSUME Seen(b) \/ (bpc = "print" /\ b = bj) PROVE PrintedFirst(b)'
      BY <2>1 DEF PrintedFirst, Seen, thrVars
    <3>1. tc_logsize[b] <= tc_size[b] /\ tc_size[b] \in Nat /\ tc_logsize[b] \in Nat
      BY TcNumbers, CopyBehind
    <3>2. ASSUME NEW s \in TcSlots, s < tc_logsize[b] PROVE tc_log'[b][s] = tc_log[b][s]
      <4>1. s < tc_size[b]
        BY <1>0, <3>1, <3>2
      <4> QED BY <2>2, <4>1
    <3>3. ASSUME NEW n \in Nat, n <= tc_logsize[b], Printed(b, n)
          PROVE  \A s \in TcSlots : s < n => tc_log'[b][s] \in printed'
      BY <1>0, <2>1, <3>1, <3>2, <3>3 DEF Printed
    <3>4. passed[b] \in Nat /\ bi \in Nat
      BY TcTypes, Sizes
    <3> QED BY <2>1, <3>3, <3>4 DEF Kept, PrintedFirst, Seen, Printed, thrVars
  <2>5. ASSUME NEW d \in Callers \ {c} PROVE StoredAt(d)'
    <3>1. CASE buf[d] = buf[c]
      BY <1>0, <1>4, <2>1, <3>1 DEF StoredAt, Writing
    <3>2. CASE buf[d] # buf[c]
      <4>1. buf[d] \in Buffers /\ tc_log'[buf[d]] = tc_log[buf[d]] /\ pc'[d] = pc[d]
        BY <1>0, <2>1, <3>2
      <4> QED BY <2>1, <4>1 DEF Kept, StoredAt, Me
    <3> QED BY <3>1, <3>2
  <2>6. StoredAt(c)'
    <3>1. tc_log'[buf[c]][tc_size[buf[c]]] = Me(c) /\ pc'[c] = "load"
      BY <1>0, <2>1
    <3> QED BY <2>1, <3>1 DEF StoredAt, Me
  <2> QED BY <2>1, <2>3, <2>4, <2>5, <2>6 DEF Kept, thrVars
<1>6. CASE Load(c)
  <2>1. /\ pc[c] = "load" /\ pc' = [pc EXCEPT ![c] = "bump"]
        /\ tmp' = [tmp EXCEPT ![c] = tc_size[buf[c]]]
        /\ UNCHANGED <<tc_size, tc_logsize, tc_log, calls, buf, thrVars, printed, passed, fate>>
    BY <1>6 DEF Load, tcVars, histVars
  <2>2. \A b \in Buffers : SizesAgree(b)' /\ PrintedFirst(b)'
    BY <2>1 DEF Kept, SizesAgree, PrintedFirst, Seen, Printed, thrVars
  <2>3. \A d \in Callers : StoredAt(d)'
    BY <1>0, <2>1 DEF Kept, StoredAt, Me
  <2> QED BY <2>1, <2>2, <2>3 DEF Kept, thrVars
<1>7. CASE Bump(c)
  <2>1. /\ pc[c] = "bump" /\ pc' = [pc EXCEPT ![c] = "publish"]
        /\ UNCHANGED <<tc_logsize, tc_log, calls, buf, tmp, thrVars, printed, passed>>
    BY <1>7 DEF Bump
  <2>2. /\ tmp[c] = tc_size[buf[c]] /\ tc_log[buf[c]][tc_size[buf[c]]] = Me(c)
        /\ Me(c) \in Event
    BY <2>1, CallerHasEvent DEF Kept, StoredAt
  <2>3. tc_size' = [tc_size EXCEPT ![buf[c]] = After(tmp[c])]
    <3>1. CASE Fits(tmp[c])
      BY <1>7, <3>1 DEF Bump, After
    <3>2. CASE ~Fits(tmp[c])
      <4>1. tc_size' = tc_size /\ After(tmp[c]) = tmp[c]
        BY <1>0, <1>7, <3>2 DEF Bump, After
      <4> QED BY <1>0, <2>2, <4>1
    <3> QED BY <3>1, <3>2
  <2>4. fate' = [fate EXCEPT ![Me(c)] = IF Fits(tmp[c]) THEN "stored" ELSE "dropped"]
    BY <1>7 DEF Bump
  <2>5. ASSUME NEW b \in Buffers PROVE SizesAgree(b)'
    <3>1. CASE b # buf[c]
      <4>1. tc_size'[b] = tc_size[b]
        BY <1>0, <2>3, <3>1
      <4> QED BY <2>1, <4>1 DEF Kept, SizesAgree, thrVars
    <3>2. CASE b = buf[c]
      <4>1. tc_size'[b] = After(tc_size[b]) /\ tc_size[b] \in Nat /\ tc_logsize[b] \in Nat
        BY <1>0, <2>2, <2>3, <3>2
      <4>2. tc_size'[b] \in {tc_size[b], tc_size[b] + 1}
        BY <4>1 DEF After
      <4>3. tc_log[b][tc_size[b]] \in Event
        BY <2>2, <3>2
      <4>4. /\ ~(bpc = "wipelog" /\ b = bi) => tc_logsize[b] <= tc_size[b]
            /\ \A s \in TcSlots : s < tc_size[b] => tc_log[b][s] \in Event
        BY DEF Kept, SizesAgree
      <4>5. ~(bpc = "wipelog" /\ b = bi)' => tc_logsize[b] <= tc_size'[b]
        BY <2>1, <4>1, <4>2, <4>4 DEF thrVars
      <4>6. ASSUME NEW s \in TcSlots, s < tc_size'[b] PROVE tc_log[b][s] \in Event
        <5>1. s < tc_size[b] \/ s = tc_size[b]
          BY TcNumbers, <4>1, <4>2, <4>6
        <5> QED BY <4>3, <4>4, <5>1
      <4> QED BY <2>1, <4>5, <4>6 DEF SizesAgree
    <3> QED BY <3>1, <3>2
  <2>6. \A b \in Buffers : PrintedFirst(b)'
    BY <2>1 DEF Kept, PrintedFirst, Seen, Printed, thrVars
  <2>7. ASSUME NEW d \in Callers \ {c} PROVE StoredAt(d)'
    <3>1. CASE buf[d] = buf[c]
      BY <1>0, <1>4, <2>1, <3>1 DEF StoredAt, Writing
    <3>2. CASE buf[d] # buf[c]
      <4>1. tc_size'[buf[d]] = tc_size[buf[d]] /\ pc'[d] = pc[d]
        BY <1>0, <2>1, <2>3, <3>2
      <4>2. Me(d) # Me(c)
        BY DEF Me
      <4>3. pc[d] # "idle" => fate'[Me(d)] = fate[Me(d)]
        BY <2>4, <4>2, CallerHasEvent, TcTypes
      <4> QED BY <2>1, <4>1, <4>3 DEF Kept, StoredAt, Me
    <3> QED BY <3>1, <3>2
  <2>8. StoredAt(c)'
    <3>1. pc'[c] = "publish" /\ tc_size'[buf[c]] = After(tmp[c])
      BY <1>0, <2>1, <2>3
    <3>2. fate'[Me(c)] = IF Fits(tmp[c]) THEN "stored" ELSE "dropped"
      BY <2>2, <2>4, TcTypes
    <3>3. fate'[Me(c)] = "stored" => Fits(tmp[c])
      BY <3>2
    <3> QED BY <2>1, <2>2, <3>1, <3>3 DEF StoredAt, Me
  <2> QED BY <2>1, <2>5, <2>6, <2>7, <2>8 DEF Kept, thrVars
<1>8. CASE Publish(c)
  <2>1. /\ pc[c] = "publish" /\ pc' = [pc EXCEPT ![c] = "dec"]
        /\ UNCHANGED <<tc_size, tc_log, calls, buf, thrVars, printed, passed, fate>>
    BY <1>8 DEF Publish, histVars
  <2>2. tc_logsize' = [tc_logsize EXCEPT ![buf[c]] = tc_size[buf[c]]]
    <3>1. tc_size[buf[c]] = tmp[c] + (IF Fits(tmp[c]) THEN 1 ELSE 0)
      BY <2>1 DEF Kept, StoredAt, After
    <3> QED BY <1>8, <3>1 DEF Publish
  <2>3. ASSUME NEW b \in Buffers
        PROVE  /\ tc_logsize'[b] \in {tc_logsize[b], tc_size[b]}
               /\ tc_logsize[b] \in Nat /\ tc_size[b] \in Nat
    BY <1>0, <2>2
  <2>4. \A b \in Buffers : SizesAgree(b)'
    BY <2>1, <2>3 DEF Kept, SizesAgree, thrVars
  <2>5. ASSUME NEW b \in Buffers PROVE PrintedFirst(b)'
    <3> SUFFICES ASSUME Seen(b) \/ (bpc = "print" /\ b = bj) PROVE PrintedFirst(b)'
      BY <2>1 DEF PrintedFirst, Seen, thrVars
    <3>1. passed[b] \in Nat /\ bi \in Nat /\ bsize \in Nat
      BY TcTypes, Sizes
    <3>2. tc_logsize[b] <= tc_logsize'[b] /\ tc_logsize'[b] \in Nat /\ tc_logsize[b] \in Nat
      BY <2>3, CopyBehind
    <3> QED BY <2>1, <3>1, <3>2 DEF Kept, PrintedFirst, Seen, Printed, thrVars
  <2>6. \A d \in Callers : StoredAt(d)'
    BY <1>0, <1>2, <2>1 DEF Kept, StoredAt, Me
  <2> QED BY <2>1, <2>4, <2>5, <2>6 DEF Kept, thrVars
<1> QED BY <1>3, <1>5, <1>6, <1>7, <1>8 DEF CallerStep

LEMMA KeptThread ==
    ASSUME TypeOK, TcClaimIsExclusive, FilesOpen, ~wiped', Kept, ThreadStep
    PROVE  Kept'
<1>0. /\ tc_size \in [Buffers -> TcSlots] /\ tc_logsize \in [Buffers -> TcSlots]
      /\ tc_log \in [Buffers -> [TcSlots -> Event \cup {NoEvent}]]
      /\ TcSlots \subseteq Nat /\ bi \in Nat /\ bj \in 0..NB /\ bsize \in TcSlots
      /\ printed \subseteq Event /\ passed \in [Buffers -> TcSlots]
      /\ NB \in Nat \ {0} /\ Buffers = 0 .. NB - 1 /\ 0 \in TcSlots
  BY TcTypes, Sizes DEF Buffers
<1>1. ASSUME bpc \notin {"wipesize", "wipelog"}
      PROVE  /\ UNCHANGED <<pc, buf, tmp, calls, tc_size, tc_logsize, tc_log, fate>>
             /\ bpc' # "wipelog"
  BY <1>1 DEF ThreadStep, Visit, NextBuffer, PrintOne, BufferDone, WipeClaim, WipeSize,
              WipeLogSize, tcVars, callVars, histVars
<1>2. ASSUME bpc \notin {"wipesize", "wipelog"}
      PROVE  /\ \A b \in Buffers : SizesAgree(b)'
             /\ \A c \in Callers : StoredAt(c)'
  BY <1>1, <1>2 DEF Kept, SizesAgree, StoredAt, Me
<1>3. CASE Visit \/ NextBuffer
  <2>1. /\ UNCHANGED <<tc_logsize, tc_log, printed, passed>> /\ bi = 0 /\ bi' = 0
        /\ \/ bpc' = "poll" /\ bj' = 0
           \/ bpc' = "buffer" /\ bj' = 0
           \/ bpc = "buffer" /\ bpc' = "print" /\ bj' = bj /\ bsize' = tc_logsize[bj]
    BY <1>3 DEF Visit, NextBuffer, Kept, tcVars, histVars
  <2>2. ASSUME NEW b \in Buffers PROVE PrintedFirst(b)'
    <3>1. Seen(b)' => Seen(b)
      BY <1>0, <2>1 DEF Seen
    <3>2. Printed(b, 0) /\ tc_logsize[b] \in Nat
      BY TcNumbers DEF Printed
    <3> QED BY <1>0, <2>1, <3>1, <3>2 DEF Kept, PrintedFirst, Printed
  <2> QED BY <1>2, <1>3, <2>1, <2>2 DEF Kept, Visit, NextBuffer
<1>4. CASE PrintOne
  <2> DEFINE e == tc_log[bj][bi]
  <2>1. /\ bpc = "print" /\ bi < bsize /\ bi' = bi + 1 /\ bsize' = tc_logsize[bj]
        /\ UNCHANGED <<tc_logsize, tc_log, passed, bpc, bj>>
    BY <1>4 DEF PrintOne, tcVars
  <2>2. bj \in Buffers /\ bsize <= tc_logsize[bj] /\ tc_logsize[bj] <= tc_size[bj]
    <3>1. bj \in Buffers
      BY <1>0, <2>1 DEF TypeOK
    <3> QED BY <2>1, <3>1, CopyBehind DEF Kept, PrintedFirst
  <2>3. bi \in TcSlots
    <3>1. bi < bsize /\ bi \in Nat /\ bsize \in 0 .. TCMAX - 2
      BY <1>0, <2>1 DEF TcSlots
    <3> QED BY <3>1, TcAssumption DEF TcAssumption, TcSlots
  <2>4. bi < tc_size[bj] /\ bi + 1 <= tc_logsize[bj]
    BY TcNumbers, <2>1, <2>2
  <2>5. e \in Event
    BY <2>2, <2>3, <2>4 DEF Kept, SizesAgree
  <2>6. e # NoEvent
    BY <2>5, TcNumbers
  <2>7. printed' = printed \cup {e}
    BY <1>4, <2>6 DEF PrintOne, FilesOpen
  <2>10. ASSUME NEW b \in Buffers PROVE PrintedFirst(b)'
    <3>1. ASSUME Seen(b)' PROVE passed[b] <= tc_logsize[b] /\ Printed(b, passed[b])'
      <4>1. Seen(b)
        BY <2>1, <3>1 DEF Seen
      <4>2. passed[b] <= tc_logsize[b] /\ Printed(b, passed[b])
        BY <4>1 DEF Kept, PrintedFirst
      <4>3. ASSUME NEW s \in TcSlots, s < passed[b] PROVE tc_log[b][s] \in printed'
        BY <2>7, <4>2, <4>3 DEF Printed
      <4> QED BY <2>1, <4>2, <4>3 DEF Printed
    <3>2. ASSUME b = bj PROVE Printed(b, bi)'
      <4>1. ASSUME NEW s \in TcSlots, s < bi + 1 PROVE tc_log[b][s] \in printed'
        <5>1. CASE s = bi
          BY <2>7, <3>2, <5>1
        <5>2. CASE s < bi
          BY <2>1, <2>7, <3>2, <5>2 DEF Kept, PrintedFirst, Printed
        <5> QED BY TcNumbers, <4>1, <5>1, <5>2
      <4> QED BY <2>1, <4>1 DEF Printed
    <3> QED BY <1>0, <2>1, <2>4, <3>1, <3>2 DEF PrintedFirst, Printed
  <2> QED BY <1>2, <1>4, <2>1, <2>10 DEF Kept, PrintOne
<1>5. CASE BufferDone
  <2>1. /\ bpc = "print" /\ bi >= bsize /\ passed' = [passed EXCEPT ![bj] = bsize]
        /\ bj' = bj + 1 /\ bi' = 0
        /\ bpc' = IF bj' = NB THEN "wipe" ELSE "buffer"
        /\ UNCHANGED <<tc_logsize, tc_log, printed>>
    BY <1>5 DEF BufferDone, tcVars
  <2>2. ASSUME NEW b \in Buffers PROVE PrintedFirst(b)'
    <3>1. CASE b = bj
      <4>1. passed'[b] = bsize /\ bsize <= tc_logsize[b] /\ Printed(b, bi)
        BY <1>0, <2>1, <3>1 DEF Kept, PrintedFirst
      <4>2. Printed(b, bsize)
        BY <1>0, <2>1, <4>1 DEF Printed
      <4> QED BY <2>1, <4>1, <4>2 DEF PrintedFirst, Printed
    <3>2. CASE b # bj
      <4>1. passed'[b] = passed[b]
        BY <1>0, <2>1, <3>2
      <4>2. Seen(b)' => Seen(b)
        BY <1>0, <2>1, <3>2 DEF Seen
      <4> QED BY <2>1, <4>1, <4>2 DEF Kept, PrintedFirst, Printed
    <3> QED BY <3>1, <3>2
  <2> QED BY <1>2, <1>5, <2>1, <2>2 DEF Kept, BufferDone
<1>6. CASE WipeClaim
  <2>1. /\ bpc = "wipe" /\ bpc' = "wipesize"
        /\ UNCHANGED <<bi, bj, bsize, tc_logsize, tc_log, printed, passed>>
    BY <1>6 DEF WipeClaim
  <2>2. \A b \in Buffers : PrintedFirst(b)'
    BY <2>1 DEF Kept, PrintedFirst, Seen, Printed
  <2> QED BY <1>2, <1>6, <2>1, <2>2 DEF Kept, WipeClaim
<1>7. CASE WipeSize
  <2>1. /\ bpc = "wipesize" /\ bpc' = "wipelog" /\ At(Writing, bi) = {}
        /\ tc_size' = [tc_size EXCEPT ![bi] = 0] /\ passed' = [passed EXCEPT ![bi] = 0]
        /\ UNCHANGED <<bi, bj, tc_logsize, tc_log, pc, buf, tmp, calls, fate, printed>>
    BY <1>7 DEF WipeSize, callVars
  <2>2. ASSUME NEW b \in Buffers PROVE SizesAgree(b)' /\ PrintedFirst(b)'
    <3>1. CASE b = bi
      <4>1. tc_size'[b] = 0
        BY <1>0, <2>1, <3>1
      <4>2. ~Seen(b)'
        BY <1>0, <2>1, <3>1 DEF Seen
      <4> QED BY <1>0, <2>1, <3>1, <4>1, <4>2 DEF SizesAgree, PrintedFirst
    <3>2. CASE b # bi
      <4>1. tc_size'[b] = tc_size[b] /\ passed'[b] = passed[b]
        BY <1>0, <2>1, <3>2
      <4>2. Seen(b)' => Seen(b)
        BY <1>0, <2>1, <3>2 DEF Seen
      <4> QED BY <2>1, <3>2, <4>1, <4>2 DEF Kept, SizesAgree, PrintedFirst, Printed
    <3> QED BY <3>1, <3>2
  <2>3. ASSUME NEW c \in Callers PROVE StoredAt(c)'
    <3>1. CASE pc[c] \in Writing
      <4>1. buf[c] \in Buffers /\ buf[c] # bi
        BY <2>1, <3>1, TcTypes DEF At
      <4>2. tc_size'[buf[c]] = tc_size[buf[c]]
        BY <1>0, <2>1, <4>1
      <4> QED BY <2>1, <4>2 DEF Kept, StoredAt, Me
    <3>2. CASE pc[c] \notin Writing
      BY <2>1, <3>2 DEF StoredAt, Writing
    <3> QED BY <3>1, <3>2
  <2> QED BY <2>1, <2>2, <2>3 DEF Kept
<1>8. CASE WipeLogSize
  <2>1. /\ bpc = "wipelog" /\ tc_logsize' = [tc_logsize EXCEPT ![bi] = 0]
        /\ \/ bi' = bi + 1 /\ bpc' = "wipe"
           \/ bi' = 0 /\ bpc' = "poll"
        /\ UNCHANGED <<tc_size, tc_log, pc, buf, tmp, calls, fate, printed, passed>>
    BY <1>8 DEF WipeLogSize, NextWipe, callVars, histVars
  <2>2. ASSUME NEW b \in Buffers PROVE SizesAgree(b)' /\ PrintedFirst(b)'
    <3>1. CASE b = bi
      <4>1. tc_logsize'[b] = 0 /\ tc_size[b] \in Nat
        BY <1>0, <2>1, <3>1
      <4>2. ~Seen(b)'
        BY <1>0, <2>1, <3>1 DEF Seen
      <4> QED BY <2>1, <4>1, <4>2 DEF Kept, SizesAgree, PrintedFirst
    <3>2. CASE b # bi
      <4>1. tc_logsize'[b] = tc_logsize[b]
        BY <1>0, <2>1, <3>2
      <4>2. Seen(b)' => Seen(b)
        BY <1>0, <2>1, <3>2 DEF Seen
      <4> QED BY <2>1, <3>2, <4>1, <4>2 DEF Kept, SizesAgree, PrintedFirst, Printed
    <3> QED BY <3>1, <3>2
  <2>3. \A c \in Callers : StoredAt(c)'
    BY <2>1 DEF Kept, StoredAt, Me
  <2> QED BY <2>1, <2>2, <2>3 DEF Kept
<1> QED BY <1>3, <1>4, <1>5, <1>6, <1>7, <1>8 DEF ThreadStep

\* What was reset while in use stays noted.
LEMMA HistStays ==
    ASSUME TypeOK, [Next]_vars
    PROVE  (wiped => wiped') /\ (zeroed => zeroed')
<1>1. CASE \E c \in Callers : Call(c) \/ CallerStep(c)
  BY <1>1 DEF Call, CallerStep, Pick, Inc, Test, Back, Write, Load, Bump, Publish, Dec, histVars
<1>2. CASE Visit \/ NextBuffer \/ PrintOne \/ BufferDone \/ WipeLogSize
  BY <1>2 DEF Visit, NextBuffer, PrintOne, BufferDone, WipeLogSize, histVars
<1>5. CASE WipeClaim \/ WipeSize
  <2>1. zeroed' = zeroed
    BY <1>5 DEF WipeClaim, WipeSize
  <2>2. wiped => wiped'
    BY <1>5 DEF WipeClaim, WipeSize
  <2> QED BY <2>1, <2>2
<1>3. CASE Switch \/ ScsiRestart \/ \E h \in ScsiTasks : ScsiStop(h)
  BY <1>3 DEF Switch, ScsiRestart, ScsiStop, histVars
<1>6. CASE \E h \in ScsiTasks : ScsiZero(h)
  <2>1. wiped' = wiped
    BY <1>6 DEF ScsiZero
  <2>2. zeroed => zeroed'
    BY <1>6 DEF ScsiZero
  <2> QED BY <2>1, <2>2
<1>4. CASE UNCHANGED vars
  BY <1>4 DEF vars, histVars
<1> QED BY <1>1, <1>2, <1>3, <1>4, <1>5, <1>6 DEF Next, ThreadStep

\* A hook that zeroes sizes which are zero changes nothing that matters here.
LEMMA ScsiKeeps ==
    ASSUME TypeOK, ~zeroed',
           \/ UNCHANGED vars \/ Switch \/ ScsiRestart
           \/ \E h \in ScsiTasks : ScsiStop(h) \/ ScsiZero(h)
    PROVE  UNCHANGED <<pc, buf, tmp, calls, tc_size, tc_logsize, tc_log, bpc, bj, bi, bsize,
                       printed, passed, fate>>
<1>1. CASE UNCHANGED vars \/ Switch \/ ScsiRestart \/ \E h \in ScsiTasks : ScsiStop(h)
  BY <1>1 DEF vars, Switch, ScsiRestart, ScsiStop, tcVars, callVars, thrVars, histVars
<1>2. ASSUME NEW h \in ScsiTasks, ScsiZero(h)
      PROVE  UNCHANGED <<pc, buf, tmp, calls, tc_size, tc_logsize, tc_log, bpc, bj, bi, bsize,
                         printed, passed, fate>>
  <2>1. zpc[h] \in Buffers
    BY <1>2, Sizes DEF ScsiZero, TypeOK, Buffers
  <2>2. tc_size[zpc[h]] = 0
    <3>1. ~(tc_size[zpc[h]] > 0)
      BY <1>2 DEF ScsiZero
    <3> QED BY <2>1, <3>1, TcNumbers
  <2>3. tc_size' = tc_size
    BY <1>2, <2>1, <2>2, TcTypes DEF ScsiZero
  <2> QED BY <1>2, <2>3 DEF ScsiZero, callVars, thrVars
<1> QED BY <1>1, <1>2

LEMMA TcInvStep == FilesOpen /\ TcInv /\ [Next]_vars => TcInv'
<1> SUFFICES ASSUME FilesOpen, TcInv, [Next]_vars PROVE TcInv'
  OBVIOUS
<1>0. TypeOK' /\ TcClaimIsExclusive'
  BY TypeStep, ClaimStep DEF TcInv
<1> SUFFICES ASSUME ~wiped', ~zeroed' PROVE Kept'
  BY <1>0 DEF TcInv
<1>1. TypeOK /\ TcClaimIsExclusive /\ ~wiped /\ ~zeroed /\ Kept
  BY HistStays DEF TcInv
<1>2. CASE \E c \in Callers : Call(c) \/ CallerStep(c)
  BY <1>1, <1>2, KeptCaller
<1>3. CASE ThreadStep
  BY <1>1, <1>3, KeptThread
<1>4. CASE \/ UNCHANGED vars \/ Switch \/ ScsiRestart
           \/ \E h \in ScsiTasks : ScsiStop(h) \/ ScsiZero(h)
  <2>1. UNCHANGED <<pc, buf, tmp, calls, tc_size, tc_logsize, tc_log, bpc, bj, bi, bsize,
                    printed, passed, fate>>
    BY <1>1, <1>4, ScsiKeeps
  <2> QED BY <1>1, <2>1 DEF Kept, SizesAgree, PrintedFirst, Seen, Printed, StoredAt, Me
<1> QED BY <1>2, <1>3, <1>4 DEF Next

LEMMA TcInvInit == Init => TcInv
<1> SUFFICES ASSUME Init PROVE Kept
  BY TypeInit, ClaimInit DEF TcInv
<1>1. ASSUME NEW b \in Buffers PROVE SizesAgree(b) /\ PrintedFirst(b)
  BY Sizes DEF Init, SizesAgree, PrintedFirst, Seen
<1>2. \A c \in Callers : StoredAt(c)
  BY DEF Init, StoredAt
<1> QED BY <1>1, <1>2 DEF Kept, Init

-----------------------------------------------------------------------------
Atc(e) == \E c \in Callers : Me(c) = e /\ pc[c] = "publish"

\* A record counted in both sizes of its buffer stays so until a reset.
LEMMA CallerLosesNothing ==
    ASSUME TypeOK, TcClaimIsExclusive, ~wiped, Kept, NEW c \in Callers, CallerStep(c) \/ Call(c)
    PROVE  Missing' \subseteq Missing
<1> USE DEF Goto
<1>0. /\ pc \in [Callers -> CallerPcs] /\ buf \in [Callers -> Buffers] /\ buf[c] \in Buffers
      /\ tmp \in [Callers -> Nat] /\ calls \in [Callers -> 0..MaxCalls]
      /\ tc_size \in [Buffers -> TcSlots] /\ tc_logsize \in [Buffers -> TcSlots]
      /\ tc_log \in [Buffers -> [TcSlots -> Event \cup {NoEvent}]]
      /\ TcSlots \subseteq Nat /\ fate \in [Event -> {"none", "stored", "dropped"}]
  BY TcTypes, Sizes
<1>1. printed' = printed
  BY DEF CallerStep, Call, Pick, Inc, Test, Back, Write, Load, Bump, Publish, Dec, histVars
<1>2. CASE Call(c) \/ Pick(c) \/ Inc(c) \/ Test(c) \/ Back(c) \/ Dec(c) \/ Load(c)
  <2>1. UNCHANGED <<tc_size, tc_logsize, tc_log, fate>>
    BY <1>2 DEF Call, Pick, Inc, Test, Back, Dec, Load, tcVars, histVars
  <2>2. /\ pc[c] # "publish"
        /\ \A d \in Callers \ {c} : pc'[d] = pc[d] /\ calls'[d] = calls[d]
    BY <1>0, <1>2 DEF Call, Pick, Inc, Test, Back, Dec, Load
  <2>3. \A e : Atc(e) => Atc(e)'
    BY <2>2 DEF Atc, Me
  <2> QED BY <1>1, <2>1, <2>3 DEF Missing, InBuffer, Atc
<1>3. CASE Write(c)
  <2>1. /\ tc_log' = [tc_log EXCEPT ![buf[c]][tc_size[buf[c]]] = Me(c)]
        /\ pc[c] = "write" /\ pc' = [pc EXCEPT ![c] = "load"]
        /\ UNCHANGED <<tc_size, tc_logsize, calls, fate>>
    BY <1>3 DEF Write, histVars
  <2>2. ASSUME NEW b \in Buffers, NEW s \in TcSlots, s < tc_size[b]
        PROVE  tc_log'[b][s] = tc_log[b][s]
    <3>1. b # buf[c] \/ s # tc_size[buf[c]]
      BY TcNumbers, <2>2
    <3> QED BY <1>0, <2>1, <3>1
  <2>3. \A e : InBuffer(e) => InBuffer(e)'
    BY <2>1, <2>2 DEF InBuffer
  <2>4. \A e : Atc(e) => Atc(e)'
    BY <1>0, <2>1 DEF Atc, Me
  <2> QED BY <1>1, <2>1, <2>3, <2>4 DEF Missing, Atc
<1>4. CASE Bump(c)
  <2>1. /\ pc' = [pc EXCEPT ![c] = "publish"]
        /\ UNCHANGED <<tc_logsize, tc_log, calls>>
        /\ \E v \in {"stored", "dropped"} : fate' = [fate EXCEPT ![Me(c)] = v]
        /\ tc_size' \in {tc_size, [tc_size EXCEPT ![buf[c]] = tmp[c] + 1]}
    BY <1>4 DEF Bump
  <2>2. \A e : Atc(e) \/ e = Me(c) => Atc(e)'
    BY <1>0, <2>1 DEF Atc, Me
  <2>3. \A e \in Event : e # Me(c) => fate'[e] = fate[e]
    BY <1>0, <2>1
  <2>5. tmp[c] = tc_size[buf[c]]
    BY <1>4 DEF Bump, Kept, StoredAt
  <2>6. ASSUME NEW b \in Buffers
        PROVE  tc_size[b] \in Nat /\ tc_size'[b] \in {tc_size[b], tc_size[b] + 1}
    <3>1. tc_size[b] \in Nat
      BY TcNumbers
    <3>2. CASE tc_size' = tc_size
      BY <3>1, <3>2
    <3>3. CASE tc_size' = [tc_size EXCEPT ![buf[c]] = tc_size[buf[c]] + 1]
      BY <1>0, <3>1, <3>3
    <3> QED BY <2>1, <2>5, <3>2, <3>3, <3>1
  <2>7. \A e : InBuffer(e) => InBuffer(e)'
    BY TcNumbers, <2>1, <2>6 DEF InBuffer
  <2>4. ASSUME NEW e \in Missing' PROVE e \in Missing
    <3>1. e \in Event /\ fate'[e] = "stored" /\ ~Atc(e)' /\ ~InBuffer(e)' /\ e \notin printed'
      BY DEF Missing, Atc
    <3>2. e # Me(c) /\ ~Atc(e)
      BY <2>2, <3>1 DEF Atc
    <3>3. ~InBuffer(e)
      BY <2>7, <3>1
    <3> QED BY <1>1, <2>3, <3>1, <3>2, <3>3 DEF Missing, Atc
  <2> QED BY <2>4
<1>5. CASE Publish(c)
  <2>1. /\ pc[c] = "publish" /\ pc' = [pc EXCEPT ![c] = "dec"]
        /\ UNCHANGED <<tc_size, tc_log, calls, fate>>
    BY <1>5 DEF Publish, histVars
  <2>2. /\ tc_size[buf[c]] = After(tmp[c])
        /\ Fits(tmp[c]) => tc_log[buf[c]][tmp[c]] = Me(c)
        /\ fate[Me(c)] = "stored" => Fits(tmp[c])
    BY <2>1 DEF Kept, StoredAt
  <2>3. tc_logsize' = [tc_logsize EXCEPT ![buf[c]] = tc_size[buf[c]]]
    BY <1>5, <2>2 DEF Publish, After
  <2>4. \A b \in Buffers : tc_logsize'[b] \in {tc_logsize[b], tc_size[b]}
    BY <1>0, <2>3
  <2>5. \A e : InBuffer(e) => InBuffer(e)'
    BY <2>1, <2>4 DEF InBuffer
  <2>6. fate[Me(c)] = "stored" => InBuffer(Me(c))'
    <3> SUFFICES ASSUME fate[Me(c)] = "stored" PROVE InBuffer(Me(c))'
      OBVIOUS
    <3>1. tmp[c] \in TcSlots
      BY <2>1 DEF TypeOK
    <3>4. tc_size[buf[c]] = tmp[c] + 1 /\ tmp[c] \in Nat
      BY <1>0, <2>2, <3>1 DEF After
    <3>5. tc_logsize'[buf[c]] = tc_size[buf[c]]
      BY <1>0, <2>3
    <3>2. tmp[c] < tc_logsize'[buf[c]] /\ tmp[c] < tc_size'[buf[c]]
      BY <2>1, <3>4, <3>5
    <3>3. tc_log'[buf[c]][tmp[c]] = Me(c) /\ Me(c)' = Me(c)
      BY <2>1, <2>2 DEF Me
    <3> QED BY <1>0, <3>1, <3>2, <3>3 DEF InBuffer
  <2>7. \A e : Atc(e) => Atc(e)' \/ e = Me(c)
    BY <1>0, <2>1 DEF Atc, Me
  <2>8. ASSUME NEW e \in Missing' PROVE e \in Missing
    <3>1. e \in Event /\ fate'[e] = "stored" /\ ~InBuffer(e)' /\ ~Atc(e)' /\ e \notin printed'
      BY DEF Missing, Atc
    <3>2. e # Me(c)
      <4>1. Me(c)' = Me(c)
        BY <2>1 DEF Me
      <4> QED BY <2>1, <2>6, <3>1, <4>1 DEF InBuffer
    <3>3. ~Atc(e) /\ ~InBuffer(e)
      BY <2>5, <2>7, <3>1, <3>2
    <3> QED BY <1>1, <2>1, <3>1, <3>3 DEF Missing, Atc
  <2> QED BY <2>8
<1> QED BY <1>2, <1>3, <1>4, <1>5 DEF CallerStep

\* What may go missing in a step of the thread.
Unseen == {tc_log[bi][s] : s \in {t \in TcSlots : t >= passed[bi]}}
Hidden == {tc_log[bi][s] : s \in {t \in TcSlots : t < tc_size'[bi]}}

LEMMA ThreadLosesUnseen ==
    ASSUME TypeOK, Kept, ThreadStep
    PROVE  \/ Missing' \subseteq Missing
           \/ bpc = "wipesize" /\ Missing' \ Missing \subseteq Unseen
           \/ bpc = "wipelog" /\ Missing' \ Missing \subseteq Hidden
<1>0. /\ tc_size \in [Buffers -> TcSlots] /\ tc_logsize \in [Buffers -> TcSlots]
      /\ TcSlots \subseteq Nat /\ passed \in [Buffers -> TcSlots]
  BY TcTypes, Sizes
<1>1. CASE bpc \notin {"wipesize", "wipelog"}
  <2>1. UNCHANGED <<pc, calls, tc_size, tc_logsize, tc_log, fate>>
    BY <1>1 DEF ThreadStep, Visit, NextBuffer, PrintOne, BufferDone, WipeClaim, WipeSize,
                WipeLogSize, tcVars, callVars, histVars
  <2>2. printed \subseteq printed'
    BY <1>1 DEF ThreadStep, Visit, NextBuffer, PrintOne, BufferDone, WipeClaim, WipeSize,
                WipeLogSize, histVars
  <2> QED BY <2>1, <2>2 DEF Missing, InBuffer, Me
<1>2. CASE WipeSize
  <2>1. /\ bpc = "wipesize" /\ tc_size' = [tc_size EXCEPT ![bi] = 0]
        /\ UNCHANGED <<pc, calls, tc_logsize, tc_log, fate, printed>>
    BY <1>2 DEF WipeSize, callVars
  <2>2. bi \in Buffers /\ Seen(bi)
    BY <2>1, Sizes DEF TypeOK, Buffers, Seen
  <2>3. Printed(bi, passed[bi])
    BY <2>2 DEF Kept, PrintedFirst
  <2>4. ASSUME NEW e \in Missing' \ Missing PROVE e \in Unseen
    <3>1. e \notin printed /\ InBuffer(e) /\ ~InBuffer(e)'
      BY <2>1 DEF Missing, Me
    <3>2. PICK b \in Buffers, s \in TcSlots :
              s < tc_size[b] /\ s < tc_logsize[b] /\ tc_log[b][s] = e
      BY <3>1 DEF InBuffer
    <3>3. b = bi
      BY <1>0, <2>1, <3>1, <3>2 DEF InBuffer
    <3>4. ~(s < passed[bi])
      BY <2>3, <3>1, <3>2, <3>3 DEF Printed
    <3>5. s >= passed[bi]
      BY TcNumbers, <2>2, <3>4
    <3> QED BY <3>2, <3>3, <3>5 DEF Unseen
  <2> QED BY <2>1, <2>4
<1>3. CASE WipeLogSize
  <2>1. /\ bpc = "wipelog" /\ tc_logsize' = [tc_logsize EXCEPT ![bi] = 0]
        /\ UNCHANGED <<pc, calls, tc_size, tc_log, fate, printed>>
    BY <1>3 DEF WipeLogSize, callVars, histVars
  <2>2. ASSUME NEW e \in Missing' \ Missing PROVE e \in Hidden
    <3>1. InBuffer(e) /\ ~InBuffer(e)'
      BY <2>1 DEF Missing, Me
    <3>2. PICK b \in Buffers, s \in TcSlots :
              s < tc_size[b] /\ s < tc_logsize[b] /\ tc_log[b][s] = e
      BY <3>1 DEF InBuffer
    <3>3. b = bi
      BY <1>0, <2>1, <3>1, <3>2 DEF InBuffer
    <3> QED BY <2>1, <3>2, <3>3 DEF Hidden
  <2> QED BY <2>1, <2>2
<1> QED
  BY <1>1, <1>2, <1>3 DEF ThreadStep, Visit, NextBuffer, PrintOne, BufferDone, WipeClaim

\* If print_tc can always open its file, a record that got a slot goes missing
\* in a reset only: the SCSI hook's or one that falls into a claim; or else the
\* thread's own of tc_size, and of that none the thread had passed; or its own
\* of the copy, and then the record is one stored since (set_tc_size).
THEOREM TcLossInResets == ASSUME FilesOpen PROVE Spec => TcLossOnlyInResets
<1> DEFINE A == \/ wiped' \/ zeroed' \/ Missing' \subseteq Missing
                \/ bpc = "wipesize" /\ Missing' \ Missing \subseteq Unseen
                \/ bpc = "wipelog" /\ Missing' \ Missing \subseteq Hidden
<1>1. TcInv /\ [Next]_vars => [A]_vars
  <2> SUFFICES ASSUME TcInv, Next, ~wiped', ~zeroed' PROVE A
    OBVIOUS
  <2>1. TypeOK /\ TcClaimIsExclusive /\ ~wiped /\ ~zeroed /\ Kept
    BY HistStays DEF TcInv
  <2>2. CASE \E c \in Callers : Call(c) \/ CallerStep(c)
    BY <2>1, <2>2, CallerLosesNothing
  <2>3. CASE ThreadStep
    BY <2>1, <2>3, ThreadLosesUnseen
  <2>4. CASE \/ UNCHANGED vars \/ Switch \/ ScsiRestart
             \/ \E h \in ScsiTasks : ScsiStop(h) \/ ScsiZero(h)
    <3>1. UNCHANGED <<pc, buf, tmp, calls, tc_size, tc_logsize, tc_log, bpc, bj, bi, bsize,
                      printed, passed, fate>>
      BY <2>1, <2>4, ScsiKeeps
    <3> QED BY <3>1 DEF Missing, InBuffer, Me
  <2> QED BY <2>2, <2>3, <2>4 DEF Next
<1>2. TcInv /\ [Next]_vars => TcInv'
  BY TcInvStep
<1> QED BY <1>1, <1>2, TcInvInit, PTL DEF Spec, TcLossOnlyInResets, Unseen, Hidden
=============================================================================
