----------------------------- MODULE SeLogProofs -----------------------------
(* What holds of the start/end log for every number of writers, capacity   *)
(* and bound, proved from SeAssumption alone.                              *)
EXTENDS SeLog, TLAPS

\* Every variable keeps its type (set_se_log, print_se_result).
LEMMA SeTypeStep == TypeOK /\ [Next]_vars => TypeOK'
<1> SUFFICES ASSUME TypeOK, [Next]_vars PROVE TypeOK'
  OBVIOUS
<1> USE SeAssumption DEF TypeOK, Goto, ctlVars, logVars, wrVars, prVars, keptVars, Slots, WriterPcs
<1>1. ASSUME NEW w \in Writers, HookMarks(w) PROVE TypeOK'
  BY <1>1 DEF HookMarks, Enter, Mark, NoMark
<1>2. ASSUME NEW w \in Writers, ControlMarks(w) PROVE TypeOK'
  BY <1>2 DEF ControlMarks, Enter, Mark, NoMark
<1>3. ASSUME NEW w \in Writers, WriterStep(w) PROVE TypeOK'
  <2>1. CASE StoreSec(w)
    BY <2>1 DEF StoreSec
  <2>2. CASE StoreFlag(w)
    <3>1. PICK n \in Reload(w) :
             /\ tmp' = [tmp EXCEPT ![w] = n]
             /\ se_flag' = IF n \in Slots THEN [se_flag EXCEPT ![n] = me[w]] ELSE se_flag
             /\ past' = (past \/ n \notin Slots)
      BY <2>2 DEF StoreFlag
    <3>2. n \in Nat
      BY DEF Reload
    <3>3. tmp' \in [Writers -> Nat] /\ past' \in BOOLEAN
      BY <3>1, <3>2
    <3>4. se_flag' \in [Slots -> Mark \cup {NoMark}]
      BY <3>1
    <3> QED BY <2>2, <3>3, <3>4 DEF StoreFlag
  <2>3. CASE Load(w)
    BY <2>3 DEF Load, Reload
  <2>4. CASE Bump(w)
    BY <2>4 DEF Bump
  <2>5. CASE Test(w)
    BY <2>5 DEF Test
  <2>6. CASE Clamp(w)
    BY <2>6 DEF Clamp
  <2> QED BY <1>3, <2>1, <2>2, <2>3, <2>4, <2>5, <2>6 DEF WriterStep
<1>4. CASE Visit
  BY <1>4 DEF Visit
<1>5. CASE Scan
  <2> DEFINE m == IF i \in Slots THEN se_sec[i] ELSE NoMark
  <2>1. file' = IF m # NoMark /\ file[m] < 2 THEN [file EXCEPT ![m] = @ + 1] ELSE file
    BY <1>5 DEF Scan
  <2>2. m \in Mark \cup {NoMark}
    OBVIOUS
  <2> HIDE DEF m
  <2>3. file' \in [Mark -> 0..2]
    <3>1. CASE m # NoMark /\ file[m] < 2
      <4>1. m \in Mark /\ file[m] + 1 \in 0..2
        BY <2>2, <3>1
      <4> QED BY <2>1, <3>1, <4>1
    <3>2. CASE ~(m # NoMark /\ file[m] < 2)
      BY <2>1, <3>2
    <3> QED BY <3>1, <3>2
  <2>4. torn' \in BOOLEAN
    BY <1>5 DEF Scan
  <2> QED BY <1>5, <2>3, <2>4 DEF Scan
<1>6. CASE Scanned
  BY <1>6 DEF Scanned
<1>7. CASE Reset
  BY <1>7 DEF Reset
<1>8. CASE UNCHANGED vars
  BY <1>8 DEF vars
<1>9. CASE ThreadEnds \/ ThreadStarts
  BY <1>9 DEF ThreadEnds, ThreadStarts
<1> QED BY <1>1, <1>2, <1>3, <1>4, <1>5, <1>6, <1>7, <1>8, <1>9 DEF Next, PrinterStep

\* Types, for any writers, capacity and bounds.
THEOREM SeTypeCorrect == Spec => []TypeOK
<1>1. Init => TypeOK
  <2> SUFFICES ASSUME Init PROVE TypeOK
    OBVIOUS
  <2>1. /\ running \in BOOLEAN /\ torn \in BOOLEAN /\ past \in BOOLEAN
        /\ overlapped \in BOOLEAN /\ raced \in BOOLEAN
    BY DEF Init
  <2>2. /\ file \in [Mark -> 0..2] /\ kept \subseteq Mark /\ late \subseteq Mark
        /\ pc \in [Writers -> WriterPcs]
    BY DEF Init, WriterPcs
  <2> QED BY <2>1, <2>2, SeAssumption DEF Init, TypeOK
<1> QED BY <1>1, SeTypeStep, PTL DEF Spec

-----------------------------------------------------------------------------
\* Writer v has yet to put the index back.
Owes(v) == pc[v] = "clamp" \/ (pc[v] = "test" /\ tmp[v] >= SEMAX)

\* A step of w that leaves the index alone, while w neither owed nor owes,
\* leaves the others' debts as they were (set_se_log up to its increment).
LEMMA OthersOwe ==
    ASSUME TypeOK, SettledIsInside, se_size' = se_size, NEW w \in Writers,
           pc[w] \notin {"test", "clamp"},
           \A v \in Writers \ {w} : pc'[v] = pc[v] /\ tmp'[v] = tmp[v]
    PROVE  SettledIsInside'
  BY DEF TypeOK, SettledIsInside

\* Whoever leaves the index outside has yet to test or to clamp it
\* (set_se_log); the thread only ever empties the log.
LEMMA SettledStep == TypeOK /\ SettledIsInside /\ [Next]_vars => SettledIsInside'
<1> SUFFICES ASSUME TypeOK, SettledIsInside, [Next]_vars PROVE SettledIsInside'
  OBVIOUS
<1> USE SeAssumption DEF Goto, ctlVars, logVars, wrVars, prVars, keptVars
<1>1. ASSUME NEW w \in Writers, HookMarks(w) \/ ControlMarks(w) PROVE SettledIsInside'
  BY <1>1, OthersOwe DEF HookMarks, ControlMarks, Enter, TypeOK
<1>2. ASSUME NEW w \in Writers, WriterStep(w) PROVE SettledIsInside'
  <2>1. CASE StoreSec(w)
    BY <2>1, OthersOwe DEF StoreSec, TypeOK
  <2>2. CASE StoreFlag(w)
    BY <2>2, OthersOwe DEF StoreFlag, TypeOK
  <2>3. CASE Load(w)
    BY <2>3, OthersOwe DEF Load, TypeOK
  <2>4. CASE Bump(w)
    BY <2>4 DEF Bump, TypeOK, SettledIsInside
  <2>5. CASE Test(w)
    <3> SUFFICES ASSUME se_size >= SEMAX
                 PROVE  \E v \in Writers : Owes(v)'
      BY <2>5 DEF Test, SettledIsInside, Owes
    <3>1. PICK v \in Writers : Owes(v)
      BY DEF SettledIsInside, Owes
    <3>2. CASE v = w
      <4>1. PICK n \in Reload(w) : pc' = [pc EXCEPT ![w] = IF n >= SEMAX THEN "clamp" ELSE "idle"]
        BY <2>5 DEF Test
      <4>2. n >= SEMAX
        BY <2>5, <3>1, <3>2, <4>1 DEF Owes, Reload, Test, TypeOK
      <4> QED BY <4>1, <4>2 DEF Owes, TypeOK
    <3>3. CASE v # w
      BY <2>5, <3>1, <3>3 DEF Owes, Test, TypeOK
    <3> QED BY <3>2, <3>3
  <2>6. CASE Clamp(w)
    BY <2>6 DEF Clamp, SettledIsInside
  <2> QED BY <1>2, <2>1, <2>2, <2>3, <2>4, <2>5, <2>6 DEF WriterStep
<1>3. ASSUME PrinterStep PROVE SettledIsInside'
  BY <1>3 DEF PrinterStep, Visit, Scan, Scanned, Reset, SettledIsInside
<1>4. CASE UNCHANGED vars
  BY <1>4 DEF vars, SettledIsInside
<1>5. ASSUME ThreadEnds \/ ThreadStarts PROVE SettledIsInside'
  BY <1>5 DEF ThreadEnds, ThreadStarts, SettledIsInside
<1> QED BY <1>1, <1>2, <1>3, <1>4, <1>5 DEF Next

\* When nobody still has to put the index back, it is inside the array.
THEOREM SettledInside == Spec => []SettledIsInside
<1>1. Init => SettledIsInside
  BY SeAssumption DEF Init, SettledIsInside
<1> QED BY <1>1, SettledStep, SeTypeCorrect, PTL DEF Spec

-----------------------------------------------------------------------------
\* The strengthening for OverrunNeedsOverlap: until two calls overlap, one
\* writer at most is inside, and the index it works with is in the array.
SoloIsInside ==
    ~overlapped =>
        /\ ~past /\ se_size <= SEMAX
        /\ \A v, w \in Inside : v = w
        /\ \A w \in Writers : pc[w] \in {"flag", "load", "store"} => tmp[w] < SEMAX

LEMMA SoloStep ==
    TypeOK /\ SettledIsInside /\ SoloIsInside /\ [Next]_vars => SoloIsInside'
<1> SUFFICES ASSUME TypeOK, SettledIsInside, SoloIsInside, [Next]_vars, ~overlapped'
             PROVE  SoloIsInside'
  BY DEF SoloIsInside
<1> USE SeAssumption DEF Goto, ctlVars, logVars, wrVars, prVars, keptVars
<1>1. ASSUME NEW w \in Writers, HookMarks(w) \/ ControlMarks(w) PROVE SoloIsInside'
  <2>1. Enter(w) /\ Inside = {} /\ ~overlapped
    BY <1>1 DEF HookMarks, ControlMarks, Enter
  <2>2. Inside' = {w}
    BY <2>1 DEF Enter, Inside, TypeOK
  <2> QED BY <2>1, <2>2 DEF Enter, SoloIsInside, TypeOK
<1>2. ASSUME NEW w \in Writers, WriterStep(w) PROVE SoloIsInside'
  <2>0. ~overlapped /\ pc[w] # "idle"
    BY <1>2 DEF WriterStep, StoreSec, StoreFlag, Load, Bump, Test, Clamp
  <2>1. \A v \in Writers : pc[v] # "idle" => v = w
    BY <2>0 DEF SoloIsInside, Inside
  <2>2. pc[w] \notin {"test", "clamp"} => se_size < SEMAX
    BY <2>1 DEF SettledIsInside, TypeOK
  <2>3. Inside' \subseteq {w}
    BY <1>2, <2>1 DEF WriterStep, StoreSec, StoreFlag, Load, Bump, Test, Clamp,
                      Inside, TypeOK
  <2>4. \A v \in Writers \ {w} : pc'[v] = "idle"
    BY <2>3 DEF Inside
  <2>5. SUFFICES ~past' /\ se_size' <= SEMAX
                 /\ (pc'[w] \in {"flag", "load", "store"} => tmp'[w] < SEMAX)
    BY <2>3, <2>4 DEF SoloIsInside
  <2> USE <2>0, <2>2 DEF SoloIsInside, TypeOK, Slots
  <2>6. CASE StoreSec(w)
    BY <2>6 DEF StoreSec
  <2>7. CASE StoreFlag(w)
    BY <2>7 DEF StoreFlag, Reload
  <2>8. CASE Load(w)
    BY <2>8 DEF Load, Reload
  <2>9. CASE Bump(w)
    BY <2>9 DEF Bump
  <2>10. CASE Test(w)
    BY <2>10 DEF Test
  <2>11. CASE Clamp(w)
    BY <2>11 DEF Clamp
  <2> QED BY <1>2, <2>6, <2>7, <2>8, <2>9, <2>10, <2>11 DEF WriterStep
<1>3. ASSUME PrinterStep PROVE SoloIsInside'
  <2> USE DEF SoloIsInside, Inside, TypeOK, Slots
  <2>1. CASE Visit
    BY <2>1 DEF Visit
  <2>2. CASE Scan
    BY <2>2 DEF Scan
  <2>3. CASE Scanned
    BY <2>3 DEF Scanned
  <2>4. CASE Reset
    BY <2>4 DEF Reset
  <2> QED BY <1>3, <2>1, <2>2, <2>3, <2>4 DEF PrinterStep
<1>4. CASE UNCHANGED vars
  BY <1>4 DEF vars, SoloIsInside, Inside
<1>5. ASSUME ThreadEnds \/ ThreadStarts PROVE SoloIsInside'
  BY <1>5 DEF ThreadEnds, ThreadStarts, SoloIsInside, Inside
<1> QED BY <1>1, <1>2, <1>3, <1>4, <1>5 DEF Next

\* No index past the array is used before two calls overlap.
THEOREM OverrunIsOverlap == Spec => []OverrunNeedsOverlap
<1>1. Init => SoloIsInside
  BY SeAssumption DEF Init, SoloIsInside, Inside
<1>2. SoloIsInside => OverrunNeedsOverlap
  BY DEF SoloIsInside, OverrunNeedsOverlap
<1> QED BY <1>1, <1>2, SoloStep, SeTypeCorrect, SettledInside, PTL DEF Spec

-----------------------------------------------------------------------------
\* The strengthening for the file and the losses.  Without overlap and race
\* the one writer inside works on the slot at se_size, and no mark of a slot
\* below it is its own or in the file, but for those the thread has passed.
Free == ~overlapped /\ ~raced

Place(w) ==
    /\ me[w] <= nmarks
    /\ pc[w] \in {"flag", "load", "store", "test"} => tmp[w] = se_size
    /\ pc[w] \in {"flag", "load", "store"} => se_sec[se_size] = me[w]
    /\ pc[w] \in {"load", "store"} => se_flag[se_size] = me[w]
    /\ pc[w] = "clamp" => se_size = SEMAX
    /\ pc[w] \in {"sec", "flag", "load", "store"} =>
          /\ file[me[w]] = 0
          /\ \A s \in Slots : s < se_size => se_sec[s] # me[w]

Listed ==
    /\ \A s \in Slots : s < se_size =>
          /\ se_sec[s] = se_flag[s] /\ se_sec[s] \in 1..nmarks
          /\ s >= i => file[se_sec[s]] = 0
          /\ s < i /\ s # SEMAX - 1 => file[se_sec[s]] # 0
    /\ \A s, t \in Slots : s < se_size /\ t < se_size /\ se_sec[s] = se_sec[t] => s = t

ScanPlace ==
    /\ ppc \in {"poll", "gone"} => i = 0
    /\ i <= se_size \/ (i = SEMAX /\ se_size = SEMAX - 1)

LinesOnce == ~torn /\ \A m \in Mark : file[m] <= 1 /\ (m > nmarks => file[m] = 0)

MarksInv ==
    Free => (\A w \in Writers : Place(w)) /\ Listed /\ ScanPlace /\ LinesOnce

LEMMA MarksStep ==
    TypeOK /\ TypeOK' /\ SettledIsInside /\ SoloIsInside /\ SoloIsInside' /\ MarksInv
        /\ [Next]_vars => MarksInv'
<1> SUFFICES ASSUME TypeOK, TypeOK', SettledIsInside, SoloIsInside, SoloIsInside', MarksInv,
                    [Next]_vars, ~overlapped', ~raced'
             PROVE  MarksInv'
  BY DEF MarksInv, Free
<1> USE SeAssumption DEF Goto, ctlVars, logVars, wrVars, prVars, keptVars
<1>1. ASSUME NEW w \in Writers, HookMarks(w) \/ ControlMarks(w) PROVE MarksInv'
  <2>1. Enter(w) /\ Free /\ Inside = {} /\ pc[w] = "idle"
    <3>1. Enter(w)
      BY <1>1 DEF HookMarks, ControlMarks
    <3>2. overlapped' = (overlapped \/ Inside # {}) /\ raced' = raced /\ pc[w] = "idle"
      BY <3>1 DEF Enter
    <3> QED BY <3>1, <3>2 DEF Free, TypeOK
  <2>2. /\ nmarks' = nmarks + 1 /\ nmarks < MaxMarks /\ me' = [me EXCEPT ![w] = nmarks + 1]
        /\ pc' = [pc EXCEPT ![w] = "sec"]
        /\ UNCHANGED <<logVars, tmp, prVars, file, torn>>
    BY <2>1 DEF Enter
  <2>3. /\ \A v \in Writers : Place(v) /\ pc[v] = "idle"
        /\ Listed /\ ScanPlace /\ LinesOnce
    BY <2>1 DEF MarksInv, Inside
  <2>4. Listed' /\ ScanPlace' /\ LinesOnce'
    <3>1. nmarks \in Nat /\ nmarks' \in Nat
      BY DEF TypeOK
    <3>2. Listed'
      BY <2>2, <2>3, <3>1 DEF Listed, TypeOK
    <3>3. ScanPlace'
      BY <2>2, <2>3 DEF ScanPlace
    <3>4. LinesOnce'
      BY <2>2, <2>3, <3>1 DEF LinesOnce, Mark
    <3> QED BY <3>2, <3>3, <3>4
  <2>5. ASSUME NEW v \in Writers PROVE Place(v)'
    <3>1. CASE v = w
      <4>1. me'[v] = nmarks + 1 /\ pc'[v] = "sec" /\ nmarks + 1 \in Mark
        BY <2>2, <3>1 DEF TypeOK, Mark
      <4>2. file'[me'[v]] = 0
        BY <2>2, <2>3, <4>1 DEF LinesOnce, TypeOK
      <4>3. \A s \in Slots : s < se_size => se_sec[s] # nmarks + 1
        BY <2>3 DEF Listed, TypeOK
      <4> QED BY <2>2, <4>1, <4>2, <4>3 DEF Place, TypeOK
    <3>2. CASE v # w
      <4>1. me'[v] = me[v] /\ pc'[v] = "idle"
        BY <2>2, <2>3, <3>2 DEF TypeOK
      <4>2. me[v] \in Int /\ me[v] <= nmarks
        BY <2>3 DEF Place, TypeOK, Mark, NoMark
      <4> QED BY <2>2, <4>1, <4>2 DEF Place, TypeOK
    <3> QED BY <3>1, <3>2
  <2> QED BY <2>4, <2>5 DEF MarksInv
<1>2. ASSUME NEW w \in Writers, WriterStep(w) PROVE MarksInv'
  <2>0. Free /\ pc[w] # "idle"
    BY <1>2 DEF WriterStep, StoreSec, StoreFlag, Load, Bump, Test, Clamp, Free
  <2>1. \A v \in Writers \ {w} : pc[v] = "idle"
    BY <2>0 DEF SoloIsInside, Inside, Free
  <2>2. pc[w] \notin {"test", "clamp"} => se_size < SEMAX
    BY <2>1 DEF SettledIsInside, TypeOK
  <2>3. Place(w) /\ Listed /\ ScanPlace /\ LinesOnce /\ \A v \in Writers : me[v] <= nmarks
    BY <2>0 DEF MarksInv, Place
  <2>4. /\ UNCHANGED <<nmarks, me, prVars, file, torn>>
        /\ \A v \in Writers \ {w} : pc'[v] = "idle"
    BY <1>2, <2>1 DEF WriterStep, StoreSec, StoreFlag, Load, Bump, Test, Clamp, TypeOK
  <2>5. LinesOnce' /\ \A v \in Writers \ {w} : Place(v)'
    BY <2>3, <2>4 DEF LinesOnce, Place
  <2>6. SUFFICES Place(w)' /\ Listed' /\ ScanPlace'
    BY <2>5 DEF MarksInv
  <2>7. /\ se_size \in Nat /\ i \in Nat /\ SEMAX \in Nat \ {0}
        /\ tmp[w] \in Nat /\ se_size <= SEMAX
    BY <2>0 DEF TypeOK, SoloIsInside, Free
  <2>8. CASE StoreSec(w)
    <3>1. /\ pc[w] = "sec" /\ pc'[w] = "flag" /\ tmp'[w] = se_size
          /\ se_size' = se_size /\ se_flag' = se_flag
          /\ se_sec' = [se_sec EXCEPT ![se_size] = me[w]] /\ se_size \in Slots
      BY <2>2, <2>7, <2>8 DEF StoreSec, TypeOK, Slots
    <3>2. se_sec'[se_size] = me[w] /\ \A s \in Slots : s < se_size => se_sec'[s] = se_sec[s]
      BY <2>7, <3>1 DEF TypeOK
    <3>3. Listed'
      BY <2>3, <2>4, <3>1, <3>2 DEF Listed
    <3>4. Place(w)'
      BY <2>3, <2>4, <3>1, <3>2 DEF Place
    <3> QED BY <2>3, <2>4, <3>1, <3>3, <3>4 DEF ScanPlace
  <2>9. CASE StoreFlag(w)
    <3>1. /\ pc[w] = "flag" /\ pc'[w] = "load" /\ tmp[w] = se_size /\ se_size \in Slots
          /\ se_size' = se_size /\ se_sec' = se_sec
      BY <2>2, <2>3, <2>7, <2>9 DEF StoreFlag, TypeOK, Slots, Place
    <3>2. tmp'[w] = se_size /\ se_flag' = [se_flag EXCEPT ![se_size] = me[w]]
      <4>1. PICK n \in Reload(w) : /\ tmp' = [tmp EXCEPT ![w] = n]
                                  /\ se_flag' = IF n \in Slots
                                                THEN [se_flag EXCEPT ![n] = me[w]]
                                                ELSE se_flag
        BY <2>9 DEF StoreFlag
      <4>2. n = se_size
        BY <3>1 DEF Reload
      <4> QED BY <3>1, <4>1, <4>2 DEF TypeOK
    <3>3. se_flag'[se_size] = me[w] /\ \A s \in Slots : s < se_size => se_flag'[s] = se_flag[s]
      BY <2>7, <3>1, <3>2 DEF TypeOK
    <3>4. Listed'
      BY <2>3, <2>4, <3>1, <3>3 DEF Listed
    <3>5. Place(w)'
      BY <2>3, <2>4, <3>1, <3>2, <3>3 DEF Place
    <3> QED BY <2>3, <2>4, <3>1, <3>4, <3>5 DEF ScanPlace
  <2>10. CASE Load(w)
    <3>1. /\ pc[w] = "load" /\ pc'[w] = "store" /\ tmp[w] = se_size
          /\ UNCHANGED logVars
      BY <2>3, <2>10 DEF Load, TypeOK, Place
    <3>2. tmp'[w] = se_size
      BY <2>10, <3>1 DEF Load, Reload, TypeOK
    <3>3. Place(w)'
      BY <2>3, <2>4, <3>1, <3>2 DEF Place
    <3> QED BY <2>3, <2>4, <3>1, <3>3 DEF ScanPlace, Listed
  <2>11. CASE Bump(w)
    <3>1. /\ pc[w] = "store" /\ pc'[w] = "test" /\ tmp[w] = se_size /\ se_size \in Slots
          /\ se_size' = se_size + 1 /\ tmp'[w] = se_size + 1
          /\ se_sec' = se_sec /\ se_flag' = se_flag
      BY <2>2, <2>3, <2>7, <2>11 DEF Bump, TypeOK, Slots, Place
    <3>2. /\ se_sec[se_size] = me[w] /\ se_flag[se_size] = me[w] /\ file[me[w]] = 0
          /\ me[w] \in 1..nmarks /\ \A s \in Slots : s < se_size => se_sec[s] # me[w]
      BY <2>3, <3>1 DEF Place, TypeOK, Mark, NoMark
    <3>3. \A s \in Slots : s < se_size + 1 => s < se_size \/ s = se_size
      BY <2>7 DEF Slots
    <3>4. se_size < i => se_size = SEMAX - 1
      BY <2>3, <2>7 DEF ScanPlace
    <3>5. Listed'
      BY <2>3, <2>4, <3>1, <3>2, <3>3, <3>4 DEF Listed
    <3>6. Place(w)'
      BY <2>3, <2>4, <3>1 DEF Place
    <3>7. ScanPlace'
      BY <2>3, <2>4, <2>7, <3>1 DEF ScanPlace
    <3> QED BY <3>5, <3>6, <3>7
  <2>12. CASE Test(w)
    <3>1. /\ pc[w] = "test" /\ tmp[w] = se_size /\ UNCHANGED <<logVars, tmp>>
          /\ pc'[w] = IF se_size >= SEMAX THEN "clamp" ELSE "idle"
      BY <2>3, <2>12 DEF Test, Reload, TypeOK, Place
    <3>2. Place(w)'
      BY <2>3, <2>4, <2>7, <3>1 DEF Place
    <3> QED BY <2>3, <2>4, <3>1, <3>2 DEF ScanPlace, Listed
  <2>13. CASE Clamp(w)
    <3>1. /\ se_size = SEMAX /\ se_size' = SEMAX - 1 /\ pc'[w] = "idle"
          /\ se_sec' = se_sec /\ se_flag' = se_flag
      BY <2>3, <2>13 DEF Clamp, TypeOK, Place
    <3>2. \A s \in Slots : s < se_size' => s < se_size
      BY <3>1 DEF Slots
    <3>3. Listed'
      BY <2>3, <2>4, <3>1, <3>2 DEF Listed
    <3>4. Place(w)'
      BY <2>3, <2>4, <3>1 DEF Place
    <3>5. ScanPlace'
      BY <2>3, <2>4, <2>7, <3>1 DEF ScanPlace
    <3> QED BY <3>3, <3>4, <3>5
  <2> QED BY <1>2, <2>8, <2>9, <2>10, <2>11, <2>12, <2>13 DEF WriterStep
<1>3. ASSUME PrinterStep PROVE MarksInv'
  <2>0. Free
    BY <1>3 DEF PrinterStep, Visit, Scan, Scanned, Reset, Free, TypeOK
  <2>1. (\A w \in Writers : Place(w)) /\ Listed /\ ScanPlace /\ LinesOnce
    BY <2>0 DEF MarksInv
  <2>2. se_size \in Nat /\ i \in Nat /\ SEMAX \in Nat \ {0} /\ se_size <= SEMAX
    BY <2>0 DEF TypeOK, SoloIsInside, Free
  <2>3. CASE Visit
    <3>1. i' = i /\ UNCHANGED <<ctlVars, logVars, wrVars, file, torn>> /\ ppc' = "scan"
      BY <2>1, <2>3 DEF Visit, ScanPlace
    <3> QED BY <2>1, <3>1 DEF MarksInv, Place, Listed, ScanPlace, LinesOnce
  <2>4. CASE Scan
    <3> DEFINE m == se_sec[i]
    <3>1. i \in Slots /\ i < se_size /\ m \in Mark /\ se_flag[i] = m /\ file[m] = 0
          /\ m \in 1..nmarks
      BY <2>1, <2>2, <2>4 DEF Scan, Slots, Listed, Mark, TypeOK
    <3>2. /\ file' = [file EXCEPT ![m] = 1] /\ torn' = torn /\ i' = i + 1
          /\ UNCHANGED <<ctlVars, logVars, wrVars, ppc>>
      BY <2>4, <3>1 DEF Scan, NoMark, Mark, TypeOK
    <3>3. /\ file'[m] = 1 /\ \A k \in Mark \ {m} : file'[k] = file[k]
      BY <3>1, <3>2 DEF TypeOK
    <3>4. \A w \in Writers : Place(w)'
      <4> SUFFICES ASSUME NEW w \in Writers PROVE Place(w)'
        OBVIOUS
      <4>1. pc[w] \in {"sec", "flag", "load", "store"} => me[w] \in Mark \ {m}
        BY <2>1, <3>1 DEF Place, TypeOK, NoMark, Mark
      <4> QED BY <2>1, <3>2, <3>3, <4>1 DEF Place
    <3>5. Listed'
      <4>1. \A s \in Slots : s < se_size /\ s # i => se_sec[s] \in Mark \ {m}
        BY <2>1, <3>1 DEF Listed, Mark, TypeOK
      <4>2. \A s \in Slots : s >= i + 1 => s >= i /\ s # i
        BY <2>2 DEF Slots
      <4>3. \A s \in Slots : s < i + 1 => s < i \/ s = i
        BY <2>2 DEF Slots
      <4> QED BY <2>1, <3>2, <3>3, <4>1, <4>2, <4>3 DEF Listed
    <3>6. ScanPlace'
      BY <2>2, <2>4, <3>1, <3>2 DEF ScanPlace, Scan
    <3>7. LinesOnce'
      BY <2>1, <3>1, <3>2, <3>3 DEF LinesOnce, TypeOK, Mark
    <3> QED BY <3>4, <3>5, <3>6, <3>7 DEF MarksInv
  <2>5. CASE Scanned
    BY <2>1, <2>5 DEF Scanned, MarksInv, Place, Listed, ScanPlace, LinesOnce
  <2>6. CASE Reset
    <3>1. /\ se_size' = 0 /\ i' = 0 /\ ppc' = "poll" /\ \A w \in Writers : pc[w] = "idle"
          /\ UNCHANGED <<ctlVars, se_sec, se_flag, wrVars, file, torn>>
      BY <2>6 DEF Reset, Free, Inside
    <3>2. \A s \in Slots : ~(s < se_size')
      BY <3>1 DEF Slots
    <3>3. Listed'
      BY <3>2 DEF Listed
    <3>4. \A w \in Writers : Place(w)'
      BY <2>1, <3>1 DEF Place
    <3> QED BY <2>1, <3>1, <3>3, <3>4 DEF MarksInv, ScanPlace, LinesOnce
  <2> QED BY <1>3, <2>3, <2>4, <2>5, <2>6 DEF PrinterStep
<1>4. CASE UNCHANGED vars
  BY <1>4 DEF vars, MarksInv, Free, Place, Listed, ScanPlace, LinesOnce
<1>5. ASSUME ThreadEnds \/ ThreadStarts PROVE MarksInv'
  BY <1>5 DEF ThreadEnds, ThreadStarts, MarksInv, Free, Place, Listed, ScanPlace, LinesOnce
<1> QED BY <1>1, <1>2, <1>3, <1>4, <1>5 DEF Next

LEMMA MarksInit == Init => MarksInv
  BY SeAssumption DEF Init, MarksInv, Free, Place, Listed, ScanPlace, LinesOnce, Slots, Mark, NoMark

LEMMA SoloHolds == Spec => []SoloIsInside
<1>1. Init => SoloIsInside
  BY SeAssumption DEF Init, SoloIsInside, Inside
<1> QED BY <1>1, SoloStep, SeTypeCorrect, SettledInside, PTL DEF Spec

LEMMA MarksHolds == Spec => []MarksInv
  BY MarksInit, MarksStep, SoloHolds, SeTypeCorrect, SettledInside, PTL DEF Spec

\* Without overlap and race the file has every mark once, whole
\* (print_se_result beside set_se_log).
THEOREM SeFileClean == Spec => []FileIsCleanUnlessRaced
<1>1. MarksInv => FileIsCleanUnlessRaced
  BY DEF MarksInv, Free, LinesOnce, FileIsCleanUnlessRaced
<1> QED BY <1>1, MarksHolds, PTL

\* A counted mark is lost by the reset, if it came after the thread's last
\* look at the size, or by a full log, and in no other way.
LEMMA LossStep ==
    ASSUME TypeOK, SettledIsInside, SoloIsInside, MarksInv, Next, ~overlapped', ~raced'
    PROVE  WindowOrFull
<1> USE SeAssumption DEF Goto, ctlVars, logVars, wrVars, prVars, keptVars
<1>0. Free
  BY DEF TypeOK, Next, HookMarks, ControlMarks, Enter, WriterStep, StoreSec, StoreFlag, Load, Bump, Test,
         Clamp, PrinterStep, Visit, Scan, Scanned, Reset, ThreadEnds, ThreadStarts, Free
<1>1. (\A w \in Writers : Place(w)) /\ Listed /\ ScanPlace
  BY <1>0 DEF MarksInv
<1>2. se_size \in Nat /\ i \in Nat /\ SEMAX \in Nat \ {0} /\ se_size <= SEMAX
  BY <1>0 DEF TypeOK, SoloIsInside, Free
<1>3. ASSUME UNCHANGED <<kept, file, logVars>> PROVE WindowOrFull
  BY <1>3 DEF WindowOrFull, Lost, Waiting
<1>4. ASSUME NEW w \in Writers, HookMarks(w) \/ ControlMarks(w) PROVE WindowOrFull
  BY <1>3, <1>4 DEF HookMarks, ControlMarks, Enter
<1>5. ASSUME NEW w \in Writers, WriterStep(w) PROVE WindowOrFull
  <2>1. pc[w] \notin {"test", "clamp"} => se_size < SEMAX
    <3>1. pc[w] # "idle"
      BY <1>5 DEF WriterStep, StoreSec, StoreFlag, Load, Bump, Test, Clamp
    <3>2. \A v \in Writers \ {w} : pc[v] = "idle"
      BY <1>0, <3>1 DEF SoloIsInside, Inside, Free
    <3> QED BY <3>2 DEF SettledIsInside, TypeOK
  <2>2. CASE StoreSec(w)
    <3>1. \A s \in Slots : s < se_size => se_sec'[s] = se_sec[s]
      BY <1>2, <2>2 DEF StoreSec, TypeOK
    <3>2. Waiting' = Waiting
      BY <2>2, <3>1 DEF StoreSec, Waiting
    <3> QED BY <2>2, <3>2 DEF StoreSec, WindowOrFull, Lost
  <2>3. CASE StoreFlag(w) \/ Load(w) \/ Test(w)
    BY <2>3 DEF StoreFlag, Load, Test, WindowOrFull, Lost, Waiting
  <2>4. CASE Bump(w)
    <3>1. /\ se_size' = se_size + 1 /\ se_size \in Slots /\ se_sec[se_size] = me[w]
          /\ se_sec' = se_sec /\ file' = file /\ kept' = kept \cup {me[w]}
      BY <1>1, <1>2, <2>1, <2>4 DEF Bump, Place, Slots, TypeOK
    <3>2. \A s \in Slots : s < se_size => s < se_size + 1
      BY <1>2 DEF Slots
    <3>3. Waiting \subseteq Waiting'
      BY <3>1, <3>2 DEF Waiting
    <3>4. se_size < se_size + 1
      BY <1>2
    <3>5. me[w] \in Waiting'
      BY <3>1, <3>4 DEF Waiting
    <3> QED BY <3>1, <3>3, <3>5 DEF WindowOrFull, Lost
  <2>5. CASE Clamp(w)
    <3>1. /\ se_size = SEMAX /\ se_size' = SEMAX - 1
          /\ se_sec' = se_sec /\ file' = file /\ kept' = kept
      BY <1>1, <2>5 DEF Clamp, Place
    <3>2. \A s \in Slots : s < SEMAX - 1 \/ s = SEMAX - 1
      BY <1>2 DEF Slots
    <3>3. Waiting \ Waiting' \subseteq {se_sec[SEMAX - 1]}
      BY <3>1, <3>2 DEF Waiting
    <3> QED BY <1>2, <3>1, <3>3 DEF WindowOrFull, Lost
  <2> QED BY <1>5, <2>2, <2>3, <2>4, <2>5 DEF WriterStep
<1>6. ASSUME PrinterStep PROVE WindowOrFull
  <2>1. CASE Visit \/ Scanned
    BY <1>3, <2>1 DEF Visit, Scanned
  <2>2. CASE Scan
    <3>1. kept' = kept /\ Waiting' = Waiting
      BY <2>2 DEF Scan, Waiting
    <3>2. \A m \in Mark : file'[m] = 0 => file[m] = 0
      <4>1. PICK m \in Mark \cup {NoMark} :
               file' = IF m # NoMark /\ file[m] < 2 THEN [file EXCEPT ![m] = @ + 1] ELSE file
        BY <2>2 DEF Scan, TypeOK
      <4>2. CASE m \in Mark
        BY <4>1, <4>2 DEF TypeOK
      <4> QED BY <4>1, <4>2
    <3> QED BY <3>1, <3>2 DEF WindowOrFull, Lost, TypeOK
  <2>3. CASE Reset
    <3>1. ppc = "reset" /\ ppc' = "poll" /\ file' = file /\ kept' = kept /\ Inside = {}
      BY <2>3 DEF Reset, Free
    <3>2. se_size < SEMAX
      BY <1>2, <3>1 DEF SettledIsInside, Inside
    <3>3. \A s \in Slots : s < se_size /\ file[se_sec[s]] = 0 => s >= i
      BY <1>1, <1>2, <3>2 DEF Listed, Slots
    <3>4. \A m \in Waiting : file[m] = 0 => m \in {se_sec[s] : s \in {t \in Slots : t >= i}}
      BY <3>3 DEF Waiting
    <3> QED BY <3>1, <3>4 DEF WindowOrFull, Lost
  <2> QED BY <1>6, <2>1, <2>2, <2>3 DEF PrinterStep
<1>7. ASSUME ThreadEnds \/ ThreadStarts PROVE WindowOrFull
  BY <1>3, <1>7 DEF ThreadEnds, ThreadStarts
<1> QED BY <1>4, <1>5, <1>6, <1>7 DEF Next

THEOREM MarksLostForReason == Spec => MarksLostInTheWindowOrFull
<1>1. TypeOK /\ SettledIsInside /\ SoloIsInside /\ MarksInv /\ [Next]_vars
        => [overlapped' \/ raced' \/ WindowOrFull]_vars
  BY LossStep DEF Free
<1> QED BY <1>1, SeTypeCorrect, SettledInside, SoloHolds, MarksHolds, PTL
        DEF Spec, MarksLostInTheWindowOrFull
=============================================================================
