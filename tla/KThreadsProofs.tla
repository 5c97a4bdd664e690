--------------------------- MODULE KThreadsProofs ---------------------------
(* What holds of KThreads for every number of writers, writes and layers.  *)
EXTENDS KThreads, TLAPS

WriterType ==
    /\ wpc \in [Writers -> WriterPcs]
    /\ wlist \in [Writers -> {<<>>, RunAll, RunSome}]
    /\ wk \in [Writers -> Nat]
PlaceType ==
    \A w \in Writers : IF wlist[w] = <<>> THEN wk[w] = 1 /\ wpc[w] \notin AtLayer
                                         ELSE wk[w] \in 1..Len(wlist[w])

\* Both lists name layers.
LEMMA ListsNameLayers ==
    \A list \in {<<>>, RunAll, RunSome} : \A k \in 1..Len(list) : list[k] \in Layers
<1>1. RunAll \in Seq(Layers) /\ RunSome \in Seq(Layers)
  BY KThreadsAssumption DEF KThreadsAssumption
<1> QED
  BY <1>1

\* A writer inside a pass is at a layer.
LEMMA LayerIsLayer ==
    ASSUME TypeOK, NEW w \in Writers, wpc[w] \in AtLayer
    PROVE  Layer(w) \in Layers
<1>1. wlist[w] \in {<<>>, RunAll, RunSome} /\ wk[w] \in 1..Len(wlist[w])
  BY DEF TypeOK
<1> QED
  BY <1>1, ListsNameLayers DEF Layer

\* Moving on in the list keeps the writer's place well typed.
LEMMA AdvanceType ==
    ASSUME TypeOK, NEW w \in Writers, NEW again, NEW done,
           wpc[w] \in AtLayer, again \in WriterPcs, done \in WriterPcs \ AtLayer,
           Advance(w, again, done)
    PROVE  WriterType' /\ PlaceType'
<1>1. wlist[w] \in {<<>>, RunAll, RunSome} /\ wlist[w] # <<>> /\ wk[w] \in 1..Len(wlist[w])
  BY DEF TypeOK
<1>2. Len(wlist[w]) \in Nat
  <2>1. RunAll \in Seq(Layers) /\ RunSome \in Seq(Layers)
    BY KThreadsAssumption DEF KThreadsAssumption
  <2> QED BY <2>1, <1>1
<1>3. wk[w] < Len(wlist[w]) => wk[w] + 1 \in 1..Len(wlist[w])
  BY <1>1, <1>2
<1>4. wpc' = [wpc EXCEPT ![w] = again] \/ wpc' = [wpc EXCEPT ![w] = done]
  BY DEF Advance, Goto
<1>5. wpc' \in [Writers -> WriterPcs]
  BY <1>4 DEF TypeOK
<1>6. wlist' \in [Writers -> {<<>>, RunAll, RunSome}]
  BY DEF Advance, TypeOK
<1>8. wk' \in [Writers -> Nat]
  <2>1. wk[w] + 1 \in Nat /\ 1 \in Nat /\ wk \in [Writers -> Nat]
    BY DEF TypeOK
  <2>2. wk' = [wk EXCEPT ![w] = wk[w] + 1] \/ wk' = [wk EXCEPT ![w] = 1]
    BY DEF Advance
  <2> QED BY <2>1, <2>2
<1>7. PlaceType'
  <2> SUFFICES ASSUME NEW v \in Writers
               PROVE  IF wlist'[v] = <<>> THEN wk'[v] = 1 /\ wpc'[v] \notin AtLayer
                                          ELSE wk'[v] \in 1..Len(wlist'[v])
    BY DEF PlaceType
  <2>0. DOMAIN wk = Writers
    BY DEF TypeOK
  <2>1. CASE v = w /\ wk[w] < Len(wlist[w])
    <3>1. wlist'[v] = wlist[w] /\ wk'[v] = wk[w] + 1
      BY <2>0, <2>1 DEF Advance
    <3> QED BY <2>1, <3>1, <1>1, <1>3
  <2>2. CASE v = w /\ ~(wk[w] < Len(wlist[w]))
    <3>1. wlist'[v] = <<>> /\ wk'[v] = 1 /\ wpc'[v] = done
      BY <2>0, <2>2 DEF Advance, Goto, TypeOK
    <3> QED BY <3>1
  <2>3. CASE v # w
    <3>1. wlist'[v] = wlist[v] /\ wk'[v] = wk[v] /\ wpc'[v] = wpc[v]
      BY <2>0, <2>3 DEF Advance, Goto, TypeOK
    <3> QED BY <3>1 DEF TypeOK
  <2> QED BY <2>1, <2>2, <2>3
<1> QED
  BY <1>5, <1>6, <1>7, <1>8 DEF WriterType

\* So does taking up a list.
LEMMA BeginType ==
    ASSUME TypeOK, NEW w \in Writers, NEW list \in {RunAll, RunSome},
           NEW again, NEW done,
           again \in WriterPcs, done \in WriterPcs \ AtLayer,
           Begin(w, list, again, done)
    PROVE  WriterType' /\ PlaceType'
<1>1. RunAll \in Seq(Layers) /\ RunSome \in Seq(Layers)
  BY KThreadsAssumption DEF KThreadsAssumption
<1>2. list # <<>> => 1 \in 1..Len(list)
  BY <1>1
<1>3. WriterType'
  <2>1. wpc' = [wpc EXCEPT ![w] = again] \/ wpc' = [wpc EXCEPT ![w] = done]
    BY DEF Begin, Goto
  <2>2. wpc' \in [Writers -> WriterPcs]
    BY <2>1 DEF TypeOK
  <2> QED BY <2>2 DEF Begin, TypeOK, WriterType
<1>4. PlaceType'
  <2> SUFFICES ASSUME NEW v \in Writers
               PROVE  IF wlist'[v] = <<>> THEN wk'[v] = 1 /\ wpc'[v] \notin AtLayer
                                          ELSE wk'[v] \in 1..Len(wlist'[v])
    BY DEF PlaceType
  <2>1. CASE v = w
    <3>1. wlist'[v] = list /\ wk'[v] = 1 /\ wpc'[v] = IF list = <<>> THEN done ELSE again
      BY <2>1 DEF Begin, Goto, TypeOK
    <3> QED BY <3>1, <1>2
  <2>2. CASE v # w
    <3>1. wlist'[v] = wlist[v] /\ wk'[v] = wk[v] /\ wpc'[v] = wpc[v]
      BY <2>2 DEF Begin, Goto, TypeOK
    <3> QED BY <3>1 DEF TypeOK
  <2> QED BY <2>1, <2>2
<1> QED
  BY <1>3, <1>4

\* And a step from one place to another outside a pass or inside it.
LEMMA GotoType ==
    ASSUME TypeOK, NEW w \in Writers, NEW place \in WriterPcs,
           place \in AtLayer => wpc[w] \in AtLayer,
           Goto(w, place), UNCHANGED <<wk, wlist>>
    PROVE  WriterType' /\ PlaceType'
<1>1. WriterType'
  BY DEF Goto, TypeOK, WriterType
<1>2. PlaceType'
  <2> SUFFICES ASSUME NEW v \in Writers
               PROVE  IF wlist[v] = <<>> THEN wk[v] = 1 /\ wpc'[v] \notin AtLayer
                                         ELSE wk[v] \in 1..Len(wlist[v])
    BY DEF PlaceType
  <2>1. v # w => wpc'[v] = wpc[v]
    BY DEF Goto, TypeOK
  <2>2. v = w => wpc'[v] = place
    BY DEF Goto, TypeOK
  <2> QED BY <2>1, <2>2 DEF TypeOK
<1> QED
  BY <1>1, <1>2

\* The part of the type invariant that is about the threads.
ThreadType ==
    /\ task \in [Layers -> Nat] /\ made \in [Layers -> Nat]
    /\ \A l \in Layers : task[l] <= made[l]
    /\ alive \subseteq Threads /\ asked \subseteq Threads
    /\ fo \in [Layers -> {0, 1}]

\* And the rest.
RestType ==
    /\ debug_enabled \in CtlVals \cup {0} /\ stops \in BOOLEAN
    /\ wt \in [Writers -> Nat] /\ writes \in [Writers -> 0..MaxWrites]

LEMMA TypeSplit ==
    ASSUME TypeOK PROVE WriterType /\ PlaceType /\ ThreadType /\ RestType
BY DEF TypeOK, WriterType, PlaceType, ThreadType, RestType

LEMMA TypeJoin ==
    ASSUME WriterType', PlaceType', ThreadType', RestType', met' \in BOOLEAN PROVE TypeOK'
BY DEF TypeOK, WriterType, PlaceType, ThreadType, RestType

LEMMA ThreadTypeUntouched ==
    ASSUME ThreadType, UNCHANGED <<task, made, alive, asked, fo>>
    PROVE  ThreadType'
BY DEF ThreadType, Threads

LEMMA RestTypeUntouched ==
    ASSUME RestType, UNCHANGED <<debug_enabled, stops, wt, writes>>
    PROVE  RestType'
BY DEF RestType

LEMMA TypeStep == TypeOK /\ [Next]_vars => TypeOK'
<1> SUFFICES ASSUME TypeOK, [Next]_vars PROVE TypeOK'
  OBVIOUS
<1>0. WriterType /\ PlaceType /\ ThreadType /\ RestType
  BY TypeSplit
<1>5. met' \in BOOLEAN
  BY DEF TypeOK, Next, WriterStep, Write, OpenFails, Exit, hisVars, vars
<1>1. ASSUME NEW w \in Writers, NEW v \in CtlVals \cup {Unparsable}, Write(w, v)
      PROVE  TypeOK'
  <2>1. WriterType' /\ PlaceType'
    BY <1>1, GotoType DEF Write, WriterPcs, AtLayer
  <2>2. ThreadType'
    BY <1>0, <1>1, ThreadTypeUntouched DEF Write, thrVars
  <2>3. debug_enabled' \in CtlVals \cup {0}
    BY <1>0, <1>1 DEF Write, RestType
  <2>4. writes' \in [Writers -> 0..MaxWrites]
    <3>1. writes[w] + 1 \in 0..MaxWrites
      BY <1>0, <1>1, KThreadsAssumption DEF Write, KThreadsAssumption, RestType
    <3> QED BY <1>0, <1>1, <3>1 DEF Write, RestType
  <2>5. UNCHANGED <<stops, wt>>
    BY <1>1 DEF Write, hisVars
  <2>6. RestType'
    BY <1>0, <2>3, <2>4, <2>5 DEF RestType
  <2> QED BY <2>1, <2>2, <2>6, <1>5, TypeJoin
<1>2. ASSUME NEW w \in Writers, Branch(w) PROVE TypeOK'
  <2>1. \/ Begin(w, RunAll, "check", "branch990")
        \/ Begin(w, RunSome, "check", "branch990")
        \/ Goto(w, "branch990") /\ UNCHANGED <<wk, wlist>>
    BY <1>2 DEF Branch
  <2>2. WriterType' /\ PlaceType'
    BY <2>1, BeginType, GotoType DEF WriterPcs, AtLayer
  <2>3. ThreadType' /\ RestType'
    <3>1. UNCHANGED <<task, made, alive, asked, fo, debug_enabled, stops, wt, writes>>
      BY <1>2 DEF Branch, thrVars
    <3> QED BY <1>0, <3>1, ThreadTypeUntouched, RestTypeUntouched
  <2> QED BY <2>2, <2>3, <1>5, TypeJoin
<1>3. ASSUME NEW w \in Writers, Check(w) PROVE TypeOK'
  <2>1. \/ Goto(w, "create") /\ UNCHANGED <<wk, wlist>>
        \/ Advance(w, "check", "branch990")
    BY <1>3 DEF Check
  <2>2. wpc[w] \in AtLayer
    BY <1>3 DEF Check, AtLayer
  <2>3. WriterType' /\ PlaceType'
    BY <2>1, <2>2, AdvanceType, GotoType DEF WriterPcs, AtLayer
  <2>4. ThreadType' /\ RestType'
    <3>1. UNCHANGED <<task, made, alive, asked, fo, debug_enabled, stops, wt, writes>>
      BY <1>3 DEF Check, thrVars
    <3> QED BY <1>0, <3>1, ThreadTypeUntouched, RestTypeUntouched
  <2> QED BY <2>3, <2>4, <1>5, TypeJoin
<1>4. ASSUME NEW w \in Writers, Create(w) PROVE TypeOK'
  <2> DEFINE l == Layer(w)
             n == made[l] + 1
  <2>1. wpc[w] \in AtLayer
    BY <1>4 DEF Create, AtLayer
  <2>2. l \in Layers
    BY <2>1, LayerIsLayer
  <2>3. WriterType' /\ PlaceType'
    <3>1. Advance(w, "check", "branch990")
      BY <1>4 DEF Create
    <3> QED BY <3>1, <2>1, AdvanceType DEF WriterPcs, AtLayer
  <2>4. /\ made' = [made EXCEPT ![l] = n] /\ task' = [task EXCEPT ![l] = n]
        /\ alive' = alive \cup {<<l, n>>} /\ UNCHANGED <<asked, fo>>
    BY <1>4 DEF Create
  <2>5. ThreadType'
    <3> HIDE DEF l
    <3>1. made[l] \in Nat /\ n \in Nat /\ n = made[l] + 1
      BY <1>0, <2>2 DEF ThreadType
    <3>2. made' \in [Layers -> Nat] /\ task' \in [Layers -> Nat]
      BY <1>0, <2>4, <3>1 DEF ThreadType
    <3>3. \A k \in Layers : task'[k] <= made'[k] /\ made[k] <= made'[k]
      BY <1>0, <2>2, <2>4, <3>1 DEF ThreadType
    <3>4. Threads \subseteq Threads' /\ <<l, n>> \in Threads'
      <4>1. \A k \in Layers : (1..made[k]) \subseteq (1..made'[k])
        BY <1>0, <3>2, <3>3 DEF ThreadType
      <4>2. n \in 1..made'[l]
        BY <1>0, <2>2, <2>4, <3>1 DEF ThreadType
      <4> QED BY <4>1, <4>2, <2>2 DEF Threads
    <3> QED BY <1>0, <2>4, <3>2, <3>3, <3>4 DEF ThreadType
  <2>6. RestType'
    <3>1. UNCHANGED <<debug_enabled, stops, wt, writes>>
      BY <1>4 DEF Create
    <3> QED BY <1>0, <3>1, RestTypeUntouched
  <2> QED BY <2>3, <2>5, <2>6, <1>5, TypeJoin
<1>6. ASSUME NEW w \in Writers, Branch990(w) PROVE TypeOK'
  <2>1. \/ Begin(w, RunAll, "stopcheck", "idle")
        \/ Goto(w, "idle") /\ UNCHANGED <<wk, wlist>>
    BY <1>6 DEF Branch990
  <2>2. WriterType' /\ PlaceType'
    BY <2>1, BeginType, GotoType DEF WriterPcs, AtLayer
  <2>3. ThreadType'
    BY <1>0, <1>6, ThreadTypeUntouched DEF Branch990, thrVars
  <2>4. stops' \in BOOLEAN
    BY <1>0, <1>6 DEF Branch990, RestType
  <2>5. UNCHANGED <<debug_enabled, wt, writes>>
    BY <1>6 DEF Branch990
  <2>6. RestType'
    BY <1>0, <2>4, <2>5 DEF RestType
  <2> QED BY <2>2, <2>3, <2>6, <1>5, TypeJoin
<1>7. ASSUME NEW w \in Writers, StopCheck(w) PROVE TypeOK'
  <2>1. \/ Goto(w, "stopcall") /\ UNCHANGED <<wk, wlist>>
        \/ Advance(w, "stopcheck", "idle")
    BY <1>7 DEF StopCheck
  <2>2. wpc[w] \in AtLayer
    BY <1>7 DEF StopCheck, AtLayer
  <2>3. WriterType' /\ PlaceType'
    BY <2>1, <2>2, AdvanceType, GotoType DEF WriterPcs, AtLayer
  <2>4. ThreadType' /\ RestType'
    <3>1. UNCHANGED <<task, made, alive, asked, fo, debug_enabled, stops, wt, writes>>
      BY <1>7 DEF StopCheck, thrVars
    <3> QED BY <1>0, <3>1, ThreadTypeUntouched, RestTypeUntouched
  <2> QED BY <2>3, <2>4, <1>5, TypeJoin
<1>8. ASSUME NEW w \in Writers, StopCall(w) PROVE TypeOK'
  <2> DEFINE l == Layer(w)
  <2>1. wpc[w] \in AtLayer /\ l \in Layers
    BY <1>8, LayerIsLayer DEF StopCall, AtLayer
  <2>2. WriterType' /\ PlaceType'
    <3>1. (Goto(w, "stopwait") \/ Goto(w, "oops")) /\ UNCHANGED <<wk, wlist>>
      BY <1>8 DEF StopCall
    <3> QED BY <3>1, <2>1, GotoType DEF WriterPcs, AtLayer
  <2>3. /\ asked' = asked \/ (task[l] # 0 /\ asked' = asked \cup {<<l, task[l]>>})
        /\ wt' = wt \/ wt' = [wt EXCEPT ![w] = task[l]]
        /\ UNCHANGED <<debug_enabled, task, made, alive, fo, writes, stops>>
    BY <1>8 DEF StopCall
  <2>4. task[l] \in Nat /\ made[l] \in Nat /\ task[l] <= made[l]
    BY <1>0, <2>1 DEF ThreadType
  <2>5. ThreadType'
    <3> HIDE DEF l
    <3>1. task[l] # 0 => <<l, task[l]>> \in Threads
      <4>1. task[l] # 0 => task[l] \in 1..made[l]
        BY <2>4
      <4> QED BY <2>1, <4>1 DEF Threads
    <3>2. Threads' = Threads
      BY <2>3 DEF Threads
    <3> QED BY <1>0, <2>3, <3>1, <3>2 DEF ThreadType
  <2>6. RestType'
    BY <1>0, <2>3, <2>4 DEF RestType
  <2> QED BY <2>2, <2>5, <2>6, <1>5, TypeJoin
<1>9. ASSUME NEW w \in Writers, StopWait(w) PROVE TypeOK'
  <2>1. wpc[w] \in AtLayer /\ Layer(w) \in Layers
    BY <1>9, LayerIsLayer DEF StopWait, AtLayer
  <2>2. WriterType' /\ PlaceType'
    <3>1. Advance(w, "stopcheck", "idle")
      BY <1>9 DEF StopWait
    <3> QED BY <3>1, <2>1, AdvanceType DEF WriterPcs, AtLayer
  <2>3. task' = [task EXCEPT ![Layer(w)] = 0] /\ UNCHANGED <<made, alive, asked, fo>>
    BY <1>9 DEF StopWait
  <2>4. ThreadType'
    <3>1. Threads' = Threads
      BY <2>3 DEF Threads
    <3>2. task' \in [Layers -> Nat]
      BY <1>0, <2>3 DEF ThreadType
    <3>3. ASSUME NEW k \in Layers PROVE task'[k] <= made[k]
      <4>1. made[k] \in Nat /\ task[k] <= made[k]
        BY <1>0 DEF ThreadType
      <4>2. task'[k] = 0 \/ task'[k] = task[k]
        BY <1>0, <2>3 DEF ThreadType
      <4> QED BY <4>1, <4>2
    <3> QED BY <1>0, <2>3, <3>1, <3>2, <3>3 DEF ThreadType
  <2>5. RestType'
    <3>1. UNCHANGED <<debug_enabled, stops, wt, writes>>
      BY <1>9 DEF StopWait
    <3> QED BY <1>0, <3>1, RestTypeUntouched
  <2> QED BY <2>2, <2>4, <2>5, <1>5, TypeJoin
<1>10. ASSUME NEW t \in Threads, OpenFails(t) \/ Exit(t) PROVE TypeOK'
  <2>1. UNCHANGED <<debug_enabled, stops, wt, writes, wpc, wk, wlist, task, made, asked>>
    BY <1>10 DEF OpenFails, Exit, wrVars, hisVars
  <2>2. alive' \subseteq alive /\ (fo' = fo \/ fo' = [fo EXCEPT ![t[1]] = 1])
    BY <1>10 DEF OpenFails, Exit
  <2>3. ThreadType'
    <3>1. Threads' = Threads
      BY <2>1 DEF Threads
    <3>2. fo' \in [Layers -> {0, 1}]
      BY <1>0, <2>2 DEF ThreadType
    <3> QED BY <1>0, <2>1, <2>2, <3>1, <3>2 DEF ThreadType
  <2>4. RestType' /\ WriterType' /\ PlaceType'
    BY <1>0, <2>1, RestTypeUntouched DEF WriterType, PlaceType
  <2> QED BY <2>3, <2>4, <1>5, TypeJoin
<1>11. ASSUME UNCHANGED vars PROVE TypeOK'
  <2>1. ThreadType' /\ RestType'
    BY <1>0, <1>11, ThreadTypeUntouched, RestTypeUntouched DEF vars, thrVars, wrVars, hisVars
  <2>2. WriterType' /\ PlaceType'
    BY <1>0, <1>11 DEF vars, wrVars, WriterType, PlaceType
  <2> QED BY <2>1, <2>2, <1>5, TypeJoin
<1> QED
  BY <1>1, <1>2, <1>3, <1>4, <1>5, <1>6, <1>7, <1>8, <1>9, <1>10, <1>11
     DEF Next, WriterStep

LEMMA TypeInit == Init => TypeOK
<1> SUFFICES ASSUME Init PROVE TypeOK
  OBVIOUS
<1>1. MaxWrites \in Nat
  BY KThreadsAssumption DEF KThreadsAssumption
<1> QED
  <2>1. \A w \in Writers : wpc[w] = "idle" /\ wk[w] = 1 /\ wlist[w] = <<>>
    BY DEF Init
  <2>2. wpc \in [Writers -> WriterPcs] /\ wlist \in [Writers -> {<<>>, RunAll, RunSome}]
    BY DEF Init, WriterPcs
  <2>3. wk \in [Writers -> Nat] /\ wt \in [Writers -> Nat] /\ writes \in [Writers -> 0..MaxWrites]
    BY <1>1 DEF Init
  <2>4. task \in [Layers -> Nat] /\ made \in [Layers -> Nat] /\ fo \in [Layers -> {0, 1}]
    BY DEF Init
  <2>5. \A l \in Layers : task[l] <= made[l]
    BY DEF Init
  <2>6. alive = {} /\ asked = {} /\ debug_enabled = 0 /\ stops = FALSE /\ met = FALSE
    BY DEF Init
  <2> QED
    BY <2>1, <2>2, <2>3, <2>4, <2>5, <2>6 DEF TypeOK, AtLayer

\* Every variable keeps its type, and every writer inside a pass is at a layer
\* of its list (sec_debug_write and the functions it calls).
THEOREM KTypeCorrect == Spec => []TypeOK
  BY TypeInit, TypeStep, PTL DEF Spec

-----------------------------------------------------------------------------
\* A step that moves one writer leaves the others where they are.
LEMMA GotoMovesOne ==
    ASSUME TypeOK, NEW w \in Writers, NEW place, Goto(w, place)
    PROVE  /\ wpc'[w] = place
           /\ \A v \in Writers \ {w} : wpc'[v] = wpc[v]
BY DEF Goto, TypeOK

LEMMA AdvanceMovesOne ==
    ASSUME TypeOK, NEW w \in Writers, NEW again, NEW done, Advance(w, again, done)
    PROVE  /\ wpc'[w] \in {again, done}
           /\ \A v \in Writers \ {w} :
                  wpc'[v] = wpc[v] /\ wk'[v] = wk[v] /\ wlist'[v] = wlist[v]
BY DEF Advance, Goto, TypeOK

LEMMA BeginMovesOne ==
    ASSUME TypeOK, NEW w \in Writers, NEW list, NEW again, NEW done,
           Begin(w, list, again, done)
    PROVE  /\ wpc'[w] = IF list = <<>> THEN done ELSE again
           /\ wlist'[w] = list /\ wk'[w] = 1
           /\ \A v \in Writers \ {w} :
                  wpc'[v] = wpc[v] /\ wk'[v] = wk[v] /\ wlist'[v] = wlist[v]
BY DEF Begin, Goto, TypeOK

-----------------------------------------------------------------------------
(* One pointer, one thread.                                                *)

\* What a writer's place says of its layer's pointer, as long as nobody else
\* acts on the same pointer.
PointersKnown ==
    \A w \in Writers : /\ wpc[w] = "create" => task[Layer(w)] = 0
                       /\ wpc[w] = "stopwait" => task[Layer(w)] = wt[w]
Named == \A t \in alive : task[t[1]] = t[2]

\* The inductive invariant.  NoOrphan alone is not inductive: that Create
\* overwrites no thread's number, and StopWait clears none that still runs, is
\* known only from the writer's test of the pointer some steps before, and from
\* no other writer having acted on it since.
OrphanInv == ~met => Named /\ PointersKnown /\ ~Colliding

\* A thread that runs has a layer and a number that is not 0.
LEMMA AliveIsThread ==
    ASSUME TypeOK, NEW t \in alive
    PROVE  t = <<t[1], t[2]>> /\ t[1] \in Layers /\ t[2] \in 1..made[t[1]] /\ t[2] # 0
<1>1. PICK l \in Layers : t \in {l} \X (1..made[l]) BY DEF TypeOK, Threads
<1>2. t = <<t[1], t[2]>> /\ t[1] = l /\ t[2] \in 1..made[l] BY <1>1
<1>3. made[l] \in Nat BY DEF TypeOK
<1>4. t[2] # 0 BY <1>2, <1>3
<1> QED BY <1>2, <1>4

\* met records a collision in the step that makes it; the steps that are no
\* writer's make none.
LEMMA MetStep ==
    ASSUME TypeOK, OrphanInv, [Next]_vars, ~met'
    PROVE  ~met /\ ~Colliding /\ ~Colliding'
<1>1. ASSUME NEW w \in Writers, WriterStep(w) PROVE ~met /\ ~Colliding'
    BY <1>1 DEF WriterStep
<1>2. ASSUME NEW w \in Writers, NEW v \in CtlVals \cup {Unparsable}, Write(w, v)
      PROVE  ~met /\ ~Colliding'
    <2>1. ~met /\ UNCHANGED <<wk, wlist>> BY <1>2 DEF Write, hisVars
    <2>2. wpc'[w] = "branch" /\ \A x \in Writers \ {w} : wpc'[x] = wpc[x]
        BY <1>2, GotoMovesOne DEF Write
    <2>3. ~Colliding BY <2>1 DEF OrphanInv
    <2>4. \A x \in Writers : Acting(x)' => Acting(x) BY <2>2 DEF Acting
    <2>5. \A x \in Writers : Layer(x)' = Layer(x) BY <2>1 DEF Layer
    <2> QED BY <2>1, <2>3, <2>4, <2>5 DEF Colliding
<1>3. ASSUME UNCHANGED <<met, wpc, wk, wlist>> PROVE ~met /\ ~Colliding'
    BY <1>3 DEF OrphanInv, Colliding, Acting, Layer
<1>4. ASSUME NEW t \in Threads, OpenFails(t) \/ Exit(t) PROVE ~met /\ ~Colliding'
    BY <1>3, <1>4 DEF OpenFails, Exit, wrVars, hisVars
<1>5. ASSUME UNCHANGED vars PROVE ~met /\ ~Colliding'
    BY <1>3, <1>5 DEF vars, wrVars, hisVars
<1>6. ~met /\ ~Colliding' BY <1>1, <1>2, <1>4, <1>5 DEF Next
<1> QED BY <1>6 DEF OrphanInv

\* A step by w that leaves every pointer, but perhaps the one of the layer w was
\* acting on, leaves the other writers what they know.
LEMMA OthersKnow ==
    ASSUME TypeOK, PointersKnown, NEW w \in Writers, NEW v \in Writers, v # w,
           wpc'[v] = wpc[v], wk'[v] = wk[v], wlist'[v] = wlist[v], wt'[v] = wt[v],
           Acting(v) => task'[Layer(v)] = task[Layer(v)]
    PROVE  /\ wpc'[v] = "create" => task'[Layer(v)'] = 0
           /\ wpc'[v] = "stopwait" => task'[Layer(v)'] = wt'[v]
BY DEF PointersKnown, Layer, Acting

LEMMA OrphanStep == TypeOK /\ OrphanInv /\ [Next]_vars => OrphanInv'
<1> SUFFICES ASSUME TypeOK, OrphanInv, [Next]_vars, ~met'
             PROVE  Named' /\ PointersKnown' /\ ~Colliding'
  BY DEF OrphanInv
<1>m. ~met /\ ~Colliding /\ ~Colliding' BY MetStep
<1>0. TypeOK /\ Named /\ PointersKnown /\ ThreadType /\ WriterType /\ wt \in [Writers -> Nat]
  BY <1>m, TypeSplit DEF OrphanInv, RestType
\* A writer that acts has its pointer to itself.
<1>a. ASSUME NEW w \in Writers, NEW v \in Writers, v # w, Acting(w), Acting(v)
      PROVE  Layer(v) # Layer(w)
  BY <1>a, <1>m DEF Colliding
<1>1. ASSUME UNCHANGED <<task, wpc, wk, wlist, wt>>, alive' \subseteq alive
      PROVE  Named' /\ PointersKnown'
  BY <1>0, <1>1 DEF Named, PointersKnown, Layer
<1>2. ASSUME NEW t \in Threads, OpenFails(t) \/ Exit(t)
      PROVE  Named' /\ PointersKnown'
  <2>1. alive' \subseteq alive /\ UNCHANGED <<task, wpc, wk, wlist, wt>>
    BY <1>2 DEF OpenFails, Exit, wrVars
  <2> QED BY <2>1, <1>1
\* A step of w that changes no pointer and no thread.
<1>3. ASSUME NEW w \in Writers, UNCHANGED <<task, alive>>,
             \A v \in Writers \ {w} :
                 wpc'[v] = wpc[v] /\ wk'[v] = wk[v] /\ wlist'[v] = wlist[v] /\ wt'[v] = wt[v],
             /\ wpc'[w] = "create" => task[Layer(w)'] = 0
             /\ wpc'[w] = "stopwait" => task[Layer(w)'] = wt'[w]
      PROVE  Named' /\ PointersKnown'
  <2>1. Named' BY <1>0, <1>3 DEF Named
  <2>2. ASSUME NEW v \in Writers
        PROVE  /\ wpc'[v] = "create" => task'[Layer(v)'] = 0
               /\ wpc'[v] = "stopwait" => task'[Layer(v)'] = wt'[v]
    <3>1. CASE v = w BY <1>3, <3>1
    <3>2. CASE v # w
      <4>1. /\ wpc'[v] = wpc[v] /\ wk'[v] = wk[v] /\ wlist'[v] = wlist[v] /\ wt'[v] = wt[v]
            /\ task' = task
        BY <1>3, <3>2
      <4> QED BY <1>0, <3>2, <4>1, OthersKnow
    <3> QED BY <3>1, <3>2
  <2> QED BY <2>1, <2>2 DEF PointersKnown
<1>4. ASSUME NEW w \in Writers,
             (\E v \in CtlVals \cup {Unparsable} : Write(w, v)) \/ Branch(w) \/ Branch990(w)
                 \/ StopCheck(w)
      PROVE  Named' /\ PointersKnown'
  <2>1. UNCHANGED <<task, alive, wt>>
    BY <1>4 DEF Write, Branch, Branch990, StopCheck, thrVars
  <2>2. /\ wpc'[w] \notin {"create", "stopwait"}
        /\ \A v \in Writers \ {w} : wpc'[v] = wpc[v] /\ wk'[v] = wk[v] /\ wlist'[v] = wlist[v]
    <3>1. CASE \E v \in CtlVals \cup {Unparsable} : Write(w, v)
      BY <3>1, GotoMovesOne DEF Write
    <3>2. CASE Branch(w) BY <3>2, BeginMovesOne, GotoMovesOne DEF Branch
    <3>3. CASE Branch990(w) BY <3>3, BeginMovesOne, GotoMovesOne DEF Branch990
    <3>4. CASE StopCheck(w) BY <3>4, AdvanceMovesOne, GotoMovesOne DEF StopCheck
    <3> QED BY <1>4, <3>1, <3>2, <3>3, <3>4
  <2> QED BY <2>1, <2>2, <1>3
<1>5. ASSUME NEW w \in Writers, Check(w) PROVE Named' /\ PointersKnown'
  <2>1. UNCHANGED <<task, alive, wt>>
    BY <1>5 DEF Check, thrVars
  <2>2. \/ task[Layer(w)] = 0 /\ Goto(w, "create") /\ UNCHANGED <<wk, wlist>>
        \/ Advance(w, "check", "branch990")
    BY <1>5 DEF Check
  <2>3. \/ task[Layer(w)] = 0 /\ wpc'[w] = "create" /\ UNCHANGED <<wk, wlist>>
        \/ wpc'[w] \in {"check", "branch990"}
    BY <2>2, AdvanceMovesOne, GotoMovesOne
  <2>4. \A v \in Writers \ {w} : wpc'[v] = wpc[v] /\ wk'[v] = wk[v] /\ wlist'[v] = wlist[v]
    BY <2>2, AdvanceMovesOne, GotoMovesOne
  <2>5. wpc'[w] = "create" => task[Layer(w)'] = 0
    BY <2>3 DEF Layer
  <2>6. wpc'[w] # "stopwait" BY <2>3
  <2> QED BY <2>1, <2>4, <2>5, <2>6, <1>3
\* A step of w that stores n into the pointer of the layer it was acting on.
<1>6. ASSUME NEW w \in Writers, NEW n, Acting(w), Layer(w) \in Layers,
             task' = [task EXCEPT ![Layer(w)] = n], UNCHANGED wt,
             NEW again, NEW done, Advance(w, again, done),
             {again, done} \cap {"create", "stopwait"} = {}
      PROVE  PointersKnown'
  <2>1. /\ wpc'[w] \in {again, done}
        /\ \A v \in Writers \ {w} : wpc'[v] = wpc[v] /\ wk'[v] = wk[v] /\ wlist'[v] = wlist[v]
    BY <1>6, AdvanceMovesOne
  <2>2. ASSUME NEW v \in Writers
        PROVE  /\ wpc'[v] = "create" => task'[Layer(v)'] = 0
               /\ wpc'[v] = "stopwait" => task'[Layer(v)'] = wt'[v]
    <3>1. CASE v = w
      <4>1. wpc'[w] \notin {"create", "stopwait"} BY <2>1, <1>6
      <4> QED BY <3>1, <4>1
    <3>2. CASE v # w
      <4>1. ASSUME Acting(v) PROVE task'[Layer(v)] = task[Layer(v)]
        <5>1. Layer(v) # Layer(w) BY <1>6, <3>2, <4>1, <1>a
        <5>2. Layer(v) \in Layers BY <4>1, <1>0, LayerIsLayer DEF Acting, AtLayer
        <5> QED BY <5>1, <5>2, <1>6, <1>0 DEF ThreadType
      <4> QED BY <1>0, <1>6, <2>1, <3>2, <4>1, OthersKnow
    <3> QED BY <3>1, <3>2
  <2> QED BY <2>2 DEF PointersKnown
<1>7. ASSUME NEW w \in Writers, Create(w) PROVE Named' /\ PointersKnown'
  <2> DEFINE l == Layer(w)
             n == made[l] + 1
  <2>1. wpc[w] = "create" /\ l \in Layers /\ task[l] = 0 /\ Acting(w)
    BY <1>0, <1>7, LayerIsLayer DEF Create, AtLayer, PointersKnown, Acting
  <2>2. /\ task' = [task EXCEPT ![l] = n] /\ alive' = alive \cup {<<l, n>>}
        /\ UNCHANGED wt /\ Advance(w, "check", "branch990")
    BY <1>7 DEF Create
  <2>4. ASSUME NEW t \in alive PROVE t[1] # l /\ t[1] \in Layers /\ task[t[1]] = t[2]
    <3>1. task[t[1]] = t[2] BY <1>0 DEF Named
    <3>2. t[1] \in Layers /\ t[2] # 0 BY <1>0, AliveIsThread
    <3> QED BY <3>1, <3>2, <2>1
  <2>5. Named'
    <3> SUFFICES ASSUME NEW t \in alive' PROVE task'[t[1]] = t[2]
      BY DEF Named
    <3> HIDE DEF l, n
    <3>1. CASE t = <<l, n>>
      BY <1>0, <2>1, <2>2, <3>1 DEF ThreadType
    <3>2. CASE t \in alive
      BY <1>0, <2>1, <2>2, <2>4, <3>2 DEF ThreadType
    <3> QED BY <2>2, <3>1, <3>2
  <2>6. PointersKnown'
    <3> HIDE DEF n
    <3> QED BY <2>1, <2>2, <1>6
  <2> QED BY <2>5, <2>6
<1>8. ASSUME NEW w \in Writers, StopCall(w) PROVE Named' /\ PointersKnown'
  <2>1. UNCHANGED <<task, alive, wk, wlist>>
    BY <1>8 DEF StopCall
  <2>2. \/ Goto(w, "oops") /\ wt' = wt
        \/ Goto(w, "stopwait") /\ wt' = [wt EXCEPT ![w] = task[Layer(w)]]
    BY <1>8 DEF StopCall
  <2>3. \/ wpc'[w] = "oops"
        \/ wpc'[w] = "stopwait" /\ wt'[w] = task[Layer(w)]
    BY <1>0, <2>2, GotoMovesOne
  <2>4. \A v \in Writers \ {w} : wpc'[v] = wpc[v] /\ wt'[v] = wt[v]
    BY <1>0, <2>2, GotoMovesOne
  <2>5. Layer(w)' = Layer(w) BY <2>1 DEF Layer
  <2> QED BY <2>1, <2>3, <2>4, <2>5, <1>3
<1>9. ASSUME NEW w \in Writers, StopWait(w) PROVE Named' /\ PointersKnown'
  <2> DEFINE l == Layer(w)
  <2>1. /\ wpc[w] = "stopwait" /\ l \in Layers /\ task[l] = wt[w] /\ <<l, wt[w]>> \notin alive
        /\ Acting(w)
    BY <1>0, <1>9, LayerIsLayer DEF StopWait, AtLayer, PointersKnown, Acting
  <2>2. /\ task' = [task EXCEPT ![l] = 0] /\ alive' = alive /\ UNCHANGED wt
        /\ Advance(w, "stopcheck", "idle")
    BY <1>9 DEF StopWait
  <2>4. ASSUME NEW t \in alive PROVE t[1] # l /\ task[t[1]] = t[2]
    <3>1. task[t[1]] = t[2] BY <1>0 DEF Named
    <3>2. t = <<t[1], t[2]>> BY <1>0, AliveIsThread
    <3> QED BY <3>1, <3>2, <2>1
  <2>5. Named'
    <3> HIDE DEF l
    <3> QED BY <1>0, <2>2, <2>4 DEF Named, ThreadType
  <2>6. PointersKnown' BY <2>1, <2>2, <1>6
  <2> QED BY <2>5, <2>6
<1>10. ASSUME UNCHANGED vars PROVE Named' /\ PointersKnown'
  BY <1>1, <1>10 DEF vars, thrVars, wrVars
<1> QED
  BY <1>m, <1>2, <1>4, <1>5, <1>7, <1>8, <1>9, <1>10 DEF Next, WriterStep

\* The invariant holds throughout.
LEMMA OrphanInvariant == Spec => []OrphanInv
<1>1. Init => OrphanInv BY DEF Init, OrphanInv, Named, PointersKnown, Colliding, Acting
<1> QED BY <1>1, OrphanStep, KTypeCorrect, PTL DEF Spec

\* Any number of users, writes and layers: every thread that runs is the one
\* its layer's pointer names, until two writers act on one pointer at once
\* (init_aiopro_X and stop_aiopro).
THEOREM NoOrphans == Spec => []NoOrphan
<1>1. OrphanInv => NoOrphan BY DEF OrphanInv, Named, NoOrphan
<1> QED BY <1>1, OrphanInvariant, PTL

\* So a layer never has two threads, which would share its array and its idle
\* timer, until then (the test of the pointer in init_aiopro_X).
THEOREM OneThread == Spec => []OneThreadPerLayer
<1>1. TypeOK /\ OrphanInv => OneThreadPerLayer
  <2> SUFFICES ASSUME TypeOK, OrphanInv, ~met, NEW s \in alive, NEW t \in alive, s[1] = t[1]
               PROVE  s = t
    BY DEF OneThreadPerLayer
  <2>1. s[2] = t[2] BY DEF OrphanInv, Named
  <2>2. s = <<s[1], s[2]>> /\ t = <<t[1], t[2]>> BY AliveIsThread
  <2> QED BY <2>1, <2>2
<1> QED BY <1>1, OrphanInvariant, KTypeCorrect, PTL

-----------------------------------------------------------------------------
(* A write of 990 leaves no thread.                                        *)

\* The layer is at or after the place of w in its list.
Later(w, l) == \E j \in 1..Len(wlist[w]) : j >= wk[w] /\ wlist[w][j] = l

\* w has yet to see the layer under 990: it has the last test before it, or is
\* in a stop pass that reaches the layer, or died in one.
StopAhead(w, l) ==
    \/ wpc[w] \in {"branch", "check", "create", "branch990", "oops"}
    \/ wpc[w] \in {"stopcheck", "stopcall", "stopwait"} /\ Later(w, l)

\* The inductive invariant behind StoppedMeansNone, which says nothing of the
\* states in which a write is under way.
StopInv ==
    (~met /\ debug_enabled = STOP) => \A t \in alive : \E w \in Writers : StopAhead(w, t[1])

\* A writer moves on in its list: the layers after the one it was at are still
\* before it.
LEMMA AdvanceKeepsLater ==
    ASSUME TypeOK, NEW w \in Writers, NEW l, NEW again, NEW done,
           Advance(w, again, done), Later(w, l), l # Layer(w)
    PROVE  wpc'[w] = again /\ Later(w, l)'
<1>1. PICK j \in 1..Len(wlist[w]) : j >= wk[w] /\ wlist[w][j] = l
    BY DEF Later
<1>2. wlist[w] \in {<<>>, RunAll, RunSome} /\ wk[w] \in Nat
      /\ DOMAIN wk = Writers /\ DOMAIN wpc = Writers
    BY DEF TypeOK
<1>3. Len(wlist[w]) \in Nat
    <2>1. RunAll \in Seq(Layers) /\ RunSome \in Seq(Layers)
        BY KThreadsAssumption DEF KThreadsAssumption
    <2> QED BY <1>2, <2>1
<1>4. j # wk[w] BY <1>1 DEF Layer
<1>5. j \in Nat /\ j >= wk[w] + 1 /\ wk[w] < Len(wlist[w])
    BY <1>1, <1>2, <1>3, <1>4
<1>6. wk'[w] = wk[w] + 1 /\ wpc'[w] = again /\ wlist' = wlist
    BY <1>2, <1>5 DEF Advance, Goto
<1> QED BY <1>1, <1>5, <1>6 DEF Later

\* Taking up a list has all its layers ahead.
LEMMA BeginHasAll ==
    ASSUME TypeOK, NEW w \in Writers, NEW list \in {RunAll, RunSome}, NEW again, NEW done,
           Begin(w, list, again, done), NEW k \in 1..Len(list)
    PROVE  wpc'[w] = again /\ Later(w, list[k])'
<1>1. list \in Seq(Layers) BY KThreadsAssumption DEF KThreadsAssumption
<1>2. list # <<>>
    <2> SUFFICES ASSUME list = <<>> PROVE FALSE OBVIOUS
    <2>1. Len(list) = 0 OBVIOUS
    <2>2. k \in 1..0 BY <2>1
    <2> QED BY <2>2, SMT
<1>3. wk'[w] = 1 /\ wlist'[w] = list /\ wpc'[w] = again
    BY <1>2, BeginMovesOne
<1>4. k >= 1 BY <1>1
<1> QED BY <1>3, <1>4 DEF Later

LEMMA StopStep == TypeOK /\ OrphanInv /\ StopInv /\ [Next]_vars => StopInv'
<1> SUFFICES ASSUME TypeOK, OrphanInv, StopInv, [Next]_vars, ~met', debug_enabled' = STOP
             PROVE  \A t \in alive' : \E w \in Writers : StopAhead(w, t[1])'
    BY DEF StopInv
<1> DEFINE Goal == \A t \in alive' : \E w \in Writers : StopAhead(w, t[1])'
<1>0. ~met /\ Named /\ PointersKnown BY MetStep DEF OrphanInv
\* A writer that has the last test before it, or died, stands for every layer.
<1>1. ASSUME NEW w \in Writers,
             wpc'[w] \in {"branch", "check", "create", "branch990", "oops"}
      PROVE  Goal
    BY <1>1 DEF StopAhead
\* A step of w that creates nothing and keeps ahead what it had ahead.
<1>2. ASSUME NEW w \in Writers, debug_enabled' = debug_enabled, alive' \subseteq alive,
             \A v \in Writers \ {w} : wpc'[v] = wpc[v] /\ wk'[v] = wk[v] /\ wlist'[v] = wlist[v],
             \A t \in alive : StopAhead(w, t[1]) => StopAhead(w, t[1])'
      PROVE  Goal
    <2> SUFFICES ASSUME NEW t \in alive' PROVE \E v \in Writers : StopAhead(v, t[1])' OBVIOUS
    <2>1. t \in alive /\ debug_enabled = STOP BY <1>2
    <2>2. PICK v \in Writers : StopAhead(v, t[1]) BY <2>1, <1>0 DEF StopInv
    <2>3. CASE v = w BY <2>1, <2>2, <2>3, <1>2
    <2>4. CASE v # w
        <3>1. wpc'[v] = wpc[v] /\ wk'[v] = wk[v] /\ wlist'[v] = wlist[v] BY <1>2, <2>4
        <3>2. StopAhead(v, t[1])' BY <2>2, <3>1 DEF StopAhead, Later
        <3> QED BY <3>2
    <2> QED BY <2>3, <2>4
<1>3. ASSUME NEW w \in Writers, NEW v \in CtlVals \cup {Unparsable}, Write(w, v) PROVE Goal
    <2>1. wpc'[w] = "branch" BY <1>3, GotoMovesOne DEF Write
    <2> QED BY <2>1, <1>1
<1>4. ASSUME NEW w \in Writers, Branch(w) \/ Check(w) \/ Create(w) PROVE Goal
    <2>1. wpc'[w] \in {"check", "create", "branch990"}
        <3>1. CASE Branch(w) BY <3>1, BeginMovesOne, GotoMovesOne DEF Branch
        <3>2. CASE Check(w) BY <3>2, AdvanceMovesOne, GotoMovesOne DEF Check
        <3>3. CASE Create(w) BY <3>3, AdvanceMovesOne DEF Create
        <3> QED BY <1>4, <3>1, <3>2, <3>3
    <2> QED BY <2>1, <1>1
<1>5. ASSUME NEW w \in Writers, Branch990(w) PROVE Goal
    <2>1. alive' = alive /\ debug_enabled = STOP BY <1>5 DEF Branch990, thrVars
    <2>2. Begin(w, RunAll, "stopcheck", "idle") BY <1>5, <2>1 DEF Branch990
    <2> SUFFICES ASSUME NEW t \in alive PROVE StopAhead(w, t[1])' BY <2>1
    <2>3. t[1] \in Layers BY AliveIsThread
    <2>4. PICK k \in 1..Len(RunAll) : t[1] = RunAll[k] BY <2>3 DEF Layers
    <2>5. wpc'[w] = "stopcheck" /\ Later(w, t[1])' BY <2>2, <2>4, BeginHasAll
    <2> QED BY <2>5 DEF StopAhead
\* The stop pass goes on from a layer that no thread runs for.
<1>6. ASSUME NEW w \in Writers, alive' = alive, debug_enabled' = debug_enabled,
             wpc[w] \in {"stopcheck", "stopwait"},
             Advance(w, "stopcheck", "idle"), \A t \in alive : t[1] # Layer(w)
      PROVE  Goal
    <2>1. \A v \in Writers \ {w} : wpc'[v] = wpc[v] /\ wk'[v] = wk[v] /\ wlist'[v] = wlist[v]
        BY <1>6, AdvanceMovesOne
    <2>2. ASSUME NEW t \in alive, StopAhead(w, t[1]) PROVE StopAhead(w, t[1])'
        <3>1. Later(w, t[1]) /\ t[1] # Layer(w) BY <1>6, <2>2 DEF StopAhead
        <3>2. wpc'[w] = "stopcheck" /\ Later(w, t[1])' BY <1>6, <3>1, AdvanceKeepsLater
        <3> QED BY <3>2 DEF StopAhead
    <2> QED BY <1>2, <1>6, <2>1, <2>2
<1>7. ASSUME NEW w \in Writers, StopCheck(w) PROVE Goal
    <2>1. UNCHANGED <<alive, debug_enabled>> /\ wpc[w] = "stopcheck"
        BY <1>7 DEF StopCheck, thrVars
    <2>2. CASE task[Layer(w)] # 0
        <3>1. Goto(w, "stopcall") /\ UNCHANGED <<wk, wlist>> BY <1>7, <2>2 DEF StopCheck
        <3>2. wpc'[w] = "stopcall" /\ \A v \in Writers \ {w} : wpc'[v] = wpc[v]
            BY <3>1, GotoMovesOne
        <3>3. \A t \in alive : StopAhead(w, t[1]) => StopAhead(w, t[1])'
            BY <2>1, <3>1, <3>2 DEF StopAhead, Later
        <3> QED BY <1>2, <2>1, <3>1, <3>2, <3>3
    <2>3. CASE task[Layer(w)] = 0
        <3>1. Advance(w, "stopcheck", "idle") BY <1>7, <2>3 DEF StopCheck
        <3>2. \A t \in alive : t[1] # Layer(w) BY <1>0, <2>3, AliveIsThread DEF Named
        <3> QED BY <1>6, <2>1, <3>1, <3>2
    <2> QED BY <2>2, <2>3
<1>8. ASSUME NEW w \in Writers, StopCall(w) PROVE Goal
    <2>1. UNCHANGED <<alive, debug_enabled, wk, wlist>> /\ wpc[w] = "stopcall"
        BY <1>8 DEF StopCall
    <2>2. (Goto(w, "stopwait") \/ Goto(w, "oops")) BY <1>8 DEF StopCall
    <2>3. CASE Goto(w, "oops")
        <3>1. wpc'[w] = "oops" BY <2>3, GotoMovesOne
        <3> QED BY <3>1, <1>1
    <2>4. CASE Goto(w, "stopwait")
        <3>2. wpc'[w] = "stopwait" /\ \A v \in Writers \ {w} : wpc'[v] = wpc[v]
            BY <2>4, GotoMovesOne
        <3>3. \A t \in alive : StopAhead(w, t[1]) => StopAhead(w, t[1])'
            BY <2>1, <3>2 DEF StopAhead, Later
        <3> QED BY <1>2, <2>1, <3>2, <3>3
    <2> QED BY <2>2, <2>3, <2>4
<1>9. ASSUME NEW w \in Writers, StopWait(w) PROVE Goal
    <2>1. UNCHANGED <<alive, debug_enabled>> /\ wpc[w] = "stopwait"
          /\ Advance(w, "stopcheck", "idle") /\ <<Layer(w), wt[w]>> \notin alive
        BY <1>9 DEF StopWait
    <2>2. task[Layer(w)] = wt[w] BY <1>0, <2>1 DEF PointersKnown
    <2>3. ASSUME NEW t \in alive, t[1] = Layer(w) PROVE FALSE
        <3>1. t[2] = wt[w] BY <1>0, <2>2, <2>3 DEF Named
        <3>2. t = <<t[1], t[2]>> BY AliveIsThread
        <3> QED BY <2>1, <2>3, <3>1, <3>2
    <2> QED BY <1>6, <2>1, <2>3
<1>10. ASSUME alive' \subseteq alive, UNCHANGED <<debug_enabled, wpc, wk, wlist>> PROVE Goal
    <2>1. debug_enabled = STOP BY <1>10
    <2>2. \A t \in alive' : \E v \in Writers : StopAhead(v, t[1])
        BY <2>1, <1>0, <1>10 DEF StopInv
    <2> QED BY <2>2, <1>10 DEF StopAhead, Later
<1>11. ASSUME NEW t \in Threads, OpenFails(t) \/ Exit(t) PROVE Goal
    <2>1. alive' \subseteq alive /\ UNCHANGED <<debug_enabled, wpc, wk, wlist>>
        BY <1>11 DEF OpenFails, Exit, wrVars
    <2> QED BY <2>1, <1>10
<1>12. CASE UNCHANGED vars
    <2>1. alive' \subseteq alive /\ UNCHANGED <<debug_enabled, wpc, wk, wlist>>
        BY <1>12 DEF vars, thrVars, wrVars
    <2> QED BY <2>1, <1>10
<1> QED
    BY <1>3, <1>4, <1>5, <1>7, <1>8, <1>9, <1>11, <1>12 DEF Next, WriterStep

\* Any number of users: once the writes have returned and 990 was the last
\* value, no thread runs, until two writers act on one pointer at once
\* (sec_debug_write's last test, aiopro_stop_kths, stop_aiopro).
THEOREM StoppedNone == Spec => []StoppedMeansNone
<1>1. Init => StopInv BY DEF Init, StopInv
<1>2. StopInv => StoppedMeansNone BY DEF StopInv, StopAhead, StoppedMeansNone, Quiet
<1> QED BY <1>1, <1>2, StopStep, OrphanInvariant, KTypeCorrect, PTL DEF Spec

-----------------------------------------------------------------------------
(* What a session starts with: a layer that records has its thread.        *)

StopPlaces == {"stopcheck", "stopcall", "stopwait"}

\* The layers that record under the value the file holds.
Recording == CASE debug_enabled = 1 -> RunAll
               [] debug_enabled = 3 -> RunSome
               [] OTHER -> <<>>

\* A thread is made or about to be: somebody has yet to branch, or is in a
\* pass that has the layer before it.
Ahead(w, l) ==
    \/ wpc[w] = "branch"
    \/ wpc[w] \in {"check", "create"} /\ Later(w, l)
Covered(l) == task[l] # 0 \/ \E w \in Writers : Ahead(w, l)
Records(l) == \E k \in 1..Len(Recording) : Recording[k] = l
AllCovered == \A l \in Layers : Records(l) => Covered(l)

\* A pointer that is set is the pointer of a thread that runs, unless the
\* layer's file failed.
TaskRuns(l) == task[l] # 0 /\ fo[l] = 0 => <<l, task[l]>> \in alive

\* While nobody has stopped the threads.  StartersAgree alone says nothing of
\* the states in which a write is under way.
StartInv ==
    ~stops => /\ \A w \in Writers : wpc[w] \notin StopPlaces
              /\ asked = {}
              /\ \A l \in Layers : TaskRuns(l)
              /\ AllCovered

\* The list of a recording value is one the passes know.
LEMMA RecordingIsList ==
    /\ Recording \in {<<>>, RunAll, RunSome}
    /\ Recording \in Seq(Layers)
    /\ Len(Recording) \in Nat
    /\ \A k \in 1..Len(Recording) : Recording[k] \in Layers
<1>1. Recording \in {<<>>, RunAll, RunSome} BY DEF Recording
<1>2. RunAll \in Seq(Layers) /\ RunSome \in Seq(Layers) /\ <<>> \in Seq(Layers)
    BY KThreadsAssumption DEF KThreadsAssumption
<1>3. Recording \in Seq(Layers) BY <1>1, <1>2
<1> QED BY <1>1, <1>3, ListsNameLayers

\* A writer moves on in its list: the layers after the one it was at are still
\* ahead of it.
LEMMA AdvanceKeepsAhead ==
    ASSUME TypeOK, NEW w \in Writers, NEW l, wpc[w] \in {"check", "create"},
           Advance(w, "check", "branch990"), Ahead(w, l), l # Layer(w)
    PROVE  Ahead(w, l)'
<1>1. Later(w, l) BY DEF Ahead
<1>2. wpc'[w] = "check" /\ Later(w, l)' BY <1>1, AdvanceKeepsLater
<1> QED BY <1>2 DEF Ahead

\* What a step of w does not touch is ahead of the other writers as before.
LEMMA OthersAhead ==
    ASSUME TypeOK, NEW w \in Writers, NEW v \in Writers, v # w, NEW l,
           wpc'[v] = wpc[v], wk'[v] = wk[v], wlist'[v] = wlist[v], Ahead(v, l)
    PROVE  Ahead(v, l)'
BY DEF Ahead, Later

\* A pass over the list of recording layers has all of them ahead.
LEMMA BeginCovers ==
    ASSUME TypeOK, NEW w \in Writers, Begin(w, Recording, "check", "branch990"),
           NEW l, Records(l)
    PROVE  Ahead(w, l)'
<1>0. PICK k \in 1..Len(Recording) : Recording[k] = l BY DEF Records
<1>1. Recording # <<>>
    <2> SUFFICES ASSUME Recording = <<>> PROVE FALSE OBVIOUS
    <2>1. Len(Recording) = 0 OBVIOUS
    <2>2. k \in 1..0 BY <2>1
    <2> QED BY <2>2, SMT
<1>2. wk'[w] = 1 /\ wlist'[w] = Recording /\ wpc'[w] = "check"
    BY <1>1 DEF Begin, Goto, TypeOK
<1>3. k >= 1 BY RecordingIsList
<1> QED BY <1>0, <1>2, <1>3 DEF Ahead, Later

\* A layer records as long as debug_enabled keeps its value.
LEMMA RecordsSame ==
    ASSUME UNCHANGED debug_enabled, NEW l PROVE Records(l)' <=> Records(l)
BY DEF Records, Recording

\* What is covered stays so if nobody but w moves, no pointer is cleared, and w
\* keeps the layer ahead or was not ahead of it.
LEMMA CoveredStays ==
    ASSUME TypeOK, NEW w \in Writers, NEW l,
           task'[l] = task[l] \/ task'[l] # 0, Covered(l),
           \A v \in Writers \ {w} : wpc'[v] = wpc[v] /\ wk'[v] = wk[v] /\ wlist'[v] = wlist[v],
           (task[l] = 0 /\ Ahead(w, l)) => (task'[l] # 0 \/ Ahead(w, l)')
    PROVE  Covered(l)'
<1>1. CASE task[l] # 0 BY <1>1 DEF Covered
<1>2. CASE task[l] = 0
    <2>1. PICK v \in Writers : Ahead(v, l) BY <1>2 DEF Covered
    <2>2. CASE v = w BY <1>2, <2>1, <2>2 DEF Covered
    <2>3. CASE v # w
        <3>1. Ahead(v, l)' BY <2>1, <2>3, OthersAhead
        <3> QED BY <3>1 DEF Covered
    <2> QED BY <2>2, <2>3
<1> QED BY <1>1, <1>2

\* Under 990 no layer records.
LEMMA StopRecordsNone == debug_enabled = STOP => \A l : ~Records(l)
<1> SUFFICES ASSUME debug_enabled = STOP, NEW l PROVE ~Records(l) OBVIOUS
<1>1. Recording = <<>> BY SMT DEF Recording, STOP
<1>2. Len(Recording) = 0 BY <1>1
<1>3. 1..0 = {} BY SMT
<1> QED BY <1>2, <1>3 DEF Records

\* Every step keeps the recording layers covered, as long as only a write of
\* 990 is inside the stop pass.
LEMMA CoverStep ==
    ASSUME TypeOK, AllCovered, [Next]_vars,
           \A w \in Writers : wpc[w] \in StopPlaces => debug_enabled = STOP
    PROVE  AllCovered'
<1>d. \A l \in Layers : Records(l) => Covered(l) BY DEF AllCovered
<1>s. ASSUME debug_enabled = STOP, debug_enabled' = debug_enabled PROVE AllCovered'
    <2>1. \A l \in Layers : ~Records(l)' BY <1>s, StopRecordsNone, RecordsSame
    <2> QED BY <2>1 DEF AllCovered
<1>1. ASSUME NEW w \in Writers, NEW v \in CtlVals \cup {Unparsable}, Write(w, v)
      PROVE  AllCovered'
    <2>1. wpc'[w] = "branch" BY <1>1, GotoMovesOne DEF Write
    <2>2. \A l : Covered(l)' BY <2>1 DEF Covered, Ahead
    <2> QED BY <2>2 DEF AllCovered
<1>2. ASSUME NEW w \in Writers, Branch(w) PROVE AllCovered'
    <2>1. debug_enabled' = debug_enabled BY <1>2 DEF Branch
    <2>2. \A l \in Layers : Records(l)' <=> Records(l) BY <2>1, RecordsSame
    <2>3. Begin(w, Recording, "check", "branch990") \/ Recording = <<>>
        BY <1>2 DEF Branch, Recording
    <2>4. ASSUME NEW l \in Layers, Records(l) PROVE Covered(l)'
        <3>1. CASE Begin(w, Recording, "check", "branch990")
            <4>1. Ahead(w, l)' BY <2>4, <3>1, BeginCovers
            <4> QED BY <4>1 DEF Covered
        <3>2. CASE Recording = <<>>
            <4>1. Len(Recording) = 0 BY <3>2
            <4>2. 1..0 = {} BY SMT
            <4> QED BY <2>4, <4>1, <4>2 DEF Records
        <3> QED BY <2>3, <3>1, <3>2
    <2> QED BY <2>2, <2>4 DEF AllCovered
<1>3. ASSUME NEW w \in Writers, Check(w) PROVE AllCovered'
    <2>1. UNCHANGED <<task, debug_enabled>> BY <1>3 DEF Check, thrVars
    <2>2. \A l \in Layers : Records(l)' <=> Records(l) BY <2>1, RecordsSame
    <2>3. wpc[w] = "check" BY <1>3 DEF Check
    <2>4. \/ task[Layer(w)] = 0 /\ Goto(w, "create") /\ UNCHANGED <<wk, wlist>>
          \/ task[Layer(w)] # 0 /\ Advance(w, "check", "branch990")
        BY <1>3 DEF Check
    <2>5. \A x \in Writers \ {w} :
              wpc'[x] = wpc[x] /\ wk'[x] = wk[x] /\ wlist'[x] = wlist[x]
        BY <2>4, AdvanceMovesOne, GotoMovesOne
    <2>6. ASSUME NEW l \in Layers, Records(l) PROVE Covered(l)'
        <3>1. ASSUME task[l] = 0, Ahead(w, l) PROVE Ahead(w, l)'
            <4>1. CASE task[Layer(w)] = 0 /\ Goto(w, "create") /\ UNCHANGED <<wk, wlist>>
                <5>1. wpc'[w] = "create" BY <4>1, GotoMovesOne
                <5> QED BY <2>3, <3>1, <4>1, <5>1 DEF Ahead, Later
            <4>2. CASE task[Layer(w)] # 0 /\ Advance(w, "check", "branch990")
                <5>1. l # Layer(w) BY <3>1, <4>2
                <5> QED BY <2>3, <3>1, <4>2, <5>1, AdvanceKeepsAhead
            <4> QED BY <2>4, <4>1, <4>2
        <3>2. Covered(l) BY <1>d, <2>6
        <3> QED BY <2>1, <2>5, <3>1, <3>2, CoveredStays
    <2> QED BY <2>2, <2>6 DEF AllCovered
<1>4. ASSUME NEW w \in Writers, Create(w) PROVE AllCovered'
    <2> DEFINE m == Layer(w)
               n == made[m] + 1
    <2>1. wpc[w] = "create" /\ m \in Layers
        BY <1>4, LayerIsLayer DEF Create, AtLayer
    <2>2. /\ task' = [task EXCEPT ![m] = n] /\ debug_enabled' = debug_enabled
          /\ Advance(w, "check", "branch990")
        BY <1>4 DEF Create
    <2>3. n # 0
        <3>1. made[m] \in Nat BY <2>1 DEF TypeOK
        <3> QED BY <3>1, SMT
    <2> HIDE DEF m, n
    <2>4. task'[m] = n /\ \A l \in Layers : l # m => task'[l] = task[l]
        BY <2>1, <2>2 DEF TypeOK
    <2>5. \A l \in Layers : Records(l)' <=> Records(l) BY <2>2, RecordsSame
    <2>6. \A x \in Writers \ {w} :
              wpc'[x] = wpc[x] /\ wk'[x] = wk[x] /\ wlist'[x] = wlist[x]
        BY <2>2, AdvanceMovesOne
    <2>7. ASSUME NEW l \in Layers, Records(l) PROVE Covered(l)'
        <3>1. Covered(l) BY <1>d, <2>7
        <3>2. task'[l] = task[l] \/ task'[l] # 0 BY <2>3, <2>4, <2>7
        <3>3. ASSUME task[l] = 0, Ahead(w, l) PROVE task'[l] # 0 \/ Ahead(w, l)'
            <4>1. CASE l = m BY <2>3, <2>4, <4>1
            <4>2. CASE l # m BY <2>1, <2>2, <3>3, <4>2, AdvanceKeepsAhead DEF m
            <4> QED BY <4>1, <4>2
        <3> QED BY <2>6, <3>1, <3>2, <3>3, CoveredStays
    <2> QED BY <2>5, <2>7 DEF AllCovered
<1>5. ASSUME NEW w \in Writers, Branch990(w) PROVE AllCovered'
    <2>1. UNCHANGED <<task, debug_enabled>> BY <1>5 DEF Branch990, thrVars
    <2>2. \A l \in Layers : Records(l)' <=> Records(l) BY <2>1, RecordsSame
    <2>3. CASE debug_enabled = STOP BY <1>s, <2>1, <2>3
    <2>4. CASE debug_enabled # STOP
        <3>1. /\ wpc[w] \in {"branch990"}
              /\ Goto(w, "branch990") \/ Goto(w, "idle")
              /\ UNCHANGED <<wk, wlist>>
            BY <1>5, <2>4 DEF Branch990
        <3>2. \A x \in Writers \ {w} : wpc'[x] = wpc[x] BY <3>1, GotoMovesOne
        <3>3. \A l : ~Ahead(w, l) BY <3>1 DEF Ahead
        <3>4. ASSUME NEW l \in Layers, Records(l) PROVE Covered(l)'
            <4>1. Covered(l) BY <1>d, <3>4
            <4> QED BY <2>1, <3>1, <3>2, <3>3, <4>1, CoveredStays
        <3> QED BY <2>2, <3>4 DEF AllCovered
    <2> QED BY <2>3, <2>4
<1>6. ASSUME NEW w \in Writers, StopCheck(w) \/ StopCall(w) \/ StopWait(w)
      PROVE  AllCovered'
    <2>1. wpc[w] \in StopPlaces /\ debug_enabled' = debug_enabled
        BY <1>6 DEF StopCheck, StopCall, StopWait, StopPlaces
    <2> QED BY <1>s, <2>1
<1>7. ASSUME NEW t \in Threads, OpenFails(t) \/ Exit(t) PROVE AllCovered'
    <2>1. UNCHANGED <<task, debug_enabled, wpc, wk, wlist>>
        BY <1>7 DEF OpenFails, Exit, wrVars
    <2> QED BY <2>1, <1>d DEF AllCovered, Covered, Ahead, Later, Records, Recording
<1>8. CASE UNCHANGED vars
    <2>1. UNCHANGED <<task, debug_enabled, wpc, wk, wlist>>
        BY <1>8 DEF vars, thrVars, wrVars
    <2> QED BY <2>1, <1>d DEF AllCovered, Covered, Ahead, Later, Records, Recording
<1> QED
    BY <1>1, <1>2, <1>3, <1>4, <1>5, <1>6, <1>7, <1>8 DEF Next, WriterStep

\* The thread a creation makes is the one the pointer names, and nobody else's.
LEMMA CreateRuns ==
    ASSUME TypeOK, NEW w \in Writers, Create(w)
    PROVE  /\ \A l \in Layers : TaskRuns(l) => TaskRuns(l)'
           /\ asked' = asked /\ alive' \cap asked = alive \cap asked
<1> DEFINE m == Layer(w)
           n == made[m] + 1
<1>1. m \in Layers BY LayerIsLayer DEF Create, AtLayer
<1>2. /\ task' = [task EXCEPT ![m] = n] /\ alive' = alive \cup {<<m, n>>}
      /\ UNCHANGED <<asked, fo>>
    BY DEF Create
<1>3. n \notin 1..made[m]
    <2>1. made[m] \in Nat BY <1>1 DEF TypeOK
    <2> QED BY <2>1
<1> HIDE DEF m, n
<1>4. task'[m] = n /\ \A l \in Layers : l # m => task'[l] = task[l]
    BY <1>1, <1>2 DEF TypeOK
<1>5. <<m, n>> \notin Threads BY <1>3 DEF Threads
<1>6. <<m, n>> \notin asked BY <1>5 DEF TypeOK
<1> QED BY <1>2, <1>4, <1>6 DEF TaskRuns

\* A thread that ends unasked has failed to open its file.
LEMMA FailRuns ==
    ASSUME TypeOK, NEW t \in Threads, OpenFails(t) \/ (Exit(t) /\ t \notin asked),
           NEW l \in Layers, TaskRuns(l)
    PROVE  TaskRuns(l)'
<1>1. CASE OpenFails(t)
    <2>1. UNCHANGED <<task, alive>> /\ fo' = [fo EXCEPT ![t[1]] = 1]
        BY <1>1 DEF OpenFails
    <2>2. fo'[l] = 0 => fo[l] = 0 BY <2>1 DEF TypeOK
    <2> QED BY <2>1, <2>2 DEF TaskRuns
<1>2. CASE Exit(t) /\ t \notin asked
    <2>1. fo[t[1]] = 1 /\ alive' = alive \ {t} /\ UNCHANGED <<task, fo>>
        BY <1>2 DEF Exit
    <2>2. fo[l] = 0 => <<l, task[l]>> # t BY <2>1
    <2> QED BY <2>1, <2>2 DEF TaskRuns
<1> QED BY <1>1, <1>2

\* Every step of a session that nobody has stopped keeps its threads.
LEMMA StartStep == TypeOK /\ StartInv /\ [Next]_vars => StartInv'
<1> SUFFICES ASSUME TypeOK, StartInv, [Next]_vars, ~stops'
             PROVE  /\ \A w \in Writers : wpc'[w] \notin StopPlaces
                    /\ asked' = {}
                    /\ \A l \in Layers : TaskRuns(l)'
                    /\ AllCovered'
    BY DEF StartInv
<1>0. ~stops
    BY DEF Next, WriterStep, Write, Branch, Check, Create, Branch990, StopCheck,
           StopCall, StopWait, OpenFails, Exit, vars, hisVars
<1>a. \A w \in Writers : wpc[w] \notin StopPlaces BY <1>0 DEF StartInv
<1>b. asked = {} BY <1>0 DEF StartInv
<1>c. \A l \in Layers : TaskRuns(l) BY <1>0 DEF StartInv
<1>d. AllCovered' BY <1>0, <1>a, CoverStep DEF StartInv
<1> DEFINE Goal == /\ \A w \in Writers : wpc'[w] \notin StopPlaces
                   /\ asked' = {}
                   /\ \A l \in Layers : TaskRuns(l)'
<1>1. ASSUME NEW w \in Writers,
             (\E v \in CtlVals \cup {Unparsable} : Write(w, v)) \/ Branch(w) \/ Check(w)
                 \/ Branch990(w)
      PROVE  Goal
    <2>1. UNCHANGED <<task, alive, fo, asked>>
        BY <1>1 DEF Write, Branch, Check, Branch990, thrVars
    <2>2. /\ wpc'[w] \in {"branch", "check", "create", "branch990", "idle"}
          /\ \A x \in Writers \ {w} : wpc'[x] = wpc[x]
        <3>1. CASE (\E v \in CtlVals \cup {Unparsable} : Write(w, v)) \/ Branch990(w)
            BY <3>1, GotoMovesOne DEF Write, Branch990
        <3>2. CASE Branch(w) BY <3>2, BeginMovesOne, GotoMovesOne DEF Branch
        <3>3. CASE Check(w) BY <3>3, AdvanceMovesOne, GotoMovesOne DEF Check
        <3> QED BY <1>1, <3>1, <3>2, <3>3
    <2> QED BY <2>1, <2>2, <1>a, <1>b, <1>c DEF StopPlaces, TaskRuns
<1>2. ASSUME NEW w \in Writers, Create(w) PROVE Goal
    <2>1. /\ wpc'[w] \in {"check", "branch990"}
          /\ \A x \in Writers \ {w} : wpc'[x] = wpc[x]
        BY <1>2, AdvanceMovesOne DEF Create
    <2> QED BY <1>2, <2>1, <1>a, <1>b, <1>c, CreateRuns DEF StopPlaces
<1>3. ASSUME NEW w \in Writers, StopCheck(w) \/ StopCall(w) \/ StopWait(w) PROVE Goal
    BY <1>3, <1>a DEF StopCheck, StopCall, StopWait, StopPlaces
<1>4. ASSUME NEW t \in Threads, OpenFails(t) \/ Exit(t) PROVE Goal
    <2>1. UNCHANGED <<asked, wpc>> BY <1>4 DEF OpenFails, Exit, wrVars
    <2>2. \A l \in Layers : TaskRuns(l)' BY <1>4, <1>b, <1>c, FailRuns
    <2> QED BY <2>1, <2>2, <1>a, <1>b
<1>5. ASSUME UNCHANGED vars PROVE Goal
    <2>1. UNCHANGED <<task, alive, fo, asked, wpc>> BY <1>5 DEF vars, thrVars, wrVars
    <2> QED BY <2>1, <1>a, <1>b, <1>c DEF TaskRuns
<1> QED
    BY <1>d, <1>1, <1>2, <1>3, <1>4, <1>5 DEF Next, WriterStep

\* Any number of users: as long as none writes 990, a layer that records has
\* its thread once the writes have returned, however they interleaved
\* (aiopro_run_kths, aiopro_run_kth, init_aiopro_X).
THEOREM StartersAgreeAlways == Spec => []StartersAgree
<1>1. Init => StartInv
    <2> SUFFICES ASSUME Init PROVE StartInv OBVIOUS
    <2>1. Recording = <<>> BY DEF Init, Recording
    <2>2. AllCovered
        <3>1. Len(Recording) = 0 BY <2>1
        <3>2. 1..0 = {} BY SMT
        <3> QED BY <3>1, <3>2 DEF AllCovered, Records
    <2>3. \A l \in Layers : TaskRuns(l) BY DEF Init, TaskRuns
    <2>4. \A w \in Writers : wpc[w] \notin StopPlaces BY DEF Init, StopPlaces
    <2> QED BY <2>2, <2>3, <2>4 DEF Init, StartInv
<1>2. TypeOK /\ StartInv => StartersAgree
    <2> SUFFICES ASSUME TypeOK, StartInv, ~stops, Quiet, NEW k \in 1..Len(Recording),
                        fo[Recording[k]] = 0
                 PROVE  <<Recording[k], task[Recording[k]]>> \in alive
        BY DEF StartersAgree, ActiveLayerHasThread, Recording
    <2>1. \A w \in Writers : ~Ahead(w, Recording[k]) BY DEF Quiet, Ahead
    <2>3. Recording[k] \in Layers BY RecordingIsList
    <2>2. task[Recording[k]] # 0 BY <2>1, <2>3 DEF StartInv, AllCovered, Covered, Records
    <2> QED BY <2>2, <2>3 DEF StartInv, TaskRuns
<1> QED BY <1>1, <1>2, StartStep, KTypeCorrect, PTL DEF Spec
-----------------------------------------------------------------------------
(* One user.                                                               *)

\* One writer never collides.
LEMMA SoleWriterAlone ==
    ASSUME NEW CONSTANT u, Writers = {u} PROVE Spec => []~met
<1>1. Init => ~met BY DEF Init
<1>2. ~met /\ [Next]_vars => ~met'
    BY DEF Next, WriterStep, Colliding, Write, OpenFails, Exit, hisVars, vars
<1> QED BY <1>1, <1>2, PTL DEF Spec

\* Inside the stop pass the only writer finds what it read there: 990.
PlaceKnown(u) == wpc[u] \in StopPlaces => debug_enabled = STOP

LEMMA PlaceStep ==
    ASSUME NEW u, Writers = {u}, TypeOK, PlaceKnown(u), [Next]_vars
    PROVE  PlaceKnown(u)'
<1> u \in Writers OBVIOUS
<1>1. CASE UNCHANGED vars BY <1>1 DEF vars, wrVars, PlaceKnown
<1>2. ASSUME NEW t \in Threads, OpenFails(t) \/ Exit(t) PROVE PlaceKnown(u)'
    BY <1>2 DEF OpenFails, Exit, wrVars, PlaceKnown
<1>3. ASSUME NEW v \in CtlVals \cup {Unparsable}, Write(u, v) PROVE PlaceKnown(u)'
    <2>1. wpc'[u] = "branch" BY <1>3, GotoMovesOne DEF Write
    <2> QED BY <2>1 DEF PlaceKnown, StopPlaces
<1>4. CASE Branch(u) \/ Check(u) \/ Create(u)
    <2>1. wpc'[u] \in {"check", "create", "branch990"}
        <3>1. CASE Branch(u) BY <3>1, BeginMovesOne, GotoMovesOne DEF Branch
        <3>2. CASE Check(u) BY <3>2, AdvanceMovesOne, GotoMovesOne DEF Check
        <3>3. CASE Create(u) BY <3>3, AdvanceMovesOne DEF Create
        <3> QED BY <1>4, <3>1, <3>2, <3>3
    <2> QED BY <2>1 DEF PlaceKnown, StopPlaces
<1>5. CASE Branch990(u)
    <2>1. debug_enabled' = debug_enabled /\ (debug_enabled = STOP \/ Goto(u, "idle"))
        BY <1>5 DEF Branch990
    <2> QED BY <2>1, GotoMovesOne DEF PlaceKnown, StopPlaces
<1>6. CASE StopCheck(u) \/ StopCall(u) \/ StopWait(u)
    <2>1. wpc[u] \in StopPlaces /\ UNCHANGED debug_enabled
        BY <1>6 DEF StopCheck, StopCall, StopWait, StopPlaces
    <2> QED BY <2>1 DEF PlaceKnown
<1> QED
    BY <1>1, <1>2, <1>3, <1>4, <1>5, <1>6 DEF Next, WriterStep

\* With one user: only the thread being waited for has been asked to end, and
\* only its pointer may name a thread that is gone.
RunKnown(u) ==
    /\ \A l \in Layers : (wpc[u] = "stopwait" /\ Layer(u) = l) \/ TaskRuns(l)
    /\ \A t \in alive \cap asked : wpc[u] = "stopwait" /\ t = <<Layer(u), task[Layer(u)]>>

\* Every step of the only writer, and of the threads, keeps this.
LEMMA RunStep ==
    ASSUME NEW u, Writers = {u}, TypeOK, RunKnown(u), [Next]_vars,
           wpc[u] = "stopwait" => task[Layer(u)] = wt[u]
    PROVE  RunKnown(u)'
<1> u \in Writers OBVIOUS
<1>1. CASE UNCHANGED vars BY <1>1 DEF vars, thrVars, wrVars, RunKnown, TaskRuns, Layer
<1>2. ASSUME NEW t \in Threads, OpenFails(t) PROVE RunKnown(u)'
    <2>1. UNCHANGED <<task, alive, asked, wpc, wk, wlist>> BY <1>2 DEF OpenFails, wrVars
    <2>2. \A l \in Layers : TaskRuns(l) => TaskRuns(l)' BY <1>2, FailRuns
    <2> QED BY <2>1, <2>2 DEF RunKnown, Layer
<1>3. ASSUME NEW t \in Threads, Exit(t) PROVE RunKnown(u)'
    <2>1. UNCHANGED <<task, fo, asked, wpc, wk, wlist>> /\ alive' = alive \ {t}
        BY <1>3 DEF Exit, wrVars
    <2>2. CASE t \notin asked
        <3>1. \A l \in Layers : TaskRuns(l) => TaskRuns(l)' BY <1>3, <2>2, FailRuns
        <3> QED BY <2>1, <3>1 DEF RunKnown, Layer
    <2>3. CASE t \in asked
        <3>1. wpc[u] = "stopwait" /\ t = <<Layer(u), task[Layer(u)]>>
            BY <1>3, <2>3 DEF RunKnown, Exit
        <3>2. \A l \in Layers : l # Layer(u) => (TaskRuns(l) => TaskRuns(l)')
            BY <2>1, <3>1 DEF TaskRuns
        <3> QED BY <2>1, <3>1, <3>2 DEF RunKnown, Layer
    <2> QED BY <2>2, <2>3
<1>4. ASSUME (\E v \in CtlVals \cup {Unparsable} : Write(u, v)) \/ Branch(u) \/ Check(u)
                 \/ Branch990(u) \/ StopCheck(u)
      PROVE  RunKnown(u)'
    <2>1. UNCHANGED <<task, alive, fo, asked>>
        BY <1>4 DEF Write, Branch, Check, Branch990, StopCheck, thrVars
    <2>2. wpc[u] # "stopwait"
        BY <1>4 DEF Write, Branch, Check, Branch990, StopCheck
    <2>3. (\A l \in Layers : TaskRuns(l)') /\ alive' \cap asked' = {}
        BY <2>1, <2>2 DEF RunKnown, TaskRuns
    <2> QED BY <2>3 DEF RunKnown
<1>5. CASE Create(u)
    <2>1. wpc[u] # "stopwait" BY <1>5 DEF Create
    <2>2. (\A l \in Layers : TaskRuns(l)') /\ alive' \cap asked' = {}
        BY <1>5, <2>1, CreateRuns DEF RunKnown
    <2> QED BY <2>2 DEF RunKnown
<1>6. CASE StopCall(u)
    <2>1. wpc[u] = "stopcall" /\ UNCHANGED <<task, alive, fo, wk, wlist>>
        BY <1>6 DEF StopCall
    <2>2. (\A l \in Layers : TaskRuns(l)') /\ alive \cap asked = {}
        BY <2>1 DEF RunKnown, TaskRuns
    <2>3. \/ wpc'[u] = "stopwait" /\ asked' = asked \cup {<<Layer(u), task[Layer(u)]>>}
          \/ asked' = asked
        BY <1>6, GotoMovesOne DEF StopCall
    <2>4. Layer(u)' = Layer(u) BY <2>1 DEF Layer
    <2> QED BY <2>1, <2>2, <2>3, <2>4 DEF RunKnown
<1>7. CASE StopWait(u)
    <2>1. wpc[u] = "stopwait" /\ wpc[u] \in AtLayer BY <1>7 DEF StopWait, AtLayer
    <2>2. /\ <<Layer(u), task[Layer(u)]>> \notin alive
          /\ task' = [task EXCEPT ![Layer(u)] = 0] /\ UNCHANGED <<alive, asked, fo>>
        BY <1>7, <2>1 DEF StopWait
    <2>3. Layer(u) \in Layers BY <2>1, LayerIsLayer
    <2>4. task'[Layer(u)] = 0 /\ \A l \in Layers : l # Layer(u) => task'[l] = task[l]
        BY <2>2, <2>3 DEF TypeOK
    <2>5. alive' \cap asked' = {} BY <2>2 DEF RunKnown
    <2>6. \A l \in Layers : TaskRuns(l)' BY <2>2, <2>4 DEF RunKnown, TaskRuns
    <2> QED BY <2>5, <2>6 DEF RunKnown
<1> QED
    BY <1>1, <1>2, <1>3, <1>4, <1>5, <1>6, <1>7 DEF Next, WriterStep

\* One user: once a write has returned, a recording layer has its thread unless
\* its file failed, after any number of starts, stops and texts that do not
\* parse (sec_debug_write, init_aiopro_X, stop_aiopro).
THEOREM ActiveHasThread ==
    ASSUME NEW CONSTANT u, Writers = {u} PROVE Spec => []ActiveLayerHasThread
<1> DEFINE Inv == PlaceKnown(u) /\ RunKnown(u) /\ AllCovered
<1>1. Init => Inv
    <2> SUFFICES ASSUME Init PROVE Inv OBVIOUS
    <2>2. PlaceKnown(u) BY DEF Init, PlaceKnown, StopPlaces
    <2>3. RunKnown(u) BY DEF Init, RunKnown, TaskRuns
    <2>4. AllCovered
        <3>1. Recording = <<>> BY DEF Init, Recording
        <3>2. Len(Recording) = 0 BY <3>1
        <3>3. 1..0 = {} BY SMT
        <3> QED BY <3>2, <3>3 DEF AllCovered, Records
    <2> QED BY <2>2, <2>3, <2>4
<1>2. TypeOK /\ OrphanInv /\ ~met /\ Inv /\ [Next]_vars => Inv'
    <2> SUFFICES ASSUME TypeOK, OrphanInv, ~met, Inv, [Next]_vars PROVE Inv' OBVIOUS
    <2>1. wpc[u] = "stopwait" => task[Layer(u)] = wt[u] BY DEF OrphanInv, PointersKnown
    <2>3. PlaceKnown(u)' BY PlaceStep
    <2>4. RunKnown(u)' BY <2>1, RunStep
    <2>5. AllCovered' BY CoverStep DEF PlaceKnown
    <2> QED BY <2>3, <2>4, <2>5
<1>3. Inv => ActiveLayerHasThread
    <2> SUFFICES ASSUME Inv, Quiet, NEW k \in 1..Len(Recording), fo[Recording[k]] = 0
                 PROVE  <<Recording[k], task[Recording[k]]>> \in alive
        BY DEF ActiveLayerHasThread, Recording
    <2>1. \A w \in Writers : ~Ahead(w, Recording[k]) BY DEF Quiet, Ahead
    <2>2. Recording[k] \in Layers BY RecordingIsList
    <2>3. task[Recording[k]] # 0 BY <2>1, <2>2 DEF AllCovered, Covered, Records
    <2> QED BY <2>2, <2>3 DEF RunKnown, TaskRuns, Quiet
<1> QED BY <1>1, <1>2, <1>3, KTypeCorrect, OrphanInvariant, SoleWriterAlone, PTL DEF Spec
=============================================================================
