------------------------- MODULE RequestTimesProofs -------------------------
(* What holds of RequestTimes for every number of queues, entries and      *)
(* requests.                                                               *)
EXTENDS RequestTimes, FiniteSetTheorems, TLAPS

\* A submission more keeps what is known of the others.
LEMMA AppendSub ==
    ASSUME NEW s \in Seq(Request), NEW r \in Request
    PROVE  /\ Append(s, r) \in Seq(Request)
           /\ Len(Append(s, r)) = Len(s) + 1
           /\ \A n \in 1..Len(s) : Append(s, r)[n] = s[n]
           /\ Append(s, r)[Len(s) + 1] = r
    OBVIOUS

\* An assignment to one queue's word keeps the words in a wider range.
LEMMA Widen ==
    ASSUME NEW S, NEW A, NEW B, A \subseteq B, NEW f \in [S -> A], NEW x \in S, NEW v \in B
    PROVE  [f EXCEPT ![x] = v] \in [S -> B] /\ f \in [S -> B]
    OBVIOUS

\* The submission at hand is one of those made.
LEMMA AtHand ==
    ASSUME TypeOK, NEW q \in Queues, pc[q] # "idle"
    PROVE  /\ Len(subs) \in Nat /\ cur[q] \in 1..Len(subs)
           /\ subs[cur[q]] \in Request /\ subs[cur[q]].lba \in Lbas
<1>1. Len(subs) \in Nat /\ subs \in Seq(Request) BY DEF TypeOK
<1>2. cur[q] \in 1..Len(subs) BY <1>1 DEF TypeOK, LocalTypes, None
<1>3. subs[cur[q]] \in Request BY <1>1, <1>2
<1> QED BY <1>1, <1>2, <1>3 DEF Request

LEMMA IssueType ==
    ASSUME TypeOK, NEW q \in Queues, NEW r \in Request, Issue(q, r), again' \subseteq again
    PROVE  TypeOK'
<1> DEFINE n == Len(subs) + 1
<1>0. Len(subs) \in Nat BY DEF TypeOK
<1>1. subs' \in Seq(Request) /\ Len(subs)' = n /\ n <= MaxSubmits
    BY AppendSub DEF TypeOK, Issue
<1>2. /\ n \in Ids /\ 0..Len(subs) \subseteq 0..n /\ 1..Len(subs) \subseteq 1..n /\ n \in 1..n
      /\ n # None /\ n \in 0..n
    BY <1>0, <1>1, RequestAssumption DEF RequestAssumption, Ids, None
<1>3. ListTypes'
    <2>1. UNCHANGED <<listVars, past>> /\ overlaps' \in {overlaps, overlaps + 1}
          /\ overlaps' <= MaxOverlaps /\ rq_prev' \in {rq_prev, n}
        BY DEF Issue
    <2>2. overlaps' \in 0..MaxOverlaps
        BY <2>1, RequestAssumption DEF RequestAssumption, TypeOK, ListTypes
    <2>3. rq_prev' \in 0..n /\ start' \in [Slots -> 0..n]
        BY <2>1, <1>2 DEF TypeOK, ListTypes, listVars
    <2> QED BY <1>1, <2>1, <2>2, <2>3 DEF TypeOK, ListTypes, listVars
<1>4. LocalTypes'
    <2>0. UNCHANGED <<arg, reg, i>> BY DEF Issue
    <2>1. cur \in [Queues -> 0..n] /\ arg \in [Queues -> 0..n]
        BY <1>2 DEF TypeOK, LocalTypes
    <2>2. CASE Stamped(r)
        <3>1. pc' = [pc EXCEPT ![q] = "pass"] /\ cur' = [cur EXCEPT ![q] = n]
            BY <2>2 DEF Issue, Goto
        <3>2. pc' \in [Queues -> {"idle"} \cup AddPcs \cup FindPcs]
            BY <3>1 DEF TypeOK, LocalTypes, AddPcs
        <3>3. cur' \in [Queues -> 0..n]
            BY <3>1, <2>1, <1>2, Widen
        <3>4. \A p \in Queues : pc'[p] # "idle" => cur'[p] # None
            BY <3>1, <2>1, <1>2 DEF TypeOK, LocalTypes
        <3>5. \A p \in Queues : pc'[p] = "take" => i'[p] \in Slots
            BY <3>1, <2>0 DEF TypeOK, LocalTypes
        <3> QED BY <1>1, <2>0, <2>1, <3>2, <3>3, <3>4, <3>5 DEF TypeOK, LocalTypes
    <2>3. CASE ~Stamped(r)
        <3>1. UNCHANGED <<pc, cur>> BY <2>3 DEF Issue
        <3> QED BY <1>1, <2>0, <2>1, <3>1 DEF TypeOK, LocalTypes
    <2> QED BY <2>2, <2>3
<1>5. LogTypes'
    <2>1. flight' \subseteq 1..n
        <3>1. flight' \subseteq flight \cup {n} BY DEF Issue
        <3> QED BY <3>1, <1>2 DEF TypeOK, LogTypes
    <2>2. raced' \subseteq 1..n
        <3>1. \A p \in Finding : cur[p] \in 1..Len(subs)
            BY AtHand DEF Finding, FindPcs
        <3>2. raced' \subseteq raced \cup {cur[p] : p \in Finding}
            BY DEF Issue
        <3> QED BY <3>1, <3>2, <1>2 DEF TypeOK, LogTypes
    <2>3. again' \subseteq 1..n BY <1>2 DEF TypeOK, LogTypes
    <2>4. logged' \in [Ids -> 0..n] /\ endAt' \in [Ids -> 0..n]
        BY <1>2 DEF TypeOK, LogTypes, Issue
    <2> QED BY <1>1, <2>1, <2>2, <2>3, <2>4 DEF LogTypes
<1> QED BY <1>1, <1>3, <1>4, <1>5 DEF TypeOK

LEMMA RingType ==
    ASSUME TypeOK, NEW q \in Queues, pc[q] # "idle", Ring(q), UNCHANGED <<subs, i>>
    PROVE  LocalTypes' /\ flight' \subseteq 1..Len(subs)
<1>1. cur[q] \in 1..Len(subs) /\ None \in 0..Len(subs) BY AtHand DEF None
<1>2. pc' \in [Queues -> {"idle"} \cup AddPcs \cup FindPcs]
    BY DEF TypeOK, LocalTypes, Ring, Goto
<1>3. cur' \in [Queues -> 0..Len(subs)] /\ arg' \in [Queues -> 0..Len(subs)]
    BY <1>1 DEF TypeOK, LocalTypes, Ring
<1>4. reg' \in [Queues -> Nat]
    BY <1>1 DEF TypeOK, LocalTypes, Ring
<1>5. /\ \A p \in Queues : pc'[p] # "idle" => cur'[p] # None
      /\ \A p \in Queues : pc'[p] = "take" => i'[p] \in Slots
    BY DEF TypeOK, LocalTypes, Ring, Goto
<1>6. flight' \subseteq 1..Len(subs) BY <1>1 DEF TypeOK, LogTypes, Ring
<1> QED BY <1>2, <1>3, <1>4, <1>5, <1>6 DEF TypeOK, LocalTypes

\* A step to another place of add_rq_start that assigns no more than reg.
LEMMA MoveType ==
    ASSUME TypeOK, NEW q \in Queues, pc[q] # "idle", NEW place \in AddPcs, Goto(q, place),
           reg' \in [Queues -> Nat], arg' \in [Queues -> 0..Len(subs)], UNCHANGED <<cur, i, subs>>
    PROVE  LocalTypes'
<1>1. /\ pc' \in [Queues -> {"idle"} \cup AddPcs \cup FindPcs]
      /\ \A p \in Queues : pc'[p] # "idle" => cur'[p] # None
    BY DEF TypeOK, LocalTypes, Goto
<1>2. \A p \in Queues : pc'[p] = "take" => i'[p] \in Slots
    BY DEF TypeOK, LocalTypes, Goto, AddPcs
<1> QED BY <1>1, <1>2 DEF TypeOK, LocalTypes

LEMMA AddType ==
    ASSUME TypeOK, NEW q \in Queues, AddStep(q)
    PROVE  TypeOK'
<1>0. pc[q] # "idle" /\ UNCHANGED subs
    BY DEF AddStep, Pass, StoreLba, StoreTime, LoadNum, StoreNum, TestNum, WrapNum, TestMax, GrowMax
<1>1. CASE Pass(q)
    <2>1. LocalTypes' BY <1>0, <1>1, MoveType DEF Pass, TypeOK, LocalTypes, ListTypes, AddPcs
    <2> QED BY <1>1, <2>1 DEF TypeOK, Pass, ListTypes, LogTypes, listVars, logVars, histVars
<1>2. CASE StoreLba(q)
    <2>1. lba' \in [Slots -> Lbas \cup {0}]
        BY <1>0, <1>2, AtHand DEF TypeOK, ListTypes, StoreLba
    <2>2. LocalTypes' BY <1>0, <1>2, MoveType DEF StoreLba, TypeOK, LocalTypes, ListTypes, AddPcs
    <2> QED BY <1>2, <2>1, <2>2 DEF TypeOK, StoreLba, ListTypes, LogTypes, logVars
<1>3. CASE StoreTime(q)
    <2> PICK m \in Reload(q, rq_num) :
           /\ reg' = [reg EXCEPT ![q] = m]
           /\ start' = IF m \in Slots THEN [start EXCEPT ![m] = arg[q]] ELSE start
           /\ past' = (m \notin Slots)
        BY <1>3 DEF StoreTime
    <2>1. m \in Nat BY DEF Reload, TypeOK, LocalTypes, ListTypes
    <2>2. start' \in [Slots -> 0..Len(subs)] BY DEF TypeOK, LocalTypes, ListTypes
    <2>3. reg' \in [Queues -> Nat] BY <2>1 DEF TypeOK, LocalTypes
    <2>4. LocalTypes' BY <1>0, <1>3, <2>3, MoveType DEF StoreTime, TypeOK, LocalTypes, AddPcs
    <2> QED BY <1>3, <2>2, <2>4 DEF TypeOK, StoreTime, ListTypes, LogTypes, logVars
<1>4. CASE LoadNum(q)
    <2>1. reg' \in [Queues -> Nat] BY <1>4 DEF LoadNum, Reload, TypeOK, LocalTypes, ListTypes
    <2>2. LocalTypes' BY <1>0, <1>4, <2>1, MoveType DEF LoadNum, TypeOK, LocalTypes, AddPcs
    <2> QED BY <1>4, <2>2 DEF TypeOK, LoadNum, ListTypes, LogTypes, listVars, logVars, histVars
<1>5. CASE StoreNum(q)
    <2>1. reg' \in [Queues -> Nat] /\ rq_num' \in Nat BY <1>5 DEF StoreNum, TypeOK, LocalTypes
    <2>2. LocalTypes' BY <1>0, <1>5, <2>1, MoveType DEF StoreNum, TypeOK, LocalTypes, AddPcs
    <2> QED BY <1>5, <2>1, <2>2 DEF TypeOK, StoreNum, ListTypes, LogTypes, logVars, histVars
<1>6. CASE TestNum(q)
    <2>1. PICK place \in {"wrap", "max"} : Goto(q, place) BY <1>6 DEF TestNum
    <2>2. LocalTypes' BY <1>0, <1>6, <2>1, MoveType DEF TestNum, TypeOK, LocalTypes, AddPcs
    <2> QED BY <1>6, <2>2 DEF TypeOK, TestNum, ListTypes, LogTypes, listVars, logVars, histVars
<1>7. CASE WrapNum(q)
    <2>1. LocalTypes' BY <1>0, <1>7, MoveType DEF WrapNum, TypeOK, LocalTypes, AddPcs
    <2> QED BY <1>7, <2>1 DEF TypeOK, WrapNum, ListTypes, LogTypes, logVars, histVars
<1>8. CASE TestMax(q)
    <2>1. LocalTypes' /\ flight' \subseteq 1..Len(subs)
        <3>1. CASE rq_max < RQMAX
            <4>1. LocalTypes'
                BY <1>0, <1>8, <3>1, MoveType DEF TestMax, TypeOK, LocalTypes, ListTypes, AddPcs
            <4> QED BY <1>8, <3>1, <4>1 DEF TestMax, TypeOK, LogTypes
        <3>2. CASE ~(rq_max < RQMAX)
            BY <1>0, <1>8, <3>2, RingType DEF TestMax
        <3> QED BY <3>1, <3>2
    <2> QED BY <1>8, <2>1 DEF TypeOK, TestMax, ListTypes, LogTypes, listVars, histVars
<1>9. CASE GrowMax(q)
    <2>1. LocalTypes' /\ flight' \subseteq 1..Len(subs)
        BY <1>0, <1>9, RingType DEF GrowMax
    <2>2. rq_max' \in Nat BY <1>9 DEF TypeOK, ListTypes, LocalTypes, GrowMax, Reload
    <2> QED BY <1>9, <2>1, <2>2 DEF TypeOK, GrowMax, ListTypes, LogTypes, histVars
<1> QED BY <1>1, <1>2, <1>3, <1>4, <1>5, <1>6, <1>7, <1>8, <1>9 DEF AddStep

LEMMA LogType ==
    ASSUME TypeOK, NEW q \in Queues, pc[q] # "idle", NEW s \in 0..Len(subs), Log(q, s)
    PROVE  TypeOK'
<1>1. Len(subs) \in Nat /\ cur[q] \in 1..Len(subs) BY AtHand
<1>2. again' \subseteq 1..Len(subs) /\ flight' \subseteq 1..Len(subs)
    BY <1>1 DEF Log, TypeOK, LogTypes
<1>3. logged' \in [Ids -> 0..Len(subs)] /\ endAt' \in [Ids -> 0..Len(subs)]
    <2>1. Len(subs) \in 0..Len(subs) BY <1>1
    <2> QED BY <2>1 DEF Log, TypeOK, LogTypes
<1>4. LogTypes' BY <1>2, <1>3 DEF Log, TypeOK, LogTypes, histVars
<1>5. /\ pc' \in [Queues -> {"idle"} \cup AddPcs \cup FindPcs]
      /\ cur' \in [Queues -> 0..Len(subs)] /\ i' \in [Queues -> Nat]
    BY <1>1 DEF Log, TypeOK, LocalTypes, Goto, None
<1>6. /\ \A p \in Queues : pc'[p] # "idle" => cur'[p] # None
      /\ \A p \in Queues : pc'[p] = "take" => i'[p] \in Slots
    BY DEF TypeOK, LocalTypes, Log, Goto
<1>7. LocalTypes' BY <1>5, <1>6 DEF Log, TypeOK, LocalTypes
<1> QED BY <1>4, <1>7 DEF Log, TypeOK, ListTypes, listVars, histVars

LEMMA TypeStep == TypeOK /\ [Next]_vars => TypeOK'
<1> SUFFICES ASSUME TypeOK, [Next]_vars PROVE TypeOK' OBVIOUS
<1>1. ASSUME NEW q \in Queues, QueueRq(q) PROVE TypeOK'
    <2> PICK r \in Requests :
           Issue(q, [queue |-> q, lba |-> r.lba, discard |-> r.discard]) /\ UNCHANGED again
        BY <1>1 DEF QueueRq
    <2>1. [queue |-> q, lba |-> r.lba, discard |-> r.discard] \in Request
        BY RequestAssumption DEF RequestAssumption, Request, Lbas
    <2> QED BY <2>1, IssueType
<1>2. ASSUME NEW q \in Queues, Retry(q) PROVE TypeOK'
    <2> PICK n \in again : Issue(q, subs[n]) /\ again' = again \ {n}
        BY <1>2 DEF Retry
    <2>1. subs[n] \in Request BY DEF TypeOK, LogTypes
    <2> QED BY <2>1, IssueType
<1>3. ASSUME NEW q \in Queues, Finish(q) PROVE TypeOK'
    <2> PICK n \in flight :
           /\ cur' = [cur EXCEPT ![q] = n]
           /\ raced' = IF Adding # {} THEN raced \cup {n} ELSE raced
        BY <1>3 DEF Finish
    <2>1. n \in 1..Len(subs) /\ n \in 0..Len(subs) /\ n # None
        BY DEF TypeOK, LogTypes, None
    <2>2. pc' = [pc EXCEPT ![q] = "find"] /\ i' = [i EXCEPT ![q] = 0]
        BY <1>3 DEF Finish, Goto
    <2>3. /\ pc' \in [Queues -> {"idle"} \cup AddPcs \cup FindPcs]
          /\ cur' \in [Queues -> 0..Len(subs)] /\ i' \in [Queues -> Nat]
        BY <2>1, <2>2 DEF TypeOK, LocalTypes, FindPcs
    <2>4. /\ \A p \in Queues : pc'[p] # "idle" => cur'[p] # None
          /\ \A p \in Queues : pc'[p] = "take" => i'[p] \in Slots
        BY <2>1, <2>2 DEF TypeOK, LocalTypes
    <2>5. LocalTypes' BY <1>3, <2>3, <2>4 DEF Finish, TypeOK, LocalTypes
    <2>6. LogTypes' BY <1>3, <2>1 DEF Finish, TypeOK, LogTypes, logVars
    <2> QED BY <1>3, <2>5, <2>6 DEF TypeOK, Finish, ListTypes, listVars
<1>4. ASSUME NEW q \in Queues, Find(q) PROVE TypeOK'
    <2>1. pc[q] = "find" /\ i[q] \in Nat BY <1>4 DEF Find, TypeOK, LocalTypes
    <2>2. \/ Goto(q, "miss") /\ UNCHANGED i
          \/ Goto(q, "take") /\ UNCHANGED i /\ i[q] \in Slots
          \/ i' = [i EXCEPT ![q] = @ + 1] /\ UNCHANGED pc
        BY <1>4 DEF Find
    <2>3. /\ pc' \in [Queues -> {"idle"} \cup AddPcs \cup FindPcs] /\ i' \in [Queues -> Nat]
          /\ \A p \in Queues : pc'[p] # "idle" => cur[p] # None
          /\ \A p \in Queues : pc'[p] = "take" => i'[p] \in Slots
        <3>1. CASE Goto(q, "miss") /\ UNCHANGED i
            BY <2>1, <3>1 DEF TypeOK, LocalTypes, Goto, FindPcs
        <3>2. CASE Goto(q, "take") /\ UNCHANGED i /\ i[q] \in Slots
            BY <2>1, <3>2 DEF TypeOK, LocalTypes, Goto, FindPcs
        <3>3. CASE i' = [i EXCEPT ![q] = @ + 1] /\ UNCHANGED pc
            BY <2>1, <3>3 DEF TypeOK, LocalTypes
        <3> QED BY <2>2, <3>1, <3>2, <3>3
    <2>4. LocalTypes' BY <1>4, <2>3 DEF TypeOK, Find, LocalTypes
    <2> QED BY <1>4, <2>4 DEF TypeOK, Find, ListTypes, LogTypes, listVars, logVars
<1>5. ASSUME NEW q \in Queues, Take(q) PROVE TypeOK'
    BY <1>5, LogType DEF TypeOK, ListTypes, LocalTypes, Take
<1>6. ASSUME NEW q \in Queues, Miss(q) PROVE TypeOK'
    BY <1>6, LogType DEF TypeOK, ListTypes, Miss
<1>7. CASE UNCHANGED vars
    BY <1>7 DEF TypeOK, ListTypes, LocalTypes, LogTypes, vars, listVars, locVars, logVars, histVars
<1> QED BY <1>1, <1>2, <1>3, <1>4, <1>5, <1>6, <1>7, AddType DEF Next, FindStep

LEMMA TypeInit == Init => TypeOK
<1> SUFFICES ASSUME Init PROVE TypeOK OBVIOUS
<1>1. subs \in Seq(Request) /\ Len(subs) = 0 BY DEF Init
<1>2. 0 \in 0..Len(subs) /\ 0 \in Nat /\ 0 \in 0..MaxOverlaps /\ 0 <= MaxSubmits
    BY <1>1, RequestAssumption DEF RequestAssumption
<1>3. ListTypes BY <1>2 DEF Init, ListTypes, None
<1>4. LocalTypes BY <1>2 DEF Init, LocalTypes, None
<1>5. LogTypes BY <1>2 DEF Init, LogTypes, None
<1> QED BY <1>1, <1>2, <1>3, <1>4, <1>5 DEF TypeOK

\* No index, register or logged start leaves its range, whatever the queues
\* do to each other in add_rq_start (it takes none of them into account).
THEOREM RequestTypeCorrect == Spec => []TypeOK
    BY TypeInit, TypeStep, PTL DEF Spec

-----------------------------------------------------------------------------
\* What add_rq_start knows of the list at each of its places, alone in it.
At(q) ==
    /\ pc[q] \notin {"test", "wrap"} => rq_num \in Slots
    /\ pc[q] \in {"time", "load", "store", "test"} => reg[q] = rq_num
    /\ pc[q] = "test" => rq_num \in 0..RQMAX
    /\ pc[q] = "grow" => rq_max < RQMAX /\ reg[q] = rq_max

Inside ==
    /\ ~past /\ rq_max <= RQMAX
    /\ \A p, q \in Queues : pc[p] \in AddPcs /\ pc[q] \in AddPcs => p = q
    /\ \A q \in Queues : pc[q] \in AddPcs => At(q)
    /\ (\A q \in Queues : pc[q] \notin AddPcs) => rq_num \in Slots

InsideInv == TypeOK /\ (overlaps = 0 => Inside)

\* A submission that overlaps no other starts with an index in the list.
LEMMA IssueInside ==
    ASSUME TypeOK, overlaps = 0 => Inside, NEW q \in Queues, NEW r \in Request, Issue(q, r),
           overlaps' = 0
    PROVE  Inside'
<1>1. overlaps = 0 /\ (~r.discard => \A p \in Queues : pc[p] \notin AddPcs)
    <2>1. overlaps \in Nat BY RequestAssumption DEF RequestAssumption, TypeOK, ListTypes
    <2>2. CASE ~r.discard /\ Adding # {}
        BY <2>1, <2>2 DEF Issue
    <2>3. CASE ~(~r.discard /\ Adding # {})
        BY <2>3 DEF Issue, Adding
    <2> QED BY <2>2, <2>3
<1>2. Inside /\ UNCHANGED <<rq_num, rq_max, reg, past>> BY <1>1 DEF Issue, listVars
<1>3. CASE Stamped(r)
    <2>1. pc' = [pc EXCEPT ![q] = "pass"] BY <1>3 DEF Issue, Goto
    <2>2. \A p \in Queues : pc[p] \notin AddPcs BY <1>1, <1>3 DEF Stamped
    <2>3. rq_num \in Slots BY <1>2, <2>2 DEF Inside
    <2>4. \A p \in Queues : pc'[p] \in AddPcs => p = q /\ pc'[p] = "pass"
        BY <2>1, <2>2 DEF TypeOK, LocalTypes
    <2> QED BY <1>2, <2>1, <2>3, <2>4 DEF Inside, At, TypeOK, LocalTypes, AddPcs
<1>4. CASE ~Stamped(r)
    <2>1. UNCHANGED pc BY <1>4 DEF Issue
    <2> QED BY <1>2, <2>1 DEF Inside, At
<1> QED BY <1>3, <1>4

\* Alone in add_rq_start, a queue leaves the list as the next one may find it:
\* what it does to q's place, with the others outside.
LEMMA MoveInside ==
    ASSUME TypeOK, Inside, NEW q \in Queues, pc[q] \in AddPcs, NEW place, Goto(q, place),
           ~past', rq_max' <= RQMAX,
           place \in AddPcs => At(q)', place \notin AddPcs => rq_num' \in Slots
    PROVE  Inside'
<1>1. \A p \in Queues : p # q => pc[p] \notin AddPcs BY DEF Inside
<1>2. \A p \in Queues : pc'[p] \in AddPcs => p = q
    BY <1>1 DEF TypeOK, LocalTypes, Goto
<1>3. pc'[q] = place BY DEF TypeOK, LocalTypes, Goto
<1>4. (\A p \in Queues : pc'[p] \notin AddPcs) => rq_num' \in Slots BY <1>3
<1>5. \A p \in Queues : pc'[p] \in AddPcs => At(p)' BY <1>2, <1>3
<1> QED BY <1>2, <1>4, <1>5 DEF Inside

LEMMA AddInside ==
    ASSUME TypeOK, Inside, NEW q \in Queues, AddStep(q)
    PROVE  Inside'
<1>0. pc[q] \in AddPcs
    BY DEF AddStep, Pass, StoreLba, StoreTime, LoadNum, StoreNum, TestNum, WrapNum, TestMax,
           GrowMax, AddPcs
<1>1. At(q) /\ ~past /\ rq_max <= RQMAX BY <1>0 DEF Inside
<1>2. rq_num \in Nat /\ rq_max \in Nat /\ reg \in [Queues -> Nat] /\ RQMAX \in Nat \ {0}
      /\ pc \in [Queues -> {"idle"} \cup AddPcs \cup FindPcs]
    BY RequestAssumption DEF RequestAssumption, TypeOK, ListTypes, LocalTypes
<1>3. CASE Pass(q)
    <2>1. At(q)' BY <1>1, <1>2, <1>3 DEF Pass, Goto, At, listVars
    <2> QED BY <1>0, <1>1, <1>3, <2>1, MoveInside DEF Pass, listVars, histVars, AddPcs
<1>4. CASE StoreLba(q)
    <2>1. At(q)' BY <1>1, <1>2, <1>4 DEF StoreLba, Goto, At
    <2>2. ~past' BY <1>1, <1>4 DEF StoreLba, At
    <2> QED BY <1>0, <1>1, <1>4, <2>1, <2>2, MoveInside DEF StoreLba, AddPcs
<1>5. CASE StoreTime(q)
    <2>1. reg[q] = rq_num /\ rq_num \in Slots BY <1>1, <1>5 DEF StoreTime, At
    <2>2. reg' = [reg EXCEPT ![q] = rq_num] /\ ~past'
        BY <2>1, <1>5 DEF StoreTime, Reload
    <2>3. At(q)' BY <1>2, <2>1, <2>2, <1>5 DEF StoreTime, Goto, At
    <2> QED BY <1>0, <1>1, <1>5, <2>2, <2>3, MoveInside DEF StoreTime, AddPcs
<1>6. CASE LoadNum(q)
    <2>1. reg[q] = rq_num /\ rq_num \in Slots BY <1>1, <1>6 DEF LoadNum, At
    <2>2. reg' = [reg EXCEPT ![q] = rq_num] BY <2>1, <1>6 DEF LoadNum, Reload
    <2>3. At(q)' BY <1>2, <2>1, <2>2, <1>6 DEF LoadNum, Goto, At, listVars
    <2> QED BY <1>0, <1>1, <1>6, <2>3, MoveInside DEF LoadNum, AddPcs, listVars, histVars
<1>7. CASE StoreNum(q)
    <2>1. reg[q] = rq_num /\ rq_num \in Slots BY <1>1, <1>7 DEF StoreNum, At
    <2>2. rq_num' \in 0..RQMAX /\ reg'[q] = rq_num' /\ pc'[q] = "test"
        BY <1>2, <2>1, <1>7 DEF StoreNum, Slots, Goto
    <2>3. At(q)' BY <2>2 DEF At
    <2> QED BY <1>0, <1>1, <1>7, <2>3, MoveInside DEF StoreNum, AddPcs, histVars
<1>8. CASE TestNum(q)
    <2>1. reg[q] = rq_num /\ rq_num \in 0..RQMAX BY <1>1, <1>8 DEF TestNum, At
    <2>2. Goto(q, IF rq_num = RQMAX THEN "wrap" ELSE "max") BY <2>1, <1>8 DEF TestNum, Reload
    <2>3. CASE rq_num = RQMAX
        <3>1. Goto(q, "wrap") /\ pc'[q] = "wrap" BY <1>2, <2>2, <2>3 DEF Goto
        <3>2. At(q)' BY <3>1 DEF At
        <3> QED BY <1>0, <1>1, <1>8, <3>1, <3>2, MoveInside DEF TestNum, AddPcs, listVars, histVars
    <2>4. CASE rq_num # RQMAX
        <3>1. Goto(q, "max") /\ pc'[q] = "max" BY <1>2, <2>2, <2>4 DEF Goto
        <3>2. rq_num' \in Slots BY <1>2, <2>1, <2>4, <1>8 DEF TestNum, listVars, Slots
        <3>3. At(q)' BY <3>1, <3>2 DEF At
        <3> QED BY <1>0, <1>1, <1>8, <3>1, <3>3, MoveInside DEF TestNum, AddPcs, listVars, histVars
    <2> QED BY <2>3, <2>4
<1>9. CASE WrapNum(q)
    <2>1. rq_num' \in Slots /\ pc'[q] = "max" BY <1>2, <1>9 DEF WrapNum, Slots, Goto
    <2>2. At(q)' BY <2>1 DEF At
    <2> QED BY <1>0, <1>1, <1>9, <2>2, MoveInside DEF WrapNum, AddPcs, histVars
<1>10. CASE TestMax(q)
    <2>1. rq_num' \in Slots BY <1>1, <1>10 DEF TestMax, At, listVars
    <2>2. CASE rq_max < RQMAX
        <3>1. reg'[q] = rq_max /\ rq_max' < RQMAX /\ pc'[q] = "grow"
            BY <1>2, <2>2, <1>10 DEF TestMax, Goto, listVars
        <3>2. At(q)' BY <2>1, <3>1, <1>10 DEF At, TestMax, listVars
        <3> QED BY <1>0, <1>1, <1>10, <2>2, <3>2, MoveInside DEF TestMax, AddPcs, listVars, histVars
    <2>3. CASE ~(rq_max < RQMAX)
        BY <1>0, <1>1, <1>10, <2>1, <2>3, MoveInside DEF TestMax, Ring, AddPcs, listVars, histVars
    <2> QED BY <2>2, <2>3
<1>11. CASE GrowMax(q)
    <2>1. reg[q] = rq_max /\ rq_max < RQMAX /\ rq_num \in Slots BY <1>1, <1>11 DEF GrowMax, At
    <2>2. rq_max' = rq_max + 1 BY <2>1, <1>11 DEF GrowMax, Reload
    <2>3. rq_max' <= RQMAX BY <1>2, <2>1, <2>2
    <2> QED BY <1>0, <1>1, <1>11, <2>1, <2>3, MoveInside DEF GrowMax, Ring, AddPcs, histVars
<1> QED BY <1>3, <1>4, <1>5, <1>6, <1>7, <1>8, <1>9, <1>10, <1>11 DEF AddStep

\* Completions only read the list (nvme_finish_cmd).
LEMMA FinishInside ==
    ASSUME TypeOK, Inside, NEW q \in Queues, Finish(q) \/ FindStep(q)
    PROVE  Inside'
<1>1. /\ UNCHANGED <<rq_num, rq_max, reg>>
      /\ pc[q] \notin AddPcs /\ \A p \in Queues : pc'[p] = pc[p] \/ p = q
      /\ pc'[q] \notin AddPcs
    BY DEF Finish, FindStep, Find, Take, Miss, Log, Goto, listVars, AddPcs, TypeOK, LocalTypes
<1>2. ~past'
    <2>1. CASE Find(q)
        <3>1. i[q] \in Nat /\ rq_max \in Nat /\ rq_max <= RQMAX /\ RQMAX \in Nat
            BY RequestAssumption DEF RequestAssumption, TypeOK, ListTypes, LocalTypes, Inside
        <3>2. i[q] < rq_max => i[q] \in Slots BY <3>1 DEF Slots
        <3>3. past' = (i[q] < rq_max /\ i[q] \notin Slots) BY <2>1 DEF Find
        <3> QED BY <3>2, <3>3
    <2>2. CASE ~Find(q)
        BY <2>2 DEF Finish, FindStep, Take, Miss, Log, histVars, Inside
    <2> QED BY <2>1, <2>2
<1> QED BY <1>1, <1>2 DEF Inside, At

LEMMA InsideStep == InsideInv /\ [Next]_vars => InsideInv'
<1> SUFFICES ASSUME InsideInv, [Next]_vars PROVE InsideInv' OBVIOUS
<1>0. TypeOK /\ TypeOK' /\ (overlaps = 0 => Inside) BY TypeStep DEF InsideInv
<1>1. SUFFICES ASSUME overlaps' = 0 PROVE Inside' BY <1>0 DEF InsideInv
<1>2. ASSUME NEW q \in Queues, QueueRq(q) PROVE Inside'
    <2> PICK r \in Requests : Issue(q, [queue |-> q, lba |-> r.lba, discard |-> r.discard])
        BY <1>2 DEF QueueRq
    <2>1. [queue |-> q, lba |-> r.lba, discard |-> r.discard] \in Request
        BY RequestAssumption DEF RequestAssumption, Request, Lbas
    <2> QED BY <1>0, <1>1, <2>1, IssueInside
<1>3. ASSUME NEW q \in Queues, Retry(q) PROVE Inside'
    <2> PICK n \in again : Issue(q, subs[n]) BY <1>3 DEF Retry
    <2>1. subs[n] \in Request BY <1>0 DEF TypeOK, LogTypes
    <2> QED BY <1>0, <1>1, <2>1, IssueInside
<1>4. ASSUME NEW q \in Queues, AddStep(q) PROVE Inside'
    <2>1. overlaps' = overlaps
        BY <1>4 DEF AddStep, Pass, StoreLba, StoreTime, LoadNum, StoreNum, TestNum, WrapNum,
                    TestMax, GrowMax, histVars
    <2> QED BY <1>0, <1>1, <1>4, <2>1, AddInside
<1>5. ASSUME NEW q \in Queues, Finish(q) \/ FindStep(q) PROVE Inside'
    <2>1. overlaps' = overlaps
        BY <1>5 DEF Finish, FindStep, Find, Take, Miss, Log, histVars
    <2> QED BY <1>0, <1>1, <1>5, <2>1, FinishInside
<1>6. CASE UNCHANGED vars
    BY <1>0, <1>1, <1>6 DEF vars, listVars, locVars, histVars, Inside, At
<1> QED BY <1>2, <1>3, <1>4, <1>5, <1>6 DEF Next

LEMMA InsideHolds == Spec => []InsideInv
<1>1. Init => InsideInv
    BY TypeInit, RequestAssumption DEF Init, InsideInv, Inside, At, Slots, AddPcs, RequestAssumption
<1> QED BY <1>1, InsideStep, PTL DEF Spec

\* For any number of queues, an index past the list takes two of them in
\* add_rq_start at once, however many requests a single one starts or repeats.
THEOREM ListOverrunIsOverlap == Spec => []OverrunNeedsOverlap
<1>1. InsideInv => OverrunNeedsOverlap
    <2>1. TypeOK => overlaps = 0 \/ overlaps > 0
        BY RequestAssumption DEF RequestAssumption, TypeOK, ListTypes
    <2> QED BY <2>1 DEF InsideInv, Inside, OverrunNeedsOverlap
<1> QED BY <1>1, InsideHolds, PTL

-----------------------------------------------------------------------------
\* Only discards were submitted after the time that stands in (nvme_queue_rq).
Latest == \A m \in rq_prev + 1 .. Len(subs) : subs[m].discard

\* What was not submitted was not logged.
Unmade == \A n \in Ids : n > Len(subs) => logged[n] = None

\* An entry is of one submission.
Fits(s) == start[s] # None /\ lba[s] = subs[start[s]].lba

Growing == rq_max < RQMAX
NoneAdds == \A q \in Queues : pc[q] \notin AddPcs

\* What q has noted at each place of add_rq_start, and where the list ends.
Noting(q) ==
    /\ pc[q] = "pass" => rq_prev = cur[q]
    /\ pc[q] # "pass" => arg[q] = cur[q]
    /\ pc[q] = "time" => lba[rq_num] = subs[cur[q]].lba
    /\ pc[q] \in {"pass", "lba", "time", "load", "store"} /\ Growing => rq_num = rq_max
    /\ pc[q] = "test" /\ Growing => rq_num = rq_max + 1
    /\ pc[q] = "wrap" /\ Growing => rq_max + 1 = RQMAX
    /\ pc[q] \in {"max", "grow"} /\ Growing =>
           rq_num = IF rq_max + 1 = RQMAX THEN 0 ELSE rq_max + 1
    /\ pc[q] \in {"load", "store", "test", "wrap", "max", "grow"} /\ Growing => Fits(rq_max)

\* The entries in use are whole, but for the one being replaced.
EntriesFit ==
    \A s \in Slots : s < rq_max => Fits(s) \/ \E q \in Queues : pc[q] = "time" /\ s = rq_num

\* No call of add_rq_start disturbs q's search.
Quiet(q) ==
    /\ NoneAdds
    /\ pc[q] = "take" => i[q] < rq_max /\ lba[i[q]] = subs[cur[q]].lba

QuietSearches == \A q \in Queues : pc[q] \in FindPcs /\ cur[q] \notin raced => Quiet(q)

Near(n) ==
    \/ subs[logged[n]].lba = subs[n].lba
    \/ \A m \in logged[n] + 1 .. endAt[n] : subs[m].discard

LoggedNear == \A n \in Subs \ raced : logged[n] # None => Near(n)

Notes ==
    /\ \A q \in Queues : pc[q] \in AddPcs => Noting(q)
    /\ EntriesFit /\ QuietSearches /\ LoggedNear
    /\ NoneAdds /\ Growing => rq_num = rq_max

NearInv == InsideInv /\ Latest /\ Unmade /\ (overlaps = 0 => Notes)

\* A submission leaves the former ones as they were.
LEMMA IssueKeeps ==
    ASSUME TypeOK, NEW q \in Queues, NEW r \in Request, Issue(q, r)
    PROVE  /\ Len(subs) \in Nat /\ Len(subs)' = Len(subs) + 1
           /\ \A n \in 1..Len(subs) : subs'[n] = subs[n]
           /\ subs'[Len(subs) + 1] = r
    BY AppendSub DEF TypeOK, Issue

\* It has the latest time, unless it is a discard.
LEMMA IssueLatest ==
    ASSUME TypeOK, Latest, Unmade, NEW q \in Queues, NEW r \in Request, Issue(q, r)
    PROVE  Latest' /\ Unmade'
<1>1. Unmade'
    BY IssueKeeps DEF Unmade, Issue, Ids
<1>2. CASE r.discard
    <2>1. rq_prev' = rq_prev /\ rq_prev \in 0..Len(subs) BY <1>2 DEF Issue, TypeOK, ListTypes
    <2> SUFFICES ASSUME NEW m \in rq_prev + 1 .. Len(subs) + 1 PROVE subs'[m].discard
        BY <1>1, <2>1, IssueKeeps DEF Latest
    <2>2. CASE m = Len(subs) + 1 BY <1>2, <2>2, IssueKeeps
    <2>3. CASE m # Len(subs) + 1
        <3>1. m \in rq_prev + 1 .. Len(subs) /\ m \in 1..Len(subs) BY <2>1, <2>3, IssueKeeps
        <3> QED BY <3>1, IssueKeeps DEF Latest
    <2> QED BY <2>2, <2>3
<1>3. CASE ~r.discard
    <2>1. rq_prev' = Len(subs) + 1 BY <1>3 DEF Issue
    <2> QED BY <1>1, <2>1, IssueKeeps DEF Latest
<1> QED BY <1>2, <1>3 DEF Request

\* What was logged stays near: the submissions it speaks of are former ones.
LEMMA IssueNear ==
    ASSUME TypeOK, Unmade, LoggedNear, NEW q \in Queues, NEW r \in Request, Issue(q, r)
    PROVE  LoggedNear'
<1> SUFFICES ASSUME NEW n \in 1..Len(subs)', n \notin raced', logged'[n] # None PROVE Near(n)'
    BY DEF LoggedNear, Subs
<1>1. raced \subseteq raced' /\ logged' = logged /\ endAt' = endAt BY DEF Issue
<1>2. Len(subs)' <= MaxSubmits BY IssueType, IssueKeeps DEF Issue
<1>3. n \in Ids BY <1>2, IssueKeeps, RequestAssumption DEF Ids, RequestAssumption
<1>4. n \in 1..Len(subs) BY <1>1, <1>3, IssueKeeps DEF Unmade
<1>5. Near(n) BY <1>1, <1>4 DEF LoggedNear, Subs
<1>6. logged[n] \in 1..Len(subs) /\ endAt[n] \in 0..Len(subs)
    BY <1>1, <1>3 DEF TypeOK, LogTypes, None
<1>7. CASE subs[logged[n]].lba = subs[n].lba
    BY <1>1, <1>4, <1>6, <1>7, IssueKeeps DEF Near
<1>8. CASE \A m \in logged[n] + 1 .. endAt[n] : subs[m].discard
    <2>1. \A m \in logged[n] + 1 .. endAt[n] : m \in 1..Len(subs) BY <1>6, IssueKeeps
    <2> QED BY <1>1, <1>8, <2>1, IssueKeeps DEF Near
<1> QED BY <1>5, <1>7, <1>8 DEF Near

\* Entries of former submissions stay whole.
LEMMA IssueFits ==
    ASSUME TypeOK, NEW q \in Queues, NEW r \in Request, Issue(q, r), NEW s \in Slots, Fits(s)
    PROVE  Fits(s)'
<1>1. start[s] \in 1..Len(subs) BY IssueKeeps DEF TypeOK, ListTypes, Fits, None
<1>2. start' = start /\ lba' = lba BY DEF Issue, listVars
<1> QED BY <1>1, <1>2, IssueKeeps DEF Fits

LEMMA IssueNotes ==
    ASSUME TypeOK, Unmade, Inside, Notes, NEW q \in Queues, NEW r \in Request, Issue(q, r),
           overlaps = 0, overlaps' = 0
    PROVE  Notes'
<1>1. ~r.discard => NoneAdds
    BY DEF Issue, Adding, NoneAdds
<1>2. /\ UNCHANGED <<rq_num, rq_max, lba, start, arg, i>> /\ Growing' = Growing
      /\ rq_max <= RQMAX /\ rq_max \in Nat /\ RQMAX \in Nat
    BY RequestAssumption DEF Issue, listVars, Growing, Inside, TypeOK, ListTypes, RequestAssumption
<1>3. LoggedNear' BY IssueNear DEF Notes
<1>4. CASE Stamped(r)
    <2>1. /\ pc' = [pc EXCEPT ![q] = "pass"] /\ cur' = [cur EXCEPT ![q] = Len(subs) + 1]
          /\ raced' = raced \cup {cur[p] : p \in Finding}
        BY <1>4 DEF Issue, Goto
    <2>2. NoneAdds /\ rq_prev' = Len(subs) + 1 BY <1>1, <1>4 DEF Stamped, Issue
    <2>3. \A p \in Queues : pc'[p] \in AddPcs => p = q
        BY <2>1, <2>2 DEF TypeOK, LocalTypes, NoneAdds
    <2>4. /\ pc'[q] = "pass" /\ cur'[q] = Len(subs) + 1
          /\ \A p \in Queues : p # q => pc'[p] = pc[p] /\ cur'[p] = cur[p]
        BY <2>1 DEF TypeOK, LocalTypes
    <2>5. Noting(q)'
        <3>1. Growing => rq_num = rq_max BY <2>2 DEF Notes
        <3> QED BY <1>2, <2>2, <2>4, <3>1 DEF Noting, Fits
    <2>6. EntriesFit'
        <3> SUFFICES ASSUME NEW s \in Slots, s < rq_max PROVE Fits(s)'
            BY <1>2 DEF EntriesFit
        <3>1. Fits(s) BY <2>2 DEF Notes, EntriesFit, NoneAdds, AddPcs
        <3> QED BY <3>1, IssueFits
    <2>7. QuietSearches'
        <3> SUFFICES ASSUME NEW p \in Queues, pc'[p] \in FindPcs, cur'[p] \notin raced'
                     PROVE  FALSE
            BY DEF QuietSearches
        <3>1. p # q BY <2>4 DEF FindPcs
        <3>2. p \in Finding /\ cur'[p] = cur[p] BY <2>4, <3>1 DEF Finding
        <3> QED BY <2>1, <3>2
    <2>8. ~NoneAdds' BY <2>4 DEF NoneAdds, AddPcs
    <2> QED BY <1>3, <2>3, <2>5, <2>6, <2>7, <2>8 DEF Notes
<1>5. CASE ~Stamped(r)
    <2>1. UNCHANGED <<pc, cur, raced>> BY <1>5 DEF Issue
    <2>2. \A p \in Queues : pc[p] # "idle" => subs'[cur[p]] = subs[cur[p]]
        BY AtHand, IssueKeeps
    <2>3. ASSUME NEW p \in Queues, pc'[p] \in AddPcs PROVE Noting(p)'
        <3>1. Noting(p) /\ pc[p] \in AddPcs BY <2>1, <2>3 DEF Notes
        <3>2. rq_prev' = rq_prev BY <1>1, <3>1 DEF Issue, NoneAdds
        <3>3. pc[p] # "idle" BY <3>1 DEF AddPcs
        <3>4. Growing /\ Fits(rq_max) => Fits(rq_max)'
            <4>1. Growing => rq_max \in Slots BY <1>2 DEF Growing, Slots
            <4> QED BY <1>2, <4>1, IssueFits DEF Fits
        <3> QED BY <1>2, <2>1, <2>2, <3>1, <3>2, <3>3, <3>4 DEF Noting
    <2>4. EntriesFit'
        <3> SUFFICES ASSUME NEW s \in Slots, s < rq_max
                     PROVE  Fits(s)' \/ \E p \in Queues : pc[p] = "time" /\ s = rq_num
            BY <1>2, <2>1 DEF EntriesFit
        <3> QED BY IssueFits DEF Notes, EntriesFit
    <2>5. QuietSearches'
        <3> SUFFICES ASSUME NEW p \in Queues, pc[p] \in FindPcs, cur[p] \notin raced
                     PROVE  Quiet(p)'
            BY <2>1 DEF QuietSearches
        <3>1. Quiet(p) /\ pc[p] # "idle" BY DEF Notes, QuietSearches, FindPcs
        <3> QED BY <1>2, <2>1, <2>2, <3>1 DEF Quiet, NoneAdds
    <2>6. NoneAdds' /\ Growing' => rq_num' = rq_max'
        BY <1>2, <2>1 DEF Notes, NoneAdds
    <2> QED BY <1>3, <2>3, <2>4, <2>5, <2>6 DEF Notes
<1> QED BY <1>4, <1>5

\* Alone in add_rq_start, q only has to account for the list.
LEMMA MoveNotes ==
    ASSUME TypeOK, Inside, Notes, NEW q \in Queues, pc[q] \in AddPcs,
           NEW place \in AddPcs \cup {"idle"}, Goto(q, place),
           UNCHANGED <<subs, logged, endAt, raced>>,
           \A p \in Queues : p # q => cur'[p] = cur[p],
           place \in AddPcs => Noting(q)',
           place = "idle" /\ Growing' => rq_num' = rq_max',
           \A s \in Slots : s < rq_max' => Fits(s)' \/ (place = "time" /\ s = rq_num')
    PROVE  Notes'
<1>1. /\ pc'[q] = place /\ \A p \in Queues : p # q => pc'[p] = pc[p] /\ pc[p] \notin AddPcs
    BY DEF TypeOK, LocalTypes, Goto, Inside
<1>2. \A p \in Queues : pc'[p] \in AddPcs => Noting(p)' BY <1>1
<1>3. EntriesFit' BY <1>1 DEF EntriesFit
<1>4. NoneAdds' => place = "idle" BY <1>1 DEF NoneAdds
<1>5. QuietSearches'
    <2> SUFFICES ASSUME NEW p \in Queues, pc'[p] \in FindPcs, cur'[p] \notin raced PROVE FALSE
        BY DEF QuietSearches
    <2>1. p # q BY <1>1 DEF FindPcs, AddPcs
    <2>2. Quiet(p) BY <1>1, <2>1 DEF Notes, QuietSearches
    <2> QED BY <2>2 DEF Quiet, NoneAdds
<1>6. LoggedNear' BY DEF Notes, LoggedNear, Near, Subs
<1> QED BY <1>2, <1>3, <1>4, <1>5, <1>6 DEF Notes

LEMMA AddNotes ==
    ASSUME TypeOK, Inside, Notes, NEW q \in Queues, AddStep(q)
    PROVE  Notes'
<1>0. pc[q] \in AddPcs
    BY DEF AddStep, Pass, StoreLba, StoreTime, LoadNum, StoreNum, TestNum, WrapNum, TestMax,
           GrowMax, AddPcs
<1>1. At(q) /\ Noting(q) /\ rq_max <= RQMAX BY <1>0 DEF Inside, Notes
<1>2. /\ rq_num \in Nat /\ rq_max \in Nat /\ RQMAX \in Nat \ {0}
      /\ reg \in [Queues -> Nat] /\ pc \in [Queues -> {"idle"} \cup AddPcs \cup FindPcs]
      /\ arg \in [Queues -> 0..Len(subs)]
      /\ lba \in [Slots -> Lbas \cup {0}] /\ start \in [Slots -> 0..Len(subs)]
    BY RequestAssumption DEF RequestAssumption, TypeOK, ListTypes, LocalTypes
<1>3. ASSUME pc[q] # "time", NEW s \in Slots, s < rq_max PROVE Fits(s)
    BY <1>0, <1>3 DEF Notes, EntriesFit, Inside, AddPcs
<1>4. CASE Pass(q)
    <2>1. pc[q] = "pass" /\ pc'[q] = "lba" /\ arg'[q] = cur[q]
          /\ UNCHANGED <<rq_num, rq_max, lba, start, cur>>
        BY <1>1, <1>2, <1>4 DEF Pass, Noting, Goto, listVars
    <2>2. Noting(q)' BY <1>1, <2>1 DEF Noting, Growing
    <2>3. \A s \in Slots : s < rq_max' => Fits(s)' BY <1>3, <1>4, <2>1 DEF Fits, Pass
    <2> QED BY <1>0, <1>4, <2>2, <2>3, MoveNotes DEF Pass, AddPcs, logVars, histVars
<1>5. CASE StoreLba(q)
    <2>1. /\ pc[q] = "lba" /\ pc'[q] = "time" /\ rq_num \in Slots
          /\ UNCHANGED <<rq_num, rq_max, start, cur, arg, subs>>
        BY <1>1, <1>2, <1>5 DEF StoreLba, At, Goto
    <2>2. lba' = [lba EXCEPT ![rq_num] = subs[cur[q]].lba] BY <1>5, <2>1 DEF StoreLba
    <2>3. Noting(q)' BY <1>1, <1>2, <2>1, <2>2 DEF Noting, Growing
    <2>4. \A s \in Slots : s < rq_max' => Fits(s)' \/ s = rq_num'
        BY <1>2, <1>3, <2>1, <2>2 DEF Fits
    <2> QED BY <1>0, <1>5, <2>3, <2>4, MoveNotes DEF StoreLba, AddPcs, logVars
<1>6. CASE StoreTime(q)
    <2>1. /\ pc[q] = "time" /\ pc'[q] = "load" /\ rq_num \in Slots /\ arg[q] = cur[q]
          /\ lba[rq_num] = subs[cur[q]].lba
          /\ UNCHANGED <<rq_num, rq_max, lba, cur, arg, subs>>
        BY <1>1, <1>2, <1>6 DEF StoreTime, At, Noting, Goto
    <2>2. start' = [start EXCEPT ![rq_num] = cur[q]]
        BY <1>1, <1>6, <2>1 DEF StoreTime, At, Reload
    <2>3. cur[q] # None BY <1>0 DEF TypeOK, LocalTypes, AddPcs
    <2>4. Fits(rq_num)' BY <1>2, <2>1, <2>2, <2>3 DEF Fits
    <2>5. Noting(q)' BY <1>1, <2>1, <2>4 DEF Noting, Growing, Fits
    <2>6. ASSUME NEW s \in Slots, s < rq_max, s # rq_num PROVE Fits(s)'
        <3>1. Fits(s) BY <2>6 DEF Notes, EntriesFit
        <3> QED BY <1>2, <2>1, <2>2, <2>6, <3>1 DEF Fits
    <2>7. \A s \in Slots : s < rq_max' => Fits(s)' BY <2>1, <2>4, <2>6 DEF Fits
    <2> QED BY <1>0, <1>6, <2>5, <2>7, MoveNotes DEF StoreTime, AddPcs, logVars
<1>7. CASE LoadNum(q)
    <2>1. /\ pc[q] = "load" /\ pc'[q] = "store"
          /\ UNCHANGED <<rq_num, rq_max, lba, start, cur, arg, subs>>
        BY <1>2, <1>7 DEF LoadNum, Goto, listVars
    <2>2. Noting(q)' BY <1>1, <2>1 DEF Noting, Growing, Fits
    <2>3. \A s \in Slots : s < rq_max' => Fits(s)' BY <1>3, <2>1 DEF Fits
    <2> QED BY <1>0, <1>7, <2>2, <2>3, MoveNotes DEF LoadNum, AddPcs, logVars, histVars
<1>8. CASE StoreNum(q)
    <2>1. /\ pc[q] = "store" /\ pc'[q] = "test" /\ rq_num' = rq_num + 1
          /\ UNCHANGED <<rq_max, lba, start, cur, arg, subs>>
        BY <1>1, <1>2, <1>8 DEF StoreNum, At, Goto
    <2>2. Noting(q)' BY <1>1, <2>1 DEF Noting, Growing, Fits
    <2>3. \A s \in Slots : s < rq_max' => Fits(s)' BY <1>3, <2>1 DEF Fits
    <2> QED BY <1>0, <1>8, <2>2, <2>3, MoveNotes DEF StoreNum, AddPcs, logVars, histVars
<1>9. CASE TestNum(q)
    <2>1. /\ pc[q] = "test" /\ rq_num \in 0..RQMAX
          /\ UNCHANGED <<rq_num, rq_max, lba, start, cur, arg, subs>>
        BY <1>1, <1>9 DEF TestNum, At, listVars
    <2>2. Goto(q, IF rq_num = RQMAX THEN "wrap" ELSE "max")
        BY <1>1, <1>9, <2>1 DEF TestNum, At, Reload
    <2>3. \A s \in Slots : s < rq_max' => Fits(s)' BY <1>3, <2>1 DEF Fits
    <2>4. Growing => rq_num = rq_max + 1 /\ Fits(rq_max) BY <1>1, <2>1 DEF Noting
    <2>5. CASE rq_num = RQMAX
        <3>1. Goto(q, "wrap") /\ pc'[q] = "wrap" BY <1>2, <2>2, <2>5 DEF Goto
        <3>2. Noting(q)' BY <1>1, <2>1, <2>4, <2>5, <3>1 DEF Noting, Growing, Fits
        <3> QED BY <1>0, <1>9, <3>1, <3>2, <2>3, MoveNotes DEF TestNum, AddPcs, logVars, histVars
    <2>6. CASE rq_num # RQMAX
        <3>1. Goto(q, "max") /\ pc'[q] = "max" BY <1>2, <2>2, <2>6 DEF Goto
        <3>2. Noting(q)' BY <1>1, <2>1, <2>4, <2>6, <3>1 DEF Noting, Growing, Fits
        <3> QED BY <1>0, <1>9, <3>1, <3>2, <2>3, MoveNotes DEF TestNum, AddPcs, logVars, histVars
    <2> QED BY <2>5, <2>6
<1>10. CASE WrapNum(q)
    <2>1. /\ pc[q] = "wrap" /\ pc'[q] = "max" /\ rq_num' = 0
          /\ UNCHANGED <<rq_max, lba, start, cur, arg, subs>>
        BY <1>2, <1>10 DEF WrapNum, Goto
    <2>2. Noting(q)' BY <1>1, <2>1 DEF Noting, Growing, Fits
    <2>3. \A s \in Slots : s < rq_max' => Fits(s)' BY <1>3, <2>1 DEF Fits
    <2> QED BY <1>0, <1>10, <2>2, <2>3, MoveNotes DEF WrapNum, AddPcs, logVars, histVars
<1>11. CASE TestMax(q)
    <2>1. pc[q] = "max" /\ UNCHANGED <<rq_num, rq_max, lba, start, subs>>
        BY <1>11 DEF TestMax, listVars
    <2>2. \A s \in Slots : s < rq_max' => Fits(s)' BY <1>3, <2>1 DEF Fits
    <2>3. CASE Growing
        <3>1. pc'[q] = "grow" /\ Goto(q, "grow") /\ UNCHANGED <<cur, arg>>
            BY <1>2, <1>11, <2>3 DEF TestMax, Growing, Goto
        <3>2. Noting(q)' BY <1>1, <2>1, <3>1 DEF Noting, Growing, Fits
        <3> QED BY <1>0, <1>11, <2>2, <3>1, <3>2, MoveNotes DEF TestMax, AddPcs, histVars
    <2>4. CASE ~Growing
        <3>1. Ring(q) /\ ~Growing' BY <1>11, <2>1, <2>4 DEF TestMax, Growing
        <3>2. Goto(q, "idle") /\ \A p \in Queues : p # q => cur'[p] = cur[p]
            BY <3>1 DEF Ring, TypeOK, LocalTypes
        <3> QED BY <1>0, <1>11, <2>2, <3>1, <3>2, MoveNotes DEF TestMax, AddPcs, histVars
    <2> QED BY <2>3, <2>4
<1>12. CASE GrowMax(q)
    <2>1. /\ pc[q] = "grow" /\ rq_max < RQMAX /\ reg[q] = rq_max
          /\ UNCHANGED <<rq_num, lba, start, subs>>
        BY <1>1, <1>12 DEF GrowMax, At
    <2>2. rq_max' = rq_max + 1 BY <1>12, <2>1 DEF GrowMax, Reload
    <2>3. Fits(rq_max) /\ rq_num = IF rq_max + 1 = RQMAX THEN 0 ELSE rq_max + 1
        BY <1>1, <2>1 DEF Noting, Growing
    <2>4. Growing' => rq_num' = rq_max' BY <1>2, <2>1, <2>2, <2>3 DEF Growing
    <2>5. ASSUME NEW s \in Slots, s < rq_max' PROVE Fits(s)'
        <3>1. s < rq_max \/ s = rq_max BY <1>2, <2>2, <2>5 DEF Slots
        <3>2. Fits(s) BY <1>3, <2>1, <2>3, <3>1
        <3> QED BY <2>1, <3>2 DEF Fits
    <2>6. Goto(q, "idle") /\ \A p \in Queues : p # q => cur'[p] = cur[p]
        BY <1>12 DEF GrowMax, Ring, TypeOK, LocalTypes
    <2> QED BY <1>0, <1>12, <2>4, <2>5, <2>6, MoveNotes DEF GrowMax, AddPcs, histVars
<1> QED BY <1>4, <1>5, <1>6, <1>7, <1>8, <1>9, <1>10, <1>11, <1>12 DEF AddStep

\* A completion starts its search, raced if the list is being written.
LEMMA FinishNotes ==
    ASSUME TypeOK, Notes, NEW q \in Queues, Finish(q)
    PROVE  Notes'
<1> PICK n \in flight :
        /\ cur' = [cur EXCEPT ![q] = n]
        /\ raced' = IF Adding # {} THEN raced \cup {n} ELSE raced
    BY DEF Finish
<1>1. /\ pc[q] = "idle" /\ pc'[q] = "find" /\ cur'[q] = n
      /\ \A p \in Queues : p # q => pc'[p] = pc[p] /\ cur'[p] = cur[p] /\ i'[p] = i[p]
      /\ UNCHANGED <<rq_num, rq_max, lba, start, rq_prev, arg, subs, logged, endAt>>
    BY DEF Finish, Goto, TypeOK, LocalTypes, listVars, logVars
<1>2. /\ \A p \in Queues : pc'[p] \in AddPcs <=> pc[p] \in AddPcs
      /\ \A p \in Queues : pc'[p] = "time" <=> pc[p] = "time"
    BY <1>1 DEF AddPcs
<1>3. NoneAdds' <=> NoneAdds BY <1>2 DEF NoneAdds
<1>4. \A p \in Queues : pc'[p] \in AddPcs => Noting(p)'
    <2> SUFFICES ASSUME NEW p \in Queues, pc'[p] \in AddPcs PROVE Noting(p)' OBVIOUS
    <2>1. p # q /\ Noting(p) BY <1>1, <1>2 DEF Notes, AddPcs
    <2> QED BY <1>1, <2>1 DEF Noting, Growing, Fits
<1>5. EntriesFit' BY <1>1, <1>2 DEF Notes, EntriesFit, Fits
<1>6. QuietSearches'
    <2> SUFFICES ASSUME NEW p \in Queues, pc'[p] \in FindPcs, cur'[p] \notin raced'
                 PROVE  Quiet(p)'
        BY DEF QuietSearches
    <2>1. CASE p = q
        <3>1. Adding = {} BY <1>1, <2>1
        <3>2. NoneAdds BY <3>1 DEF Adding, NoneAdds
        <3> QED BY <1>1, <1>3, <2>1, <3>2 DEF Quiet
    <2>2. CASE p # q
        <3>1. Quiet(p) BY <1>1, <2>2 DEF Notes, QuietSearches
        <3> QED BY <1>1, <1>3, <2>2, <3>1 DEF Quiet
    <2> QED BY <2>1, <2>2
<1>7. LoggedNear' BY <1>1 DEF Notes, LoggedNear, Near, Subs
<1> QED BY <1>1, <1>3, <1>4, <1>5, <1>6, <1>7 DEF Notes, Growing

\* Searching, or logging what was found: the list is not touched.
LEMMA ReadNotes ==
    ASSUME TypeOK, Notes, NEW q \in Queues, pc[q] \in FindPcs,
           NEW place \in FindPcs \cup {"idle"}, Goto(q, place),
           UNCHANGED <<rq_num, rq_max, lba, start, rq_prev, arg, subs, raced>>,
           \A p \in Queues : p # q => cur'[p] = cur[p] /\ i'[p] = i[p],
           place \in FindPcs /\ cur'[q] \notin raced => cur'[q] = cur[q] /\ (Quiet(q) => Quiet(q)'),
           LoggedNear'
    PROVE  Notes'
<1>1. /\ pc'[q] = place /\ \A p \in Queues : p # q => pc'[p] = pc[p]
    BY DEF Goto, TypeOK, LocalTypes
<1>2. /\ \A p \in Queues : pc'[p] \in AddPcs <=> pc[p] \in AddPcs
      /\ \A p \in Queues : pc'[p] = "time" <=> pc[p] = "time"
    BY <1>1 DEF AddPcs, FindPcs
<1>3. NoneAdds' <=> NoneAdds BY <1>2 DEF NoneAdds
<1>4. \A p \in Queues : pc'[p] \in AddPcs => Noting(p)'
    <2> SUFFICES ASSUME NEW p \in Queues, pc'[p] \in AddPcs PROVE Noting(p)' OBVIOUS
    <2>1. p # q /\ Noting(p) BY <1>1, <1>2 DEF Notes, AddPcs, FindPcs
    <2> QED BY <1>1, <2>1 DEF Noting, Growing, Fits
<1>5. EntriesFit' BY <1>2 DEF Notes, EntriesFit, Fits
<1>6. QuietSearches'
    <2> SUFFICES ASSUME NEW p \in Queues, pc'[p] \in FindPcs, cur'[p] \notin raced'
                 PROVE  Quiet(p)'
        BY DEF QuietSearches
    <2>1. CASE p = q
        BY <1>1, <2>1 DEF Notes, QuietSearches, FindPcs
    <2>2. CASE p # q
        <3>1. Quiet(p) BY <1>1, <2>2 DEF Notes, QuietSearches
        <3> QED BY <1>1, <1>3, <2>2, <3>1 DEF Quiet
    <2> QED BY <2>1, <2>2
<1> QED BY <1>3, <1>4, <1>5, <1>6 DEF Notes, Growing

\* A search that finds an entry finds one of its sector.
LEMMA FindNotes ==
    ASSUME TypeOK, Notes, NEW q \in Queues, Find(q)
    PROVE  Notes'
<1>1. /\ pc[q] = "find" /\ pc[q] \in FindPcs
      /\ UNCHANGED <<rq_num, rq_max, lba, start, rq_prev, arg, subs, raced, cur, logged, endAt>>
    BY DEF Find, FindPcs, listVars, logVars
<1>2. LoggedNear' BY <1>1 DEF Notes, LoggedNear, Near, Subs
<1>3. CASE i[q] >= rq_max
    <2>1. Goto(q, "miss") /\ UNCHANGED i BY <1>3 DEF Find
    <2>2. pc'[q] = "miss" /\ (NoneAdds => NoneAdds')
        BY <2>1 DEF Goto, TypeOK, LocalTypes, NoneAdds, AddPcs
    <2>3. Quiet(q) => Quiet(q)' BY <2>2 DEF Quiet
    <2> QED BY <1>1, <1>2, <2>1, <2>3, ReadNotes DEF FindPcs
<1>4. CASE ~(i[q] >= rq_max) /\ i[q] \in Slots /\ lba[i[q]] = subs[cur[q]].lba
    <2>1. Goto(q, "take") /\ UNCHANGED i BY <1>4 DEF Find
    <2>2. pc'[q] = "take" /\ (NoneAdds => NoneAdds')
        BY <2>1 DEF Goto, TypeOK, LocalTypes, NoneAdds, AddPcs
    <2>3. i[q] < rq_max BY <1>4 DEF TypeOK, ListTypes, LocalTypes
    <2>4. Quiet(q) => Quiet(q)' BY <1>1, <1>4, <2>1, <2>2, <2>3 DEF Quiet
    <2> QED BY <1>1, <1>2, <2>1, <2>4, ReadNotes DEF FindPcs
<1>5. CASE ~(i[q] >= rq_max) /\ ~(i[q] \in Slots /\ lba[i[q]] = subs[cur[q]].lba)
    <2>1. i' = [i EXCEPT ![q] = @ + 1] /\ UNCHANGED pc BY <1>5 DEF Find
    <2>2. Goto(q, "find") /\ \A p \in Queues : p # q => i'[p] = i[p]
        BY <1>1, <2>1 DEF Goto, TypeOK, LocalTypes
    <2>3. Quiet(q) => Quiet(q)' BY <1>1, <2>1 DEF Quiet, NoneAdds
    <2> QED BY <1>1, <1>2, <2>2, <2>3, ReadNotes DEF FindPcs
<1> QED BY <1>3, <1>4, <1>5

\* What is logged is of the sector, or nothing but discards came after it.
LEMMA LogNotes ==
    ASSUME TypeOK, Inside, Latest, Notes, NEW q \in Queues, Take(q) \/ Miss(q)
    PROVE  Notes'
<1> PICK s \in {start[i[q]], rq_prev} :
        /\ Log(q, s) /\ pc[q] \in {"take", "miss"}
        /\ pc[q] = "take" => s = start[i[q]]
        /\ pc[q] = "miss" => s = rq_prev
    BY DEF Take, Miss
<1>1. /\ pc[q] \in FindPcs /\ pc[q] # "idle" /\ Goto(q, "idle")
      /\ UNCHANGED <<rq_num, rq_max, lba, start, rq_prev, arg, subs, raced>>
      /\ \A p \in Queues : p # q => cur'[p] = cur[p] /\ i'[p] = i[p]
    BY DEF Log, FindPcs, listVars, histVars, TypeOK, LocalTypes
<1>2. cur[q] \in 1..Len(subs) /\ cur[q] \in Ids
    BY <1>1, AtHand, RequestAssumption DEF TypeOK, Ids, RequestAssumption
<1>3. /\ logged'[cur[q]] = s /\ endAt'[cur[q]] = Len(subs)
      /\ \A n \in Ids : n # cur[q] => logged'[n] = logged[n] /\ endAt'[n] = endAt[n]
    BY <1>2 DEF Log, TypeOK, LogTypes
<1>4. ASSUME NEW n, n = cur[q], n \notin raced PROVE Near(n)'
    <2>1. Quiet(q) BY <1>1, <1>4 DEF Notes, QuietSearches
    <2>2. CASE pc[q] = "take"
        <3>1. i[q] \in Slots /\ i[q] < rq_max /\ lba[i[q]] = subs[cur[q]].lba
            BY <2>1, <2>2 DEF Quiet, TypeOK, LocalTypes
        <3>2. Fits(i[q]) BY <2>1, <3>1 DEF Quiet, NoneAdds, AddPcs, Notes, EntriesFit
        <3>3. subs[s].lba = subs[cur[q]].lba BY <2>2, <3>1, <3>2 DEF Fits
        <3> QED BY <1>1, <1>3, <1>4, <3>3 DEF Near
    <2>3. CASE pc[q] = "miss"
        BY <1>1, <1>3, <1>4, <2>3 DEF Near, Latest
    <2> QED BY <2>2, <2>3
<1>5. LoggedNear'
    <2> SUFFICES ASSUME NEW n \in 1..Len(subs), n \notin raced, logged'[n] # None PROVE Near(n)'
        BY <1>1 DEF LoggedNear, Subs
    <2>1. CASE n = cur[q]
        BY <1>4, <2>1
    <2>2. CASE n # cur[q]
        <3>1. n \in Ids BY RequestAssumption DEF TypeOK, Ids, RequestAssumption
        <3>2. Near(n) BY <1>3, <2>2, <3>1 DEF Notes, LoggedNear, Subs
        <3> QED BY <1>1, <1>3, <2>2, <3>1, <3>2 DEF Near
    <2> QED BY <2>1, <2>2
<1> QED BY <1>1, <1>5, ReadNotes DEF FindPcs

LEMMA NearStep == NearInv /\ [Next]_vars => NearInv'
<1> SUFFICES ASSUME NearInv, [Next]_vars PROVE NearInv' OBVIOUS
<1>0. /\ TypeOK /\ Latest /\ Unmade /\ (overlaps = 0 => Inside /\ Notes) /\ InsideInv'
      /\ overlaps \in Nat
    BY InsideStep, RequestAssumption
    DEF NearInv, InsideInv, TypeOK, ListTypes, RequestAssumption
<1>1. ASSUME NEW q \in Queues, NEW r \in Request, Issue(q, r) PROVE NearInv'
    <2>1. Latest' /\ Unmade' BY <1>0, <1>1, IssueLatest
    <2>2. overlaps' = 0 => overlaps = 0 BY <1>0, <1>1 DEF Issue
    <2>3. overlaps' = 0 => Notes' BY <1>0, <1>1, <2>2, IssueNotes
    <2> QED BY <1>0, <2>1, <2>3 DEF NearInv
<1>2. ASSUME NEW q \in Queues, QueueRq(q) PROVE NearInv'
    <2> PICK r \in Requests : Issue(q, [queue |-> q, lba |-> r.lba, discard |-> r.discard])
        BY <1>2 DEF QueueRq
    <2>1. [queue |-> q, lba |-> r.lba, discard |-> r.discard] \in Request
        BY RequestAssumption DEF RequestAssumption, Request, Lbas
    <2> QED BY <1>1, <2>1
<1>3. ASSUME NEW q \in Queues, Retry(q) PROVE NearInv'
    <2> PICK n \in again : Issue(q, subs[n]) BY <1>3 DEF Retry
    <2>1. subs[n] \in Request BY <1>0 DEF TypeOK, LogTypes
    <2> QED BY <1>1, <2>1
<1>4. ASSUME NEW q \in Queues, AddStep(q) PROVE NearInv'
    <2>1. UNCHANGED <<subs, rq_prev, logged, overlaps>>
        BY <1>4 DEF AddStep, Pass, StoreLba, StoreTime, LoadNum, StoreNum, TestNum, WrapNum,
                    TestMax, GrowMax, logVars, histVars
    <2> QED BY <1>0, <1>4, <2>1, AddNotes DEF NearInv, Latest, Unmade
<1>5. ASSUME NEW q \in Queues, Finish(q) \/ Find(q) PROVE NearInv'
    <2>1. UNCHANGED <<subs, rq_prev, logged, overlaps>>
        BY <1>5 DEF Finish, Find, logVars
    <2> QED BY <1>0, <1>5, <2>1, FinishNotes, FindNotes DEF NearInv, Latest, Unmade
<1>6. ASSUME NEW q \in Queues, Take(q) \/ Miss(q) PROVE NearInv'
    <2>1. UNCHANGED <<subs, rq_prev, overlaps>>
        BY <1>6 DEF Take, Miss, Log, histVars
    <2>2. pc[q] # "idle" /\ \E s \in 0..Len(subs) : logged' = [logged EXCEPT ![cur[q]] = s]
        BY <1>0, <1>6 DEF Take, Miss, Log, TypeOK, LocalTypes, ListTypes
    <2>3. Unmade'
        BY <1>0, <2>1, <2>2, AtHand DEF Unmade, TypeOK, LogTypes, Ids
    <2> QED BY <1>0, <1>6, <2>1, <2>3, LogNotes DEF NearInv, Latest
<1>7. CASE UNCHANGED vars
    BY <1>0, <1>7
    DEF vars, listVars, locVars, logVars, histVars, NearInv, Latest, Unmade, Notes, Noting,
        EntriesFit, Fits, QuietSearches, Quiet, NoneAdds, LoggedNear, Near, Growing, Subs
<1> QED BY <1>2, <1>3, <1>4, <1>5, <1>6, <1>7 DEF Next, FindStep

LEMMA NearInit == Init => NearInv
<1> SUFFICES ASSUME Init PROVE NearInv OBVIOUS
<1>1. InsideInv
    BY TypeInit, RequestAssumption
    DEF Init, InsideInv, Inside, At, Slots, AddPcs, RequestAssumption
<1>2. subs = <<>> /\ Len(subs) = 0 BY DEF Init
<1>3. Latest /\ Unmade BY <1>2 DEF Init, Latest, Unmade, None
<1>4. \A q \in Queues : pc[q] \notin AddPcs /\ pc[q] \notin FindPcs
    BY DEF Init, AddPcs, FindPcs
<1>5. EntriesFit BY DEF Init, EntriesFit, Slots
<1>6. LoggedNear BY <1>2 DEF LoggedNear, Subs
<1> QED BY <1>1, <1>3, <1>4, <1>5, <1>6 DEF Init, NearInv, Notes, QuietSearches

LEMMA NearHolds == Spec => []NearInv
    BY NearInit, NearStep, PTL DEF Spec

\* For any number of queues, entries and repetitions: where no race touched it,
\* the start logged of a request is of a submission of its sector, or of the
\* latest one (get_rq_start, and the rq_prev that stands in when it finds none).
THEOREM BorrowedIsNear == Spec => []BorrowedStartIsNear
<1>1. NearInv => BorrowedStartIsNear
    <2> SUFFICES ASSUME NearInv, NEW n \in Clean PROVE Near(n)
        BY DEF BorrowedStartIsNear, Near
    <2>1. overlaps = 0
        BY RequestAssumption
        DEF Clean, NearInv, InsideInv, TypeOK, ListTypes, RequestAssumption
    <2> QED BY <2>1 DEF Clean, NearInv, Notes, LoggedNear
<1> QED BY <1>1, NearHolds, PTL
-----------------------------------------------------------------------------
\* The submissions that are noted.
Stamps == {k \in Subs : Stamped(subs[k])}

\* The entries s < cnt hold the latest of them, but for the one in last, in the
\* order of the clock from entry nxt on.
Held(cnt, last) == \A s \in Slots : s < cnt => start[s] \in Stamps \ last

Ordered(nxt, cnt) ==
    \A s, t \in Slots : s < t /\ t < cnt =>
        IF s < nxt /\ nxt <= t THEN start[t] < start[s] ELSE start[s] < start[t]

Complete(cnt, last) ==
    \A k \in Stamps \ last :
        \/ \E s \in Slots : s < cnt /\ start[s] = k
        \/ cnt = RQMAX /\ \A s \in Slots : k < start[s]

List(nxt, cnt, last) == Held(cnt, last) /\ Ordered(nxt, cnt) /\ Complete(cnt, last)

\* The entries in use once the one at hand is.
Grown == IF Growing THEN rq_max + 1 ELSE RQMAX

\* What the list holds at each place of add_rq_start, for a q alone in it.
Listing(q) ==
    /\ pc[q] \in {"pass", "lba", "time"} =>
           /\ cur[q] \in Stamps /\ \A k \in Stamps : k <= cur[q]
           /\ List(rq_num, rq_max, {cur[q]})
    /\ pc[q] \in {"load", "store"} => List(rq_num + 1, Grown, {})
    /\ pc[q] = "wrap" => List(RQMAX, Grown, {})
    /\ pc[q] \in {"test", "max", "grow"} => List(rq_num, Grown, {})

\* What the search of q has passed is of other sectors.
Passed(q) ==
    /\ \A s \in Slots : s < i[q] /\ s < rq_max => lba[s] # subs[cur[q]].lba
    /\ pc[q] = "miss" => rq_max <= i[q]

Searched == \A q \in Queues : pc[q] \in FindPcs /\ cur[q] \notin raced => Passed(q)

Reason(n) ==
    \/ logged[n] = n
    \/ ~Stamped(subs[n])
    \/ \E m \in StampedBy(1, endAt[n]) : m # n /\ subs[m].lba = subs[n].lba
    \/ Cardinality(StampedBy(n + 1, endAt[n])) >= RQMAX

Reasoned == \A n \in Subs \ raced : logged[n] # None => Reason(n)

Kept ==
    /\ NoneAdds => List(rq_num, rq_max, {})
    /\ \A q \in Queues : pc[q] \in AddPcs => Listing(q)
    /\ Searched /\ Reasoned

KeptInv == NearInv /\ (overlaps = 0 => Kept)

\* The entries in use are as many submissions.
Entries(cnt) == {start[s] : s \in {t \in Slots : t < cnt}}

LEMMA EntriesCount ==
    ASSUME TypeOK, NEW cnt \in Nat, cnt <= RQMAX, NEW nxt \in Nat, Ordered(nxt, cnt)
    PROVE  IsFiniteSet(Entries(cnt)) /\ Cardinality(Entries(cnt)) = cnt
<1> DEFINE D == 0 .. cnt - 1
           f == [s \in D |-> start[s]]
<1>1. RQMAX \in Nat \ {0} /\ D = {t \in Slots : t < cnt}
    BY RequestAssumption DEF RequestAssumption, Slots
<1>2. IsFiniteSet(D) /\ Cardinality(D) = cnt
    <2>1. 0 \in Int /\ cnt - 1 \in Int OBVIOUS
    <2>2. IsFiniteSet(D) /\ Cardinality(D) = IF 0 > cnt - 1 THEN 0 ELSE cnt - 1 - 0 + 1
        BY <2>1, FS_Interval
    <2> QED BY <2>2
<1>3. \A s \in D : start[s] \in Nat
    BY <1>1 DEF TypeOK, ListTypes
<1>4. ASSUME NEW s \in D, NEW t \in D, s # t PROVE start[s] # start[t]
    <2>1. s \in Slots /\ t \in Slots /\ s < cnt /\ t < cnt BY <1>1
    <2>2. s < t \/ t < s BY <1>4
    <2> QED BY <1>3, <2>1, <2>2 DEF Ordered
<1>5. f \in Surjection(D, Entries(cnt))
    BY <1>1 DEF Surjection, Entries
<1>6. f \in Injection(D, Entries(cnt))
    BY <1>4, <1>5 DEF Injection, Surjection, IsInjective
<1>7. f \in Bijection(D, Entries(cnt)) BY <1>5, <1>6 DEF Bijection
<1>8. ExistsBijection(D, Entries(cnt)) BY <1>7 DEF ExistsBijection
<1> QED BY <1>2, <1>8, FS_Bijection

\* The noted submissions up to now, from the n-th on, are finitely many.
LEMMA StampedFinite ==
    ASSUME NEW n \in Nat, NEW m \in Nat
    PROVE  IsFiniteSet(StampedBy(n, m)) /\ Cardinality(StampedBy(n, m)) \in Nat
<1>1. IsFiniteSet(n..m) BY FS_Interval
<1>2. StampedBy(n, m) \in SUBSET (n..m) BY DEF StampedBy
<1> QED BY <1>1, <1>2, FS_Subset, FS_CardinalityType

\* A full list of later submissions makes RQMAX of them.
LEMMA ManyLater ==
    ASSUME TypeOK, NEW nxt \in Nat, List(nxt, RQMAX, {}), NEW n \in 1..Len(subs),
           \A s \in Slots : n < start[s]
    PROVE  Cardinality(StampedBy(n + 1, Len(subs))) >= RQMAX
<1>1. Len(subs) \in Nat /\ RQMAX \in Nat /\ n + 1 \in Nat
    BY RequestAssumption DEF RequestAssumption, TypeOK
<1>2. Cardinality(Entries(RQMAX)) = RQMAX BY <1>1, EntriesCount DEF List
<1>3. Entries(RQMAX) \in SUBSET StampedBy(n + 1, Len(subs))
    <2> SUFFICES ASSUME NEW s \in Slots PROVE start[s] \in StampedBy(n + 1, Len(subs))
        BY DEF Entries
    <2>1. s < RQMAX BY <1>1 DEF Slots
    <2>2. start[s] \in 1..Len(subs) /\ Stamped(subs[start[s]])
        BY <2>1 DEF List, Held, Stamps, Subs
    <2> QED BY <1>1, <2>2 DEF StampedBy
<1>4. /\ IsFiniteSet(StampedBy(n + 1, Len(subs)))
      /\ Cardinality(StampedBy(n + 1, Len(subs))) \in Nat
    BY <1>1, StampedFinite
<1>5. Cardinality(Entries(RQMAX)) <= Cardinality(StampedBy(n + 1, Len(subs)))
    BY <1>3, <1>4, FS_Subset
<1> QED BY <1>1, <1>2, <1>4, <1>5

\* The time of the newest submission takes the place of the oldest, or the
\* first place that is free.
LEMMA WriteTime ==
    ASSUME TypeOK, NEW q \in Queues, rq_num \in Slots, rq_max <= RQMAX, Growing => rq_num = rq_max,
           cur[q] \in Stamps, \A k \in Stamps : k <= cur[q], List(rq_num, rq_max, {cur[q]}),
           start' = [start EXCEPT ![rq_num] = cur[q]], UNCHANGED subs
    PROVE  /\ \A s \in Slots : s < Grown => start'[s] \in Stamps'
           /\ \A s, t \in Slots : s < t /\ t < Grown =>
                  IF s < rq_num + 1 /\ rq_num + 1 <= t
                  THEN start'[t] < start'[s] ELSE start'[s] < start'[t]
           /\ \A k \in Stamps' :
                  \/ \E s \in Slots : s < Grown /\ start'[s] = k
                  \/ Grown = RQMAX /\ \A s \in Slots : k < start'[s]
<1>0. /\ RQMAX \in Nat \ {0} /\ Slots \subseteq Nat /\ \A s \in Slots : s < RQMAX
      /\ Stamps' = Stamps /\ Stamps \subseteq Nat /\ rq_num \in Slots /\ rq_max \in Nat
      /\ Grown = IF rq_max < RQMAX THEN rq_max + 1 ELSE RQMAX
      /\ rq_max < RQMAX => rq_num = rq_max
    BY RequestAssumption
    DEF RequestAssumption, Slots, Stamps, Subs, TypeOK, ListTypes, Grown, Growing
<1>1. /\ start'[rq_num] = cur[q]
      /\ \A s \in Slots : s # rq_num => start'[s] = start[s]
      /\ \A s \in Slots : start[s] \in Nat
    BY DEF TypeOK, ListTypes
<1>2. \A s \in Slots : s < Grown /\ s # rq_num => s < rq_max
    BY <1>0
<1>3. \A s \in Slots : s < rq_max => start[s] \in Stamps /\ start[s] # cur[q] /\ start[s] < cur[q]
    <2> SUFFICES ASSUME NEW s \in Slots, s < rq_max
                 PROVE  start[s] \in Stamps /\ start[s] # cur[q] /\ start[s] < cur[q]
        OBVIOUS
    <2>1. start[s] \in Stamps \ {cur[q]} BY DEF List, Held
    <2>2. start[s] <= cur[q] /\ start[s] \in Nat /\ cur[q] \in Nat BY <1>0, <2>1
    <2> QED BY <2>1, <2>2
<1>4. ASSUME NEW s \in Slots, s < Grown PROVE start'[s] \in Stamps'
    BY <1>0, <1>1, <1>2, <1>3, <1>4
<1>5. ASSUME NEW s \in Slots, NEW t \in Slots, s < t, t < Grown
      PROVE  IF s < rq_num + 1 /\ rq_num + 1 <= t THEN start'[t] < start'[s] ELSE start'[s] < start'[t]
    <2>1. CASE t = rq_num
        <3>1. s # rq_num /\ s < rq_max /\ ~(rq_num + 1 <= t) BY <1>0, <1>2, <1>5, <2>1
        <3> QED BY <1>1, <1>3, <2>1, <3>1
    <2>2. CASE s = rq_num
        <3>1. t # rq_num /\ t < rq_max /\ s < rq_num + 1 /\ rq_num + 1 <= t BY <1>0, <1>2, <1>5, <2>2
        <3> QED BY <1>1, <1>3, <2>2, <3>1
    <2>3. CASE s # rq_num /\ t # rq_num
        <3>1. t < rq_max /\ start'[s] = start[s] /\ start'[t] = start[t]
            BY <1>1, <1>2, <1>5, <2>3
        <3>2. IF s < rq_num /\ rq_num <= t THEN start[t] < start[s] ELSE start[s] < start[t]
            BY <1>5, <3>1 DEF List, Ordered
        <3>3. (s < rq_num + 1 /\ rq_num + 1 <= t) <=> (s < rq_num /\ rq_num <= t)
            BY <1>0, <2>3
        <3> QED BY <3>1, <3>2, <3>3
    <2> QED BY <2>1, <2>2, <2>3
<1>6. ASSUME NEW k \in Stamps
      PROVE  \/ \E s \in Slots : s < Grown /\ start'[s] = k
             \/ Grown = RQMAX /\ \A s \in Slots : k < start'[s]
    <2>1. CASE k = cur[q]
        <3>1. rq_num < Grown BY <1>0
        <3> QED BY <1>1, <2>1, <3>1
    <2>2. CASE k # cur[q] /\ \E s \in Slots : s < rq_max /\ start[s] = k
        <3> PICK s \in Slots : s < rq_max /\ start[s] = k BY <2>2
        <3>1. s < Grown BY <1>0
        <3>2. CASE s # rq_num BY <1>1, <3>1, <3>2
        <3>3. CASE s = rq_num
            <4>1. rq_max = RQMAX /\ Grown = RQMAX BY <1>0, <3>3
            <4> SUFFICES ASSUME NEW t \in Slots PROVE k < start'[t] BY <4>1
            <4>2. CASE t = rq_num BY <1>1, <1>3, <3>3, <4>2
            <4>3. CASE t < rq_num
                <5>1. s < rq_max /\ t < s /\ t < rq_num /\ rq_num <= s BY <1>0, <3>3, <4>3
                <5>2. start[s] < start[t] BY <5>1 DEF List, Ordered
                <5> QED BY <1>0, <1>1, <4>3, <5>2
            <4>4. CASE rq_num < t
                <5>1. t < rq_max /\ s < t /\ ~(s < rq_num) BY <1>0, <3>3, <4>1, <4>4
                <5>2. start[s] < start[t] BY <5>1 DEF List, Ordered
                <5> QED BY <1>0, <1>1, <4>4, <5>2
            <4> QED BY <1>0, <4>2, <4>3, <4>4
        <3> QED BY <3>2, <3>3
    <2>3. CASE k # cur[q] /\ rq_max = RQMAX /\ \A s \in Slots : k < start[s]
        <3>1. Grown = RQMAX BY <1>0, <2>3
        <3>2. k < cur[q]
            <4>1. k <= cur[q] /\ k \in Nat /\ cur[q] \in Nat BY <1>0
            <4> QED BY <2>3, <4>1
        <3> QED BY <1>1, <2>3, <3>1, <3>2
    <2>4. k # cur[q] => k \in Stamps \ {cur[q]} OBVIOUS
    <2> QED BY <2>1, <2>2, <2>3, <2>4 DEF List, Complete
<1> QED BY <1>0, <1>4, <1>5, <1>6

\* Alone in add_rq_start, q only has to account for the list.
LEMMA MoveKept ==
    ASSUME TypeOK, Inside, Notes, Kept, NEW q \in Queues, pc[q] \in AddPcs,
           NEW place \in AddPcs \cup {"idle"}, Goto(q, place),
           UNCHANGED <<subs, logged, endAt, raced>>,
           \A p \in Queues : p # q => cur'[p] = cur[p],
           place \in AddPcs => Listing(q)',
           place = "idle" => List(rq_num, rq_max, {})'
    PROVE  Kept'
<1>1. /\ pc'[q] = place /\ \A p \in Queues : p # q => pc'[p] = pc[p] /\ pc[p] \notin AddPcs
    BY DEF TypeOK, LocalTypes, Goto, Inside
<1>2. \A p \in Queues : pc'[p] \in AddPcs => Listing(p)' BY <1>1
<1>3. NoneAdds' => place = "idle" BY <1>1 DEF NoneAdds
<1>4. Searched'
    <2> SUFFICES ASSUME NEW p \in Queues, pc'[p] \in FindPcs, cur'[p] \notin raced PROVE FALSE
        BY DEF Searched
    <2>1. p # q BY <1>1 DEF FindPcs, AddPcs
    <2>2. Quiet(p) BY <1>1, <2>1 DEF Notes, QuietSearches
    <2> QED BY <2>2 DEF Quiet, NoneAdds
<1>5. Reasoned' BY DEF Kept, Reasoned, Reason, StampedBy, Subs
<1> QED BY <1>2, <1>3, <1>4, <1>5 DEF Kept

LEMMA AddKept ==
    ASSUME TypeOK, Inside, Notes, Kept, NEW q \in Queues, AddStep(q)
    PROVE  Kept'
<1>0. pc[q] \in AddPcs
    BY DEF AddStep, Pass, StoreLba, StoreTime, LoadNum, StoreNum, TestNum, WrapNum, TestMax,
           GrowMax, AddPcs
<1>1. At(q) /\ Noting(q) /\ Listing(q) /\ rq_max <= RQMAX BY <1>0 DEF Inside, Notes, Kept
<1>2. /\ rq_num \in Nat /\ rq_max \in Nat /\ RQMAX \in Nat \ {0}
      /\ pc \in [Queues -> {"idle"} \cup AddPcs \cup FindPcs]
    BY RequestAssumption DEF RequestAssumption, TypeOK, ListTypes, LocalTypes
<1>3. CASE Pass(q) \/ StoreLba(q)
    <2>1. PICK place \in {"lba", "time"} : Goto(q, place) BY <1>3 DEF Pass, StoreLba
    <2>2. /\ pc[q] \in {"pass", "lba", "time"} /\ pc'[q] = place
          /\ UNCHANGED <<rq_num, rq_max, start, cur, subs>>
        BY <1>2, <1>3, <2>1 DEF Pass, StoreLba, Goto, listVars
    <2>3. Listing(q)'
        BY <1>1, <2>2 DEF Listing, List, Held, Ordered, Complete, Stamps, Subs
    <2> QED BY <1>0, <1>3, <2>1, <2>2, <2>3, MoveKept
            DEF Pass, StoreLba, AddPcs, logVars, histVars
<1>4. CASE StoreTime(q)
    <2>1. /\ pc[q] = "time" /\ pc'[q] = "load" /\ rq_num \in Slots
          /\ UNCHANGED <<rq_num, rq_max, cur, subs>>
          /\ start' = [start EXCEPT ![rq_num] = cur[q]]
        BY <1>1, <1>2, <1>4 DEF StoreTime, At, Noting, Goto, Reload
    <2>2. /\ cur[q] \in Stamps /\ \A k \in Stamps : k <= cur[q]
          /\ List(rq_num, rq_max, {cur[q]})
          /\ Growing => rq_num = rq_max
        BY <1>1, <2>1 DEF Listing, Noting
    <2>3. /\ Grown' = Grown /\ Grown \in Nat
          /\ Grown = IF rq_max < RQMAX THEN rq_max + 1 ELSE RQMAX
        BY <1>2, <2>1 DEF Grown, Growing
    <2>4. List(rq_num + 1, Grown, {})'
        <3>1. /\ \A s \in Slots : s < Grown => start'[s] \in Stamps'
              /\ \A s, t \in Slots : s < t /\ t < Grown =>
                     IF s < rq_num + 1 /\ rq_num + 1 <= t
                     THEN start'[t] < start'[s] ELSE start'[s] < start'[t]
              /\ \A k \in Stamps' :
                     \/ \E s \in Slots : s < Grown /\ start'[s] = k
                     \/ Grown = RQMAX /\ \A s \in Slots : k < start'[s]
            <4>1. /\ rq_num \in Slots /\ rq_max \in Nat /\ rq_max <= RQMAX /\ UNCHANGED subs
                  /\ start' = [start EXCEPT ![rq_num] = cur[q]]
                BY <1>1, <1>2, <2>1
            <4> QED BY <2>2, <2>3, <4>1, WriteTime
        <3> QED BY <2>1, <2>3, <3>1 DEF List, Held, Ordered, Complete
    <2>5. Listing(q)' BY <2>1, <2>4 DEF Listing
    <2> QED BY <1>0, <1>4, <2>1, <2>5, MoveKept DEF StoreTime, AddPcs, logVars
<1>5. CASE LoadNum(q)
    <2>1. /\ pc[q] = "load" /\ pc'[q] = "store"
          /\ UNCHANGED <<rq_num, rq_max, start, cur, subs>>
        BY <1>2, <1>5 DEF LoadNum, Goto, listVars
    <2>2. Listing(q)'
        BY <1>1, <2>1 DEF Listing, List, Held, Ordered, Complete, Stamps, Subs, Grown, Growing
    <2> QED BY <1>0, <1>5, <2>1, <2>2, MoveKept DEF LoadNum, AddPcs, logVars, histVars
<1>6. CASE StoreNum(q)
    <2>1. /\ pc[q] = "store" /\ pc'[q] = "test" /\ rq_num' = rq_num + 1
          /\ UNCHANGED <<rq_max, start, cur, subs>>
        BY <1>1, <1>2, <1>6 DEF StoreNum, At, Goto
    <2>2. Listing(q)'
        BY <1>1, <2>1 DEF Listing, List, Held, Ordered, Complete, Stamps, Subs, Grown, Growing
    <2> QED BY <1>0, <1>6, <2>1, <2>2, MoveKept DEF StoreNum, AddPcs, logVars, histVars
<1>7. CASE TestNum(q)
    <2>1. PICK place \in {"wrap", "max"} : Goto(q, place) /\ (place = "wrap" => rq_num = RQMAX)
        BY <1>1, <1>7 DEF TestNum, At, Reload
    <2>2. /\ pc[q] = "test" /\ pc'[q] = place
          /\ UNCHANGED <<rq_num, rq_max, start, cur, subs>>
        BY <1>2, <1>7, <2>1 DEF TestNum, Goto, listVars
    <2>3. List(rq_num, Grown, {})'
        BY <1>1, <2>2 DEF Listing, List, Held, Ordered, Complete, Stamps, Subs, Grown, Growing
    <2>4. place = "wrap" => List(RQMAX, Grown, {})' BY <2>1, <2>2, <2>3
    <2>5. Listing(q)' BY <2>2, <2>3, <2>4 DEF Listing
    <2> QED BY <1>0, <1>7, <2>1, <2>2, <2>5, MoveKept DEF TestNum, AddPcs, logVars, histVars
<1>8. CASE WrapNum(q)
    <2>1. /\ pc[q] = "wrap" /\ pc'[q] = "max" /\ rq_num' = 0
          /\ UNCHANGED <<rq_max, start, cur, subs>>
        BY <1>2, <1>8 DEF WrapNum, Goto
    <2>2. List(RQMAX, Grown, {}) BY <1>1, <2>1 DEF Listing
    <2>3. \A s, t \in Slots : ~(s < RQMAX /\ RQMAX <= t) /\ ~(s < 0 /\ 0 <= t)
        BY <1>2 DEF Slots
    <2>4. List(rq_num, Grown, {})'
        BY <2>1, <2>2, <2>3 DEF List, Held, Ordered, Complete, Stamps, Subs, Grown, Growing
    <2>5. Listing(q)' BY <2>1, <2>4 DEF Listing
    <2> QED BY <1>0, <1>8, <2>1, <2>5, MoveKept DEF WrapNum, AddPcs, logVars, histVars
<1>9. CASE TestMax(q)
    <2>1. pc[q] = "max" /\ UNCHANGED <<rq_num, rq_max, start, subs>>
        BY <1>9 DEF TestMax, listVars
    <2>2. List(rq_num, Grown, {}) BY <1>1, <2>1 DEF Listing
    <2>3. CASE Growing
        <3>1. pc'[q] = "grow" /\ Goto(q, "grow") /\ UNCHANGED cur
            BY <1>2, <1>9, <2>3 DEF TestMax, Growing, Goto
        <3>2. List(rq_num, Grown, {})'
            BY <2>1, <2>2 DEF List, Held, Ordered, Complete, Stamps, Subs, Grown, Growing
        <3>3. Listing(q)' BY <3>1, <3>2 DEF Listing
        <3> QED BY <1>0, <1>9, <2>1, <3>1, <3>3, MoveKept DEF TestMax, AddPcs, histVars
    <2>4. CASE ~Growing
        <3>1. Ring(q) BY <1>9, <2>4 DEF TestMax, Growing
        <3>2. Goto(q, "idle") /\ \A p \in Queues : p # q => cur'[p] = cur[p]
            BY <3>1 DEF Ring, TypeOK, LocalTypes
        <3>3. Grown = rq_max BY <1>1, <1>2, <2>4 DEF Grown, Growing
        <3>4. List(rq_num, rq_max, {})'
            BY <2>1, <2>2, <3>3 DEF List, Held, Ordered, Complete, Stamps, Subs
        <3> QED BY <1>0, <1>9, <2>1, <3>2, <3>4, MoveKept DEF TestMax, AddPcs, histVars
    <2> QED BY <2>3, <2>4
<1>10. CASE GrowMax(q)
    <2>1. /\ pc[q] = "grow" /\ rq_max < RQMAX /\ reg[q] = rq_max
          /\ UNCHANGED <<rq_num, start, subs>>
        BY <1>1, <1>10 DEF GrowMax, At
    <2>2. rq_max' = Grown BY <1>10, <2>1 DEF GrowMax, Reload, Grown, Growing
    <2>3. Goto(q, "idle") /\ \A p \in Queues : p # q => cur'[p] = cur[p]
        BY <1>10 DEF GrowMax, Ring, TypeOK, LocalTypes
    <2>4. List(rq_num, rq_max, {})'
        BY <1>1, <2>1, <2>2 DEF Listing, List, Held, Ordered, Complete, Stamps, Subs
    <2> QED BY <1>0, <1>10, <2>1, <2>3, <2>4, MoveKept DEF GrowMax, AddPcs, histVars
<1> QED BY <1>3, <1>4, <1>5, <1>6, <1>7, <1>8, <1>9, <1>10 DEF AddStep

\* A submission is noted or not, and leaves the noted ones.
LEMMA IssueStamps ==
    ASSUME TypeOK, NEW q \in Queues, NEW r \in Request, Issue(q, r)
    PROVE  Stamps' = IF Stamped(r) THEN Stamps \cup {Len(subs) + 1} ELSE Stamps
<1>1. /\ Len(subs) \in Nat /\ Len(subs)' = Len(subs) + 1 /\ subs'[Len(subs) + 1] = r
      /\ \A n \in 1..Len(subs) : subs'[n] = subs[n]
    BY IssueKeeps
<1>2. Subs' = Subs \cup {Len(subs) + 1} /\ Subs = 1..Len(subs)
    BY <1>1 DEF Subs
<1>3. \A k \in Subs : Stamped(subs'[k]) <=> Stamped(subs[k])
    BY <1>1, <1>2 DEF Stamped
<1>4. Stamped(subs'[Len(subs) + 1]) <=> Stamped(r)
    BY <1>1 DEF Stamped
<1>5. Stamps' = {k \in Subs \cup {Len(subs) + 1} : Stamped(subs'[k])}
    BY <1>2 DEF Stamps, Stamped
<1> QED BY <1>3, <1>4, <1>5 DEF Stamps

\* What counts for a completed request was submitted before it was done.
LEMMA IssueReasoned ==
    ASSUME TypeOK, Unmade, Reasoned, NEW q \in Queues, NEW r \in Request, Issue(q, r)
    PROVE  Reasoned'
<1> SUFFICES ASSUME NEW n \in 1..Len(subs)', n \notin raced', logged'[n] # None PROVE Reason(n)'
    BY DEF Reasoned, Subs
<1>1. raced \subseteq raced' /\ logged' = logged /\ endAt' = endAt BY DEF Issue
<1>2. Len(subs)' <= MaxSubmits BY IssueType, IssueKeeps DEF Issue
<1>3. n \in Ids BY <1>2, IssueKeeps, RequestAssumption DEF Ids, RequestAssumption
<1>4. n \in 1..Len(subs) BY <1>1, <1>3, IssueKeeps DEF Unmade
<1>5. Reason(n) BY <1>1, <1>4 DEF Reasoned, Subs
<1>6. endAt[n] \in 0..Len(subs) BY <1>3 DEF TypeOK, LogTypes
<1>7. \A m \in 1..endAt[n] : m \in 1..Len(subs) /\ subs'[m] = subs[m]
    BY <1>6, IssueKeeps
<1>8. StampedBy(1, endAt[n])' = StampedBy(1, endAt[n])
    BY <1>1, <1>7 DEF StampedBy, Stamped
<1>9. StampedBy(n + 1, endAt[n])' = StampedBy(n + 1, endAt[n])
    <2>1. \A m \in n + 1 .. endAt[n] : m \in 1..endAt[n] BY <1>4, <1>6
    <2> QED BY <1>1, <1>7, <2>1 DEF StampedBy, Stamped
<1>10. Stamped(subs[n])' <=> Stamped(subs[n])
    BY <1>4, IssueKeeps DEF Stamped
<1>11. \A m \in StampedBy(1, endAt[n]) : subs'[m].lba = subs[m].lba
    BY <1>7 DEF StampedBy
<1> QED BY <1>1, <1>4, <1>5, <1>8, <1>9, <1>10, <1>11, IssueKeeps DEF Reason

LEMMA IssueKept ==
    ASSUME TypeOK, Unmade, Inside, Notes, Kept, NEW q \in Queues, NEW r \in Request, Issue(q, r),
           overlaps = 0, overlaps' = 0
    PROVE  Kept'
<1>1. ~r.discard => NoneAdds
    BY DEF Issue, Adding, NoneAdds
<1>2. /\ UNCHANGED <<rq_num, rq_max, lba, start, i>> /\ Growing' = Growing /\ Grown' = Grown
      /\ Len(subs) \in Nat
    BY IssueKeeps DEF Issue, listVars, Growing, Grown
<1>3. Reasoned' BY IssueReasoned DEF Kept
<1>4. CASE Stamped(r)
    <2> DEFINE n == Len(subs) + 1
    <2>1. /\ pc' = [pc EXCEPT ![q] = "pass"] /\ cur' = [cur EXCEPT ![q] = n]
          /\ raced' = raced \cup {cur[p] : p \in Finding}
        BY <1>4 DEF Issue, Goto
    <2>2. NoneAdds /\ Stamps' = Stamps \cup {n} BY <1>1, <1>4, IssueStamps DEF Stamped
    <2>3. \A k \in Stamps : k \in Nat /\ k < n BY <1>2 DEF Stamps, Subs
    <2>4. Stamps' \ {n} = Stamps \ {} /\ n \in Stamps' /\ \A k \in Stamps' : k <= n
        BY <1>2, <2>2, <2>3
    <2>5. /\ pc'[q] = "pass" /\ cur'[q] = n
          /\ \A p \in Queues : p # q => pc'[p] = pc[p] /\ cur'[p] = cur[p]
        BY <2>1 DEF TypeOK, LocalTypes
    <2>6. \A p \in Queues : pc'[p] \in AddPcs => p = q
        BY <2>2, <2>5 DEF NoneAdds
    <2>7. Listing(q)'
        <3>1. List(rq_num, rq_max, {}) BY <2>2 DEF Kept
        <3>2. List(rq_num, rq_max, {cur[q]})'
            BY <1>2, <2>4, <2>5, <3>1 DEF List, Held, Ordered, Complete
        <3> QED BY <2>4, <2>5, <3>2 DEF Listing
    <2>8. Searched'
        <3> SUFFICES ASSUME NEW p \in Queues, pc'[p] \in FindPcs, cur'[p] \notin raced'
                     PROVE  FALSE
            BY DEF Searched
        <3>1. p # q BY <2>5 DEF FindPcs
        <3>2. p \in Finding /\ cur'[p] = cur[p] BY <2>5, <3>1 DEF Finding
        <3> QED BY <2>1, <3>2
    <2>9. ~NoneAdds' BY <2>5 DEF NoneAdds, AddPcs
    <2> QED BY <1>3, <2>6, <2>7, <2>8, <2>9 DEF Kept
<1>5. CASE ~Stamped(r)
    <2>1. UNCHANGED <<pc, cur, raced>> /\ Stamps' = Stamps BY <1>5, IssueStamps DEF Issue
    <2>2. \A p \in Queues : Listing(p) => Listing(p)'
        BY <1>2, <2>1 DEF Listing, List, Held, Ordered, Complete
    <2>3. List(rq_num, rq_max, {}) => List(rq_num, rq_max, {})'
        BY <1>2, <2>1 DEF List, Held, Ordered, Complete
    <2>4. \A p \in Queues : pc[p] # "idle" => subs'[cur[p]] = subs[cur[p]]
        BY AtHand, IssueKeeps
    <2>5. Searched'
        <3> SUFFICES ASSUME NEW p \in Queues, pc[p] \in FindPcs, cur[p] \notin raced
                     PROVE  Passed(p)'
            BY <2>1 DEF Searched
        <3>1. Passed(p) /\ pc[p] # "idle" BY DEF Kept, Searched, FindPcs
        <3> QED BY <1>2, <2>1, <2>4, <3>1 DEF Passed
    <2>6. NoneAdds' => NoneAdds BY <2>1 DEF NoneAdds
    <2> QED BY <1>3, <2>1, <2>2, <2>3, <2>5, <2>6 DEF Kept
<1> QED BY <1>4, <1>5

\* Completions leave the list, and the submission each queue is noting.
LEMMA ReadKept ==
    ASSUME TypeOK, Kept, NEW q \in Queues, pc[q] \notin AddPcs, pc'[q] \notin AddPcs,
           \A p \in Queues : p # q => pc'[p] = pc[p] /\ cur'[p] = cur[p] /\ i'[p] = i[p],
           UNCHANGED <<rq_num, rq_max, lba, start, subs>>, raced \subseteq raced',
           pc'[q] \in FindPcs /\ cur'[q] \notin raced' => Passed(q)',
           Reasoned'
    PROVE  Kept'
<1>1. NoneAdds' <=> NoneAdds BY DEF NoneAdds
<1>2. /\ List(rq_num, rq_max, {}) => List(rq_num, rq_max, {})'
      /\ \A p \in Queues : p # q /\ Listing(p) => Listing(p)'
    BY DEF Listing, List, Held, Ordered, Complete, Stamps, Subs, Grown, Growing
<1>3. Searched'
    <2> SUFFICES ASSUME NEW p \in Queues, pc'[p] \in FindPcs, cur'[p] \notin raced'
                 PROVE  Passed(p)'
        BY DEF Searched
    <2>1. CASE p = q BY <2>1
    <2>2. CASE p # q
        <3>1. Passed(p) BY <2>2 DEF Kept, Searched
        <3> QED BY <2>2, <3>1 DEF Passed
    <2> QED BY <2>1, <2>2
<1> QED BY <1>1, <1>2, <1>3 DEF Kept

LEMMA FinishKept ==
    ASSUME TypeOK, Kept, NEW q \in Queues, Finish(q)
    PROVE  Kept'
<1>1. /\ pc[q] = "idle" /\ pc'[q] = "find" /\ i'[q] = 0
      /\ \A p \in Queues : p # q => pc'[p] = pc[p] /\ cur'[p] = cur[p] /\ i'[p] = i[p]
      /\ UNCHANGED <<rq_num, rq_max, lba, start, subs, logged, endAt>>
      /\ raced \subseteq raced'
    BY DEF Finish, Goto, TypeOK, LocalTypes, listVars, logVars
<1>2. Passed(q)' BY <1>1 DEF Passed, Slots
<1>3. Reasoned' BY <1>1 DEF Kept, Reasoned, Reason, StampedBy, Subs
<1> QED BY <1>1, <1>2, <1>3, ReadKept DEF AddPcs

LEMMA FindKept ==
    ASSUME TypeOK, Inside, Kept, NEW q \in Queues, Find(q)
    PROVE  Kept'
<1>1. /\ pc[q] = "find" /\ pc'[q] \in FindPcs
      /\ UNCHANGED <<rq_num, rq_max, lba, start, subs, raced, cur, logged, endAt>>
      /\ i[q] \in Nat /\ rq_max \in Nat
      /\ \A p \in Queues : p # q => pc'[p] = pc[p] /\ i'[p] = i[p]
    BY DEF Find, Goto, FindPcs, listVars, logVars, TypeOK, LocalTypes, ListTypes
<1>2. Reasoned' BY <1>1 DEF Kept, Reasoned, Reason, StampedBy, Subs
<1>3. ASSUME cur[q] \notin raced PROVE Passed(q)'
    <2>1. Passed(q) BY <1>1, <1>3 DEF Kept, Searched, FindPcs
    <2>2. CASE i[q] >= rq_max
        <3>1. Goto(q, "miss") /\ UNCHANGED i BY <2>2 DEF Find
        <3> QED BY <1>1, <2>1, <2>2, <3>1 DEF Passed
    <2>3. CASE ~(i[q] >= rq_max) /\ i[q] \in Slots /\ lba[i[q]] = subs[cur[q]].lba
        <3>1. pc'[q] = "take" /\ UNCHANGED i BY <2>3 DEF Find, Goto, TypeOK, LocalTypes
        <3> QED BY <1>1, <2>1, <3>1 DEF Passed
    <2>4. CASE ~(i[q] >= rq_max) /\ ~(i[q] \in Slots /\ lba[i[q]] = subs[cur[q]].lba)
        <3>1. i'[q] = i[q] + 1 /\ pc'[q] = "find" BY <1>1, <2>4 DEF Find, TypeOK, LocalTypes
        <3>2. \A s \in Slots : s < i[q] + 1 => s < i[q] \/ s = i[q] BY <1>1 DEF Slots
        <3> QED BY <1>1, <2>1, <2>4, <3>1, <3>2 DEF Passed
    <2> QED BY <2>2, <2>3, <2>4
<1> QED BY <1>1, <1>2, <1>3, ReadKept DEF AddPcs, FindPcs

\* What is logged is the request's own time, or one of the three reasons holds:
\* an entry of its sector is of a noted submission, and a noted request that no
\* entry is of was pushed out by RQMAX later ones.
LEMMA LogKept ==
    ASSUME TypeOK, Inside, Notes, Kept, NEW q \in Queues, Take(q) \/ Miss(q)
    PROVE  Kept'
<1> PICK s \in {start[i[q]], rq_prev} :
        /\ Log(q, s) /\ pc[q] \in {"take", "miss"}
        /\ pc[q] = "take" => s = start[i[q]]
    BY DEF Take, Miss
<1>1. /\ pc[q] \in FindPcs /\ pc[q] # "idle" /\ pc[q] \notin AddPcs
      /\ pc'[q] \notin AddPcs /\ pc'[q] \notin FindPcs
      /\ UNCHANGED <<rq_num, rq_max, lba, start, subs, raced>>
      /\ \A p \in Queues : p # q => pc'[p] = pc[p] /\ cur'[p] = cur[p] /\ i'[p] = i[p]
    BY DEF Log, Goto, FindPcs, AddPcs, listVars, histVars, TypeOK, LocalTypes
<1>2. cur[q] \in 1..Len(subs) /\ cur[q] \in Ids /\ Len(subs) \in Nat
    BY <1>1, AtHand, RequestAssumption DEF TypeOK, Ids, RequestAssumption
<1>3. /\ logged'[cur[q]] = s /\ endAt'[cur[q]] = Len(subs)
      /\ \A n \in Ids : n # cur[q] => logged'[n] = logged[n] /\ endAt'[n] = endAt[n]
    BY <1>2 DEF Log, TypeOK, LogTypes
<1>4. ASSUME NEW n \in 1..Len(subs), n = cur[q], n \notin raced PROVE Reason(n)'
    <2>1. Quiet(q) /\ Passed(q) BY <1>1, <1>4 DEF Notes, QuietSearches, Kept, Searched
    <2>2. List(rq_num, rq_max, {}) BY <2>1 DEF Quiet, Kept
    <2>3. \A t \in Slots : t < rq_max => Fits(t)
        BY <2>1 DEF Quiet, NoneAdds, AddPcs, Notes, EntriesFit
    <2>4. CASE pc[q] = "take"
        <3>1. i[q] \in Slots /\ i[q] < rq_max /\ lba[i[q]] = subs[n].lba
            BY <1>4, <2>1, <2>4 DEF Quiet, TypeOK, LocalTypes
        <3>2. s = start[i[q]] /\ s \in Stamps /\ subs[s].lba = subs[n].lba
            BY <2>2, <2>3, <2>4, <3>1 DEF List, Held, Fits
        <3>3. s \in StampedBy(1, Len(subs)) BY <3>2 DEF Stamps, Subs, StampedBy
        <3>4. CASE s = n BY <1>3, <1>4, <3>4 DEF Reason
        <3>5. CASE s # n
            <4>1. StampedBy(1, endAt[n])' = StampedBy(1, Len(subs))
                BY <1>1, <1>3, <1>4 DEF StampedBy
            <4> QED BY <1>1, <3>2, <3>3, <3>5, <4>1 DEF Reason
        <3> QED BY <3>4, <3>5
    <2>5. CASE pc[q] = "miss" /\ Stamped(subs[n])
        <3>1. n \in Stamps BY <2>5 DEF Stamps, Subs
        <3>2. rq_max \in Nat /\ i[q] \in Nat /\ \A t \in Slots : t < rq_max => t < i[q]
            BY <2>1, <2>5 DEF Passed, Slots, TypeOK, ListTypes, LocalTypes
        <3>3. \A t \in Slots : t < rq_max => start[t] # n
            BY <1>4, <2>1, <2>3, <3>2 DEF Passed, Fits
        <3>4. rq_max = RQMAX /\ \A t \in Slots : n < start[t]
            BY <2>2, <3>1, <3>3 DEF List, Complete
        <3>5. rq_num \in Nat BY DEF TypeOK, ListTypes
        <3>6. Cardinality(StampedBy(n + 1, Len(subs))) >= RQMAX
            BY <2>2, <3>4, <3>5, ManyLater
        <3>7. StampedBy(n + 1, endAt[n])' = StampedBy(n + 1, Len(subs))
            BY <1>1, <1>3, <1>4 DEF StampedBy
        <3> QED BY <3>6, <3>7 DEF Reason
    <2>6. CASE ~Stamped(subs[n]) BY <1>1, <2>6 DEF Reason, Stamped
    <2> QED BY <2>4, <2>5, <2>6
<1>5. Reasoned'
    <2> SUFFICES ASSUME NEW n \in 1..Len(subs), n \notin raced, logged'[n] # None PROVE Reason(n)'
        BY <1>1 DEF Reasoned, Subs
    <2>1. CASE n = cur[q]
        BY <1>4, <2>1
    <2>2. CASE n # cur[q]
        <3>1. n \in Ids BY RequestAssumption DEF TypeOK, Ids, RequestAssumption
        <3>2. Reason(n) BY <1>3, <2>2, <3>1 DEF Kept, Reasoned, Subs
        <3> QED BY <1>1, <1>3, <2>2, <3>1, <3>2 DEF Reason, StampedBy
    <2> QED BY <2>1, <2>2
<1> QED BY <1>1, <1>5, ReadKept

LEMMA KeptStep == KeptInv /\ [Next]_vars => KeptInv'
<1> SUFFICES ASSUME KeptInv, [Next]_vars PROVE KeptInv' OBVIOUS
<1>0. /\ TypeOK /\ Unmade /\ (overlaps = 0 => Inside /\ Notes /\ Kept) /\ NearInv'
      /\ overlaps \in Nat
    BY NearStep, RequestAssumption
    DEF KeptInv, NearInv, InsideInv, TypeOK, ListTypes, RequestAssumption
<1> SUFFICES ASSUME overlaps' = 0 PROVE Kept' BY <1>0 DEF KeptInv
<1>1. ASSUME NEW q \in Queues, NEW r \in Request, Issue(q, r) PROVE Kept'
    <2>1. overlaps = 0 BY <1>0, <1>1 DEF Issue
    <2> QED BY <1>0, <1>1, <2>1, IssueKept
<1>2. ASSUME NEW q \in Queues, QueueRq(q) PROVE Kept'
    <2> PICK r \in Requests : Issue(q, [queue |-> q, lba |-> r.lba, discard |-> r.discard])
        BY <1>2 DEF QueueRq
    <2>1. [queue |-> q, lba |-> r.lba, discard |-> r.discard] \in Request
        BY RequestAssumption DEF RequestAssumption, Request, Lbas
    <2> QED BY <1>1, <2>1
<1>3. ASSUME NEW q \in Queues, Retry(q) PROVE Kept'
    <2> PICK n \in again : Issue(q, subs[n]) BY <1>3 DEF Retry
    <2>1. subs[n] \in Request BY <1>0 DEF TypeOK, LogTypes
    <2> QED BY <1>1, <2>1
<1>4. ASSUME NEW q \in Queues, AddStep(q) PROVE Kept'
    <2>1. overlaps' = overlaps
        BY <1>4 DEF AddStep, Pass, StoreLba, StoreTime, LoadNum, StoreNum, TestNum, WrapNum,
                    TestMax, GrowMax, histVars
    <2> QED BY <1>0, <1>4, <2>1, AddKept
<1>5. ASSUME NEW q \in Queues, Finish(q) \/ FindStep(q) PROVE Kept'
    <2>1. overlaps' = overlaps
        BY <1>5 DEF Finish, FindStep, Find, Take, Miss, Log, histVars
    <2> QED BY <1>0, <1>5, <2>1, FinishKept, FindKept, LogKept DEF FindStep
<1>6. CASE UNCHANGED vars
    BY <1>0, <1>6
    DEF vars, listVars, locVars, logVars, histVars, Kept, NoneAdds, Listing, List, Held, Ordered,
        Complete, Stamps, Subs, Grown, Growing, Searched, Passed, Reasoned, Reason, StampedBy
<1> QED BY <1>2, <1>3, <1>4, <1>5, <1>6 DEF Next

LEMMA KeptHolds == Spec => []KeptInv
<1>1. Init => KeptInv
    <2> SUFFICES ASSUME Init PROVE KeptInv OBVIOUS
    <2>1. Len(subs) = 0 /\ rq_max = 0 /\ Subs = {} BY DEF Init, Subs
    <2>2. \A q \in Queues : pc[q] \notin AddPcs /\ pc[q] \notin FindPcs
        BY DEF Init, AddPcs, FindPcs
    <2>3. \A s \in Slots : ~(s < 0) /\ s \in Nat BY DEF Slots
    <2>4. List(rq_num, rq_max, {})
        BY <2>1, <2>3 DEF List, Held, Ordered, Complete, Stamps
    <2>5. Searched /\ Reasoned BY <2>1, <2>2 DEF Searched, Reasoned
    <2> QED BY <2>2, <2>4, <2>5, NearInit DEF KeptInv, Kept
<1> QED BY <1>1, KeptStep, PTL DEF Spec

\* For any number of queues, entries and requests: where no two calls of
\* add_rq_start overlapped, the list holds the latest RQMAX submissions that are
\* noted and nothing else, each time with its sector.
THEOREM ListLatest == Spec => []ListIsTheLatest
<1>1. KeptInv => ListIsTheLatest
    <2> SUFFICES ASSUME KeptInv, overlaps = 0, Adding = {}
        PROVE  /\ {start[s] : s \in {t \in Slots : t < rq_max}} =
                      {n \in StampedBy(1, Len(subs)) :
                           Cardinality(StampedBy(n, Len(subs))) <= RQMAX}
               /\ \A s \in {t \in Slots : t < rq_max} : lba[s] = subs[start[s]].lba
        BY DEF ListIsTheLatest
    <2>1. NoneAdds BY DEF Adding, NoneAdds
    <2>2. /\ TypeOK /\ List(rq_num, rq_max, {}) /\ EntriesFit
          /\ rq_num \in Nat /\ rq_max \in Nat /\ rq_max <= RQMAX
          /\ RQMAX \in Nat /\ Len(subs) \in Nat
        BY <2>1, RequestAssumption
        DEF KeptInv, Kept, NearInv, Notes, InsideInv, Inside, TypeOK, ListTypes, RequestAssumption
    <2>3. StampedBy(1, Len(subs)) = Stamps BY DEF StampedBy, Stamps, Subs
    <2>4. IsFiniteSet(Entries(rq_max)) /\ Cardinality(Entries(rq_max)) = rq_max
        BY <2>2, EntriesCount DEF List
    <2>5. Entries(rq_max) \subseteq Stamps BY <2>2 DEF Entries, List, Held
    <2>6. ASSUME NEW n \in Stamps
          PROVE  /\ n \in Nat /\ StampedBy(n, Len(subs)) = {k \in Stamps : n <= k}
                 /\ IsFiniteSet(StampedBy(n, Len(subs)))
                 /\ Cardinality(StampedBy(n, Len(subs))) \in Nat
        <3>1. n \in 1..Len(subs) BY DEF Stamps, Subs
        <3>2. StampedBy(n, Len(subs)) = {k \in Stamps : n <= k}
            BY <2>2, <3>1 DEF StampedBy, Stamps, Subs
        <3>3. n \in Nat BY <3>1
        <3>4. /\ IsFiniteSet(StampedBy(n, Len(subs)))
              /\ Cardinality(StampedBy(n, Len(subs))) \in Nat
            BY <2>2, <3>3, StampedFinite
        <3> QED BY <3>2, <3>3, <3>4
    <2>7. ASSUME NEW n \in Entries(rq_max)
          PROVE  n \in Stamps /\ Cardinality(StampedBy(n, Len(subs))) <= RQMAX
        <3>1. n \in Stamps /\ \A k \in Stamps : k \in Nat BY <2>5 DEF Stamps, Subs
        <3>2. StampedBy(n, Len(subs)) \in SUBSET Entries(rq_max)
            <4> SUFFICES ASSUME NEW k \in Stamps, n <= k PROVE k \in Entries(rq_max)
                BY <2>6, <3>1
            <4>1. PICK s \in Slots : s < rq_max /\ start[s] = n BY DEF Entries
            <4>2. ~(k < start[s]) BY <3>1, <4>1
            <4> QED BY <2>2, <4>2 DEF List, Complete, Entries
        <3>3. Cardinality(StampedBy(n, Len(subs))) <= rq_max
            BY <2>4, <3>2, FS_Subset
        <3> QED BY <2>2, <2>6, <3>1, <3>3
    <2>8. ASSUME NEW n \in Stamps, n \notin Entries(rq_max)
          PROVE  ~(Cardinality(StampedBy(n, Len(subs))) <= RQMAX)
        <3>1. rq_max = RQMAX /\ \A s \in Slots : n < start[s]
            BY <2>2, <2>8 DEF List, Complete, Entries
        <3>2. /\ IsFiniteSet(Entries(rq_max) \cup {n})
              /\ Cardinality(Entries(rq_max) \cup {n}) = rq_max + 1
            BY <2>4, <2>8, FS_AddElement
        <3>3. Entries(rq_max) \cup {n} \in SUBSET StampedBy(n, Len(subs))
            <4>1. n <= n BY <2>6
            <4>2. \A k \in Entries(rq_max) : k \in Stamps /\ n <= k
                <5>1. \A k \in Stamps : k \in Nat BY DEF Stamps, Subs
                <5>2. \A k \in Entries(rq_max) : n < k BY <3>1 DEF Entries
                <5> QED BY <2>5, <5>1, <5>2
            <4> QED BY <2>6, <4>1, <4>2
        <3>4. Cardinality(Entries(rq_max) \cup {n}) <= Cardinality(StampedBy(n, Len(subs)))
            BY <2>6, <3>3, FS_Subset
        <3> QED BY <2>2, <2>6, <3>1, <3>2, <3>4
    <2>9. Entries(rq_max) = {n \in Stamps : Cardinality(StampedBy(n, Len(subs))) <= RQMAX}
        BY <2>5, <2>7, <2>8
    <2>10. \A s \in {t \in Slots : t < rq_max} : lba[s] = subs[start[s]].lba
        BY <2>1, <2>2 DEF EntriesFit, NoneAdds, AddPcs, Fits
    <2> QED BY <2>3, <2>9, <2>10 DEF Entries
<1> QED BY <1>1, KeptHolds, PTL

\* For any number of queues, entries and repetitions: where no race touched it,
\* a logged start that is not the request's own has one of the three reasons.
THEOREM WrongStartReason == Spec => []WrongStartHasReason
<1>1. KeptInv => WrongStartHasReason
    <2> SUFFICES ASSUME KeptInv, NEW n \in Clean PROVE Reason(n)
        BY DEF WrongStartHasReason, Reason
    <2>1. overlaps = 0
        BY RequestAssumption
        DEF Clean, KeptInv, NearInv, InsideInv, TypeOK, ListTypes, RequestAssumption
    <2> QED BY <2>1 DEF Clean, KeptInv, Kept, Reasoned
<1> QED BY <1>1, KeptHolds, PTL
=============================================================================
