-------------------------- MODULE SysThreadProofs ---------------------------
(***************************************************************************)
(* Theorems about SysThread for any capacity, staging buffer, margins and  *)
(* lines.  The staging buffer's length is bounded because every pass       *)
(* starts with len = 0 and every copy is tested against what is left; the  *)
(* text is complete because base, the place the text starts at, is always *)
(* 0 and what was made and not written stays equal to what is staged.      *)
(***************************************************************************)
EXTENDS SysThread, SequenceTheorems, TLAPS

\* What SysAssumption says of numbers, without its sets of constants.
LEMMA Numbers ==
    /\ AIOMAX \in Nat /\ AIOMAX > 0 /\ MEMMAX \in Nat
    /\ MaxCalls \in Nat /\ MaxSwitch \in Nat
    /\ \A a \in Arrays : Margin[a] \in Nat /\ Margin[a] <= MEMMAX
BY SysAssumption, SMT DEF SysAssumption

\* A line is no longer than a Nat, and one with a width is a record's.
LEMMA WidthIsNat ==
    ASSUME NEW a \in Arrays, NEW n \in Records \cup {NoRecord}
    PROVE  Width(a, n) \in Nat /\ (Width(a, n) > 0 => n \in Records)
BY SysAssumption, SMT DEF SysAssumption, Width, Records, NoRecord

\* The other half of print_sys_result is one of its two.
LEMMA OtherIsArray == \A a \in Arrays : Other(a) \in Arrays
BY DEF Other, Arrays

-----------------------------------------------------------------------------
(* Types.                                                                  *)

\* The initial state has its types.
LEMMA InitType == Init => TypeOK
<1> SUFFICES ASSUME Init PROVE TypeOK OBVIOUS
<1>1. slots \in [Arrays -> [0 .. AIOMAX - 1 -> Records \cup {NoRecord}]]
    BY Zenon DEF Init
<1>2. size \in [Arrays -> 0..AIOMAX] /\ bef \in [Arrays -> 0..AIOMAX]
      /\ calls \in [Arrays -> 0..MaxCalls] /\ cnt \in [Arrays -> {-1, 0, 1}]
    BY Numbers, SMT DEF Init
<1>3. flag \in [Arrays -> BOOLEAN] BY Zenon DEF Init
<1>4. line \in Records \cup {NoRecord} BY Zenon DEF Init
<1>5. <<>> \in Seq(Records) OBVIOUS
<1>6. temp \in Seq(Records) /\ owed \in Seq(Records) BY <1>5, Zenon DEF Init
<1>7. seen \in 0..AIOMAX /\ i \in 0..AIOMAX /\ nswitch \in 0..MaxSwitch
      /\ len \in Nat /\ base \in Nat
    BY Numbers, SMT DEF Init
<1>8. on \in BOOLEAN /\ short \in BOOLEAN BY Zenon DEF Init
<1>9. pc = "poll" /\ arr \in Arrays BY DEF Init, Arrays
<1> QED BY <1>1, <1>2, <1>3, <1>4, <1>6, <1>7, <1>8, <1>9 DEF TypeOK

\* What aio_file_write leaves to be written are lines.
LEMMA WriteOutType ==
    ASSUME TypeOK, WriteOut
    PROVE  owed' \in Seq(Records) /\ short' \in BOOLEAN
<1>1. PICK k \in 0 .. Len(Text) :
        /\ short' = (short \/ k < Len(Text))
        /\ owed' = IF short' THEN <<>>
                   ELSE IF SubSeq(owed, 1, k) = Text THEN SubSeq(owed, k + 1, Len(owed))
                   ELSE owed
    BY DEF WriteOut
<1>2. owed \in Seq(Records) BY DEF TypeOK
<1>3. Text \in Seq(Records) BY DEF TypeOK, Text
<1>4. Len(Text) \in Nat /\ Len(owed) \in Nat BY <1>2, <1>3, LenProperties
<1>5. k \in Nat BY <1>4, SMT
<1>6. SubSeq(owed, k + 1, Len(owed)) \in Seq(Records)
    BY <1>2, <1>4, <1>5, SMT
<1>7. <<>> \in Seq(Records) OBVIOUS
<1>8. owed' \in Seq(Records) BY <1>1, <1>2, <1>6, <1>7, Zenon
<1>9. short' \in BOOLEAN BY <1>1, Zenon DEF TypeOK
<1> QED BY <1>8, <1>9

\* Every step keeps the types.
LEMMA NextType == TypeOK /\ [Next]_vars => TypeOK'
<1> SUFFICES ASSUME TypeOK, [Next]_vars PROVE TypeOK' OBVIOUS
<1> USE DEF hookVars, stageVars, histVars, thrVars
<1>1. CASE Switch BY <1>1, Numbers, SMT DEF Switch, TypeOK
<1>2. ASSUME NEW a \in Arrays, NoteStop(a) PROVE TypeOK'
    BY <1>2, SMT DEF NoteStop, TypeOK
<1>3. ASSUME NEW a \in Arrays, Hook(a) PROVE TypeOK'
    <2> DEFINE at == IF flag[a] THEN 0 ELSE size[a]
    <2>1. at \in 0..AIOMAX BY Numbers, SMT DEF TypeOK
    <2>2. calls[a] + 1 \in Records /\ calls[a] + 1 \in 0..MaxCalls
        BY <1>3, Numbers, SMT DEF Hook, TypeOK, Records
    <2>3. calls' \in [Arrays -> 0..MaxCalls] BY <1>3, <2>2, SMT DEF Hook, TypeOK
    <2>4. flag' \in [Arrays -> BOOLEAN] BY <1>3, SMT DEF Hook, TypeOK
    <2>5. size' \in [Arrays -> 0..AIOMAX]
        <3>1. PICK v \in {at, at + 1} : v <= AIOMAX /\ size' = [size EXCEPT ![a] = v]
            <4>1. CASE at < AIOMAX BY <1>3, <2>1, <4>1, Numbers, SMT DEF Hook
            <4>2. CASE ~(at < AIOMAX) BY <1>3, <2>1, <4>2, Numbers, SMT DEF Hook
            <4> QED BY <4>1, <4>2
        <3>2. v \in 0..AIOMAX BY <2>1, <3>1, Numbers, SMT
        <3> QED BY <3>1, <3>2, SMT DEF TypeOK
    <2>6. slots' \in [Arrays -> [0 .. AIOMAX - 1 -> Records \cup {NoRecord}]]
        <3>1. CASE at < AIOMAX
            <4>1. slots' = [slots EXCEPT ![a][at] = calls[a] + 1]
                BY <1>3, <3>1 DEF Hook
            <4>2. at \in 0 .. AIOMAX - 1 BY <2>1, <3>1, Numbers, SMT
            <4> HIDE DEF at
            <4> QED BY <4>1, <4>2, <2>2, SMT DEF TypeOK
        <3>2. CASE ~(at < AIOMAX)
            BY <1>3, <3>2 DEF Hook, TypeOK
        <3> QED BY <3>1, <3>2
    <2> QED BY <1>3, <2>3, <2>4, <2>5, <2>6, SMT DEF Hook, TypeOK
<1>4. CASE Poll BY <1>4, SMT DEF Poll, TypeOK
<1>5. CASE NothingLeft
    BY <1>5, Numbers, OtherIsArray, SMT DEF NothingLeft, Turn, TypeOK
<1>6. CASE OpenFile
    <2>1. cnt' \in [Arrays -> {-1, 0, 1}]
        <3>1. PICK v \in {cnt[arr], -1} : cnt' = [cnt EXCEPT ![arr] = v]
            BY <1>6, Zenon DEF OpenFile
        <3>2. arr \in Arrays /\ cnt \in [Arrays -> {-1, 0, 1}] BY DEF TypeOK
        <3>3. v \in {-1, 0, 1} BY <3>1, <3>2, Zenon
        <3> QED BY <3>1, <3>2, <3>3, SMT
    <2>2. owed' \in Seq(Records) /\ temp' \in Seq(Records) BY <1>6, SMT DEF OpenFile
    <2>3. base' \in Nat /\ i' \in 0..AIOMAX BY <1>6, Numbers, SMT DEF OpenFile, TypeOK
    <2>4. short' \in BOOLEAN BY <1>6, Zenon DEF OpenFile
    <2>5. UNCHANGED <<on, nswitch, slots, size, flag, calls, line, len, arr, seen, bef>>
        BY <1>6 DEF OpenFile
    <2>6. pc' = "scan" BY <1>6 DEF OpenFile
    <2> QED BY <2>1, <2>2, <2>3, <2>4, <2>5, <2>6, SMT DEF TypeOK
<1>7. CASE OpenFails BY <1>7, Numbers, SMT DEF OpenFails, TypeOK
<1>8. CASE ArmTimer
    BY <1>8, Numbers, OtherIsArray, SMT DEF ArmTimer, Turn, TypeOK
<1>9. CASE TimerRuns
    BY <1>9, Numbers, OtherIsArray, SMT DEF TimerRuns, Turn, TypeOK
<1>10. CASE TimerExpires
    BY <1>10, Numbers, OtherIsArray, SMT DEF TimerExpires, Turn, TypeOK
<1>11. CASE MakeLine
    <2>1. i \in 0 .. AIOMAX - 1 /\ i < AIOMAX
        BY <1>11, Numbers, SMT DEF MakeLine, TypeOK
    <2>2. line' \in Records \cup {NoRecord}
        <3>1. line' = slots[arr][i] BY <1>11 DEF MakeLine
        <3>2. slots[arr] \in [0 .. AIOMAX - 1 -> Records \cup {NoRecord}]
            BY Zenon DEF TypeOK
        <3> QED BY <2>1, <3>1, <3>2, Zenon
    <2>3. arr \in Arrays BY DEF TypeOK
    <2>4. Width(arr, line') > 0 => line' \in Records BY <2>2, <2>3, WidthIsNat
    <2>5. owed' \in Seq(Records) BY <1>11, <2>4, SMT DEF MakeLine, TypeOK
    <2> QED BY <1>11, <2>1, <2>2, <2>5, SMT DEF MakeLine, TypeOK
<1>12. CASE FlushStage
    BY <1>12, WriteOutType, SMT DEF FlushStage, TypeOK
<1>13. CASE Stage
    <2>1. arr \in Arrays /\ line \in Records \cup {NoRecord} BY DEF TypeOK
    <2>2. Width(arr, line) \in Nat /\ (Width(arr, line) > 0 => line \in Records)
        BY <2>1, WidthIsNat
    <2>3. temp' \in Seq(Records) BY <1>13, <2>2, SMT DEF Stage, TypeOK
    <2>4. len' \in Nat BY <1>13, <2>2, SMT DEF Stage, TypeOK
    <2>5. i' \in 0..AIOMAX BY <1>13, Numbers, SMT DEF Stage, TypeOK
    <2>6. seen' \in 0..AIOMAX BY <1>13, <2>1, SMT DEF Stage, TypeOK
    <2> QED BY <1>13, <2>3, <2>4, <2>5, <2>6, SMT DEF Stage, TypeOK
<1>14. CASE Finish
    <2>1. owed' \in Seq(Records) /\ short' \in BOOLEAN
        BY <1>14, WriteOutType DEF Finish
    <2> QED BY <1>14, <2>1, Numbers, OtherIsArray, SMT DEF Finish, Turn, TypeOK
<1>15. CASE UNCHANGED vars BY <1>15, SMT DEF vars, TypeOK
<1> QED
    BY <1>1, <1>2, <1>3, <1>4, <1>5, <1>6, <1>7, <1>8, <1>9, <1>10, <1>11, <1>12,
       <1>13, <1>14, <1>15 DEF Next, ThreadStep, Advance

\* Type correctness: no index leaves an array, whatever restarts do to the
\* sizes while the thread copies (print_sys_result).
THEOREM SysTypeCorrect == Spec => []TypeOK
BY InitType, NextType, PTL DEF Spec
-----------------------------------------------------------------------------
(* The staging buffer.                                                     *)

\* Between passes the buffer is empty; inside one, what was copied leaves the
\* margin of the array at work.
StageInv ==
    /\ base = 0
    /\ pc \notin {"scan", "fit"} => len = 0 /\ temp = <<>>
    /\ pc = "scan" => len + Margin[arr] <= MEMMAX

\* Every step keeps the staging buffer within its bounds.
LEMMA NextStage == TypeOK /\ StageInv /\ [Next]_vars => StageInv'
<1> SUFFICES ASSUME TypeOK, StageInv, [Next]_vars PROVE StageInv' OBVIOUS
<1> USE DEF hookVars, stageVars, histVars, thrVars
<1>t. arr \in Arrays /\ len \in Nat /\ line \in Records \cup {NoRecord} BY DEF TypeOK
<1>m. Margin[arr] \in Nat /\ Margin[arr] <= MEMMAX /\ MEMMAX \in Nat BY <1>t, Numbers
<1>1. CASE Switch BY <1>1 DEF Switch, StageInv
<1>2. ASSUME NEW a \in Arrays, NoteStop(a) PROVE StageInv' BY <1>2 DEF NoteStop, StageInv
<1>3. ASSUME NEW a \in Arrays, Hook(a) PROVE StageInv' BY <1>3 DEF Hook, StageInv
<1>4. CASE Poll BY <1>4 DEF Poll, StageInv
<1>5. CASE NothingLeft BY <1>5 DEF NothingLeft, Turn, StageInv
<1>6. CASE OpenFile BY <1>6, <1>m, SMT DEF OpenFile, StageInv
<1>7. CASE OpenFails BY <1>7 DEF OpenFails, StageInv
<1>8. CASE ArmTimer BY <1>8 DEF ArmTimer, Turn, StageInv
<1>9. CASE TimerRuns BY <1>9 DEF TimerRuns, Turn, StageInv
<1>10. CASE TimerExpires BY <1>10 DEF TimerExpires, Turn, StageInv
<1>11. CASE MakeLine BY <1>11 DEF MakeLine, StageInv
<1>12. CASE FlushStage BY <1>12 DEF FlushStage, StageInv
<1>13. CASE Stage
    <2>1. Width(arr, line) \in Nat BY <1>t, WidthIsNat
    <2>2. len' + Margin[arr] <= MEMMAX
        BY <1>13, <1>t, <1>m, <2>1, SMT DEF Stage, TooLong
    <2> QED BY <1>13, <2>2 DEF Stage, StageInv
<1>14. CASE Finish BY <1>14 DEF Finish, Turn, StageInv
<1>15. CASE UNCHANGED vars BY <1>15 DEF vars, StageInv
<1> QED
    BY <1>1, <1>2, <1>3, <1>4, <1>5, <1>6, <1>7, <1>8, <1>9, <1>10, <1>11, <1>12,
       <1>13, <1>14, <1>15 DEF Next, ThreadStep, Advance

\* The staging buffer of the code never holds more than its margin allows.
LEMMA StageInvariant == Spec => []StageInv
<1>1. Init => StageInv BY DEF Init, StageInv
<1> QED BY <1>1, NextStage, SysTypeCorrect, PTL DEF Spec

\* The copy loops of print_sys_result store at most the final NUL past the
\* staging buffer, and not even that where a margin is left, whatever the
\* lines, the restarts and the writes that fall short.
THEOREM OverrunBounded == Spec => []OverrunIsTheNul
<1>1. TypeOK /\ StageInv => OverrunIsTheNul
    <2> SUFFICES ASSUME TypeOK, StageInv, pc = "scan"
                 PROVE  /\ len + 1 <= MEMMAX + 1
                        /\ Margin[arr] > 0 => len + 1 <= MEMMAX
        BY DEF OverrunIsTheNul
    <2>1. arr \in Arrays /\ len \in Nat BY DEF TypeOK
    <2>2. len + Margin[arr] <= MEMMAX BY DEF StageInv
    <2> QED BY <2>1, <2>2, Numbers, SMT
<1> QED BY <1>1, StageInvariant, SysTypeCorrect, PTL

-----------------------------------------------------------------------------
(* The text.                                                               *)

\* With base = 0 the text is all that was copied.
LEMMA TextIsTemp == StageInv => Text = temp
BY DEF StageInv, Text

\* What is written is taken off what is owed: with s staged and t at hand,
\* t stays.
LEMMA TakenOff ==
    ASSUME NEW S, NEW s \in Seq(S), NEW t \in Seq(S)
    PROVE  /\ SubSeq(s \o t, 1, Len(s)) = s
           /\ SubSeq(s \o t, Len(s) + 1, Len(s \o t)) = t
<1>1. Len(s) \in Nat /\ Len(t) \in Nat BY LenProperties
<1>2. s \o t \in Seq(S) /\ Len(s \o t) = Len(s) + Len(t) BY ConcatProperties
<1>3. SubSeq(s \o t, 1, Len(s)) = SubSeq(s, 1, Len(s))
    BY <1>1, SubSeqOfConcat1, SMT
<1>4. SubSeq(s, 1, Len(s)) = s BY SubSeqFull
<1>5. SubSeq(s \o t, Len(s) + 1, Len(s \o t)) = SubSeq(t, 1, Len(t))
    BY <1>1, <1>2, SMT
<1>6. SubSeq(t, 1, Len(t)) = t BY SubSeqFull
<1> QED BY <1>3, <1>4, <1>5, <1>6

\* The line at hand, as a sequence.
AtHand == IF pc = "fit" /\ Width(arr, line) > 0 THEN <<line>> ELSE <<>>

\* The line at hand is a line.
LEMMA AtHandType == TypeOK => AtHand \in Seq(Records)
<1> SUFFICES ASSUME TypeOK PROVE AtHand \in Seq(Records) OBVIOUS
<1>1. arr \in Arrays /\ line \in Records \cup {NoRecord} BY DEF TypeOK
<1>2. Width(arr, line) > 0 => line \in Records BY <1>1, WidthIsNat
<1> QED BY <1>2 DEF AtHand

\* A whole write leaves the line at hand owed; one that falls short, nothing.
LEMMA WriteOutOwed ==
    ASSUME TypeOK, StageInv, StagedIsWhatIsOwed, WriteOut
    PROVE  ~short' => owed' = AtHand
<1> SUFFICES ASSUME ~short' PROVE owed' = AtHand OBVIOUS
<1>1. PICK k \in 0 .. Len(Text) :
        /\ short' = (short \/ k < Len(Text))
        /\ owed' = IF short' THEN <<>>
                   ELSE IF SubSeq(owed, 1, k) = Text THEN SubSeq(owed, k + 1, Len(owed))
                   ELSE owed
    BY DEF WriteOut
<1>2. Text = temp BY TextIsTemp
<1>3. temp \in Seq(Records) BY DEF TypeOK
<1>4. Len(Text) \in Nat BY <1>2, <1>3, LenProperties
<1>5. ~short /\ ~(k < Len(Text)) BY <1>1
<1>6. k = Len(Text) BY <1>4, <1>5, SMT
<1>7. owed = temp \o AtHand BY <1>2, <1>5 DEF StagedIsWhatIsOwed, AtHand
<1>8. SubSeq(owed, 1, k) = Text /\ SubSeq(owed, k + 1, Len(owed)) = AtHand
    BY <1>2, <1>3, <1>6, <1>7, AtHandType, TakenOff
<1> QED BY <1>1, <1>8

\* Every step keeps what is staged equal to what is owed.
LEMMA NextOwed ==
    TypeOK /\ StageInv /\ StagedIsWhatIsOwed /\ [Next]_vars => StagedIsWhatIsOwed'
<1> SUFFICES ASSUME TypeOK, StageInv, StagedIsWhatIsOwed, [Next]_vars, ~short'
             PROVE  owed' = Text' \o AtHand'
    BY DEF StagedIsWhatIsOwed, AtHand
<1> USE DEF hookVars, stageVars, histVars, thrVars
<1>t. arr \in Arrays /\ line \in Records \cup {NoRecord} /\ temp \in Seq(Records)
    BY DEF TypeOK
<1>o. ~short => owed = temp \o AtHand BY TextIsTemp DEF StagedIsWhatIsOwed, AtHand
<1>b. StageInv' BY NextStage
<1>x. Text' = temp' BY <1>b DEF StageInv, Text
<1>e. <<>> \in Seq(Records) /\ <<>> \o <<>> = <<>> OBVIOUS
\* A step that changes neither the text nor the line at hand.
<1>s. ASSUME UNCHANGED <<temp, owed, short, AtHand>> PROVE owed' = temp' \o AtHand'
    BY <1>s, <1>o
\* A step between two passes, where there is no line at hand.
<1>i. ASSUME temp' = <<>>, pc' # "fit", pc \notin {"scan", "fit"},
             UNCHANGED <<owed, short>>
      PROVE  owed' = temp' \o AtHand'
    <2>1. temp = <<>> /\ AtHand = <<>> BY <1>i DEF StageInv, AtHand
    <2>2. owed = <<>> BY <1>i, <1>o, <1>e, <2>1
    <2>3. AtHand' = <<>> BY <1>i DEF AtHand
    <2> QED BY <1>i, <1>e, <2>2, <2>3
<1>1. CASE Switch BY <1>1, <1>s, <1>x DEF Switch, AtHand
<1>2. ASSUME NEW a \in Arrays, NoteStop(a) PROVE owed' = Text' \o AtHand'
    BY <1>2, <1>s, <1>x DEF NoteStop, AtHand
<1>3. ASSUME NEW a \in Arrays, Hook(a) PROVE owed' = Text' \o AtHand'
    BY <1>3, <1>s, <1>x DEF Hook, AtHand
<1>4. CASE Poll BY <1>4, <1>s, <1>x DEF Poll, AtHand
<1>5. CASE NothingLeft BY <1>5, <1>i, <1>x DEF NothingLeft, Turn
<1>6. CASE OpenFile
    <2>1. temp' = <<>> /\ owed' = <<>> /\ AtHand' = <<>> BY <1>6 DEF OpenFile, AtHand
    <2> QED BY <1>x, <1>e, <2>1
<1>7. CASE OpenFails BY <1>7, <1>s, <1>x DEF OpenFails, AtHand
<1>8. CASE ArmTimer BY <1>8, <1>i, <1>x DEF ArmTimer, Turn
<1>9. CASE TimerRuns BY <1>9, <1>i, <1>x DEF TimerRuns, Turn
<1>10. CASE TimerExpires BY <1>10, <1>i, <1>x DEF TimerExpires, Turn
<1>11. CASE MakeLine
    <2>1. ~short /\ temp' = temp /\ arr' = arr /\ pc' = "fit" BY <1>11 DEF MakeLine
    <2>2. AtHand = <<>> BY <1>11 DEF MakeLine, AtHand
    <2>3. owed = temp BY <1>o, <2>1, <2>2, <1>t, ConcatSimplifications
    <2>4. TypeOK' BY NextType
    <2>5. line' \in Records \cup {NoRecord} BY <2>4 DEF TypeOK
    <2>6. CASE Width(arr, line') > 0
        <3>1. owed' = Append(temp, line') BY <1>11, <2>1, <2>3, <2>6 DEF MakeLine
        <3>2. AtHand' = <<line'>> BY <2>1, <2>6 DEF AtHand
        <3>3. line' \in Records BY <2>5, <2>6, <1>t, WidthIsNat
        <3>4. Append(temp, line') = temp \o <<line'>> BY <1>t, <3>3, AppendIsConcat
        <3> QED BY <1>x, <2>1, <3>1, <3>2, <3>4
    <2>7. CASE ~(Width(arr, line') > 0)
        <3>1. owed' = temp BY <1>11, <2>3, <2>7 DEF MakeLine
        <3>2. AtHand' = <<>> BY <2>1, <2>7 DEF AtHand
        <3> QED BY <1>x, <2>1, <3>1, <3>2, <1>t, ConcatSimplifications
    <2> QED BY <2>6, <2>7
<1>12. CASE FlushStage
    <2>1. owed' = AtHand BY <1>12, WriteOutOwed DEF FlushStage
    <2>2. temp' = <<>> /\ AtHand' = AtHand BY <1>12 DEF FlushStage, AtHand
    <2>3. AtHand \in Seq(Records) BY AtHandType
    <2> QED BY <1>x, <2>1, <2>2, <2>3, ConcatSimplifications
<1>13. CASE Stage
    <2>1. ~short /\ owed' = owed /\ pc = "fit" /\ pc' = "scan" BY <1>13 DEF Stage
    <2>2. AtHand' = <<>> BY <2>1 DEF AtHand
    <2>3. owed = temp'
        <3>1. CASE Width(arr, line) > 0
            <4>1. line \in Records BY <1>t, <3>1, WidthIsNat
            <4>2. Append(temp, line) = temp \o <<line>> BY <1>t, <4>1, AppendIsConcat
            <4> QED BY <1>13, <1>o, <2>1, <3>1, <4>2 DEF Stage, AtHand
        <3>2. CASE ~(Width(arr, line) > 0)
            <4>1. owed = temp \o <<>> BY <1>o, <2>1, <3>2 DEF AtHand
            <4> QED BY <1>13, <1>t, <3>2, <4>1, ConcatSimplifications DEF Stage
        <3> QED BY <3>1, <3>2
    <2>4. temp' \in Seq(Records) BY NextType DEF TypeOK
    <2> QED BY <1>x, <2>1, <2>2, <2>3, <2>4, ConcatSimplifications
<1>14. CASE Finish
    <2>1. owed' = AtHand BY <1>14, WriteOutOwed DEF Finish
    <2>2. AtHand = <<>> BY <1>14 DEF Finish, AtHand
    <2>3. temp' = <<>> /\ AtHand' = <<>> BY <1>14 DEF Finish, Turn, AtHand
    <2> QED BY <1>x, <1>e, <2>1, <2>2, <2>3
<1>15. CASE UNCHANGED vars BY <1>15, <1>s, <1>x DEF vars, AtHand
<1> QED
    BY <1>1, <1>2, <1>3, <1>4, <1>5, <1>6, <1>7, <1>8, <1>9, <1>10, <1>11, <1>12,
       <1>13, <1>14, <1>15 DEF Next, ThreadStep, Advance

\* The text of both files is complete unless a write fell short: what
\* print_sys_result makes of a record is staged or written, in order, and no
\* leftover of the reads hides what the writes stage.
THEOREM StagedIsOwed == Spec => []StagedIsWhatIsOwed
<1>1. Init => StagedIsWhatIsOwed BY DEF Init, StagedIsWhatIsOwed, Text
<1> QED BY <1>1, NextOwed, StageInvariant, SysTypeCorrect, PTL DEF Spec
=============================================================================
