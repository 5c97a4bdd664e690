--------------------------- MODULE FileInfoProofs ---------------------------
(* What holds of the file information table for every number of tasks,     *)
(* files, entries and calls, proved from FileAssumption alone.             *)
EXTENDS FileInfo, TLAPS

\* What FileAssumption says of numbers.
LEMMA Numbers ==
    /\ AIOFILE \in Nat /\ AIOFILE > 0 /\ Fresh \in Nat
    /\ MaxAdds \in Nat /\ MaxOverlaps \in Nat /\ MaxReads \in Nat
BY FileAssumption

\* The file of a call in progress is a file, whatever it is compared with.
LEMMA FileIsFile ==
    ASSUME AdderTypes, NEW a \in Adders, pc[a] # "idle"
    PROVE  /\ mine[a] \in 1..NAdds /\ mine[a] \in Owners \ {None}
           /\ File(a) \in Files /\ File(a).ino \in Inos /\ File(a).name \in Names
<1>1. NAdds \in 0..MaxAdds /\ mine[a] \in 0..NAdds /\ mine[a] > 0
  BY DEF AdderTypes
<1>2. NAdds \in Nat
  BY <1>1, Numbers
<1>3. mine[a] \in 1..NAdds
  BY <1>1, <1>2
<1>4. mine[a] \in Owners \ {None}
  BY <1>1, <1>2, Numbers DEF Owners, None
<1>5. added[mine[a]] \in Files
  BY <1>3 DEF AdderTypes, NAdds
<1> QED BY <1>3, <1>4, <1>5 DEF Inos, Names, File

\* A call goes from place to place with its index where the place wants it.
Places(a) ==
    /\ pc' \in [Adders -> AdderPcs] /\ i' \in [Adders -> Nat]
    /\ pc[a] # "idle" /\ pc'[a] # "idle"
    /\ \A b \in Adders \ {a} : pc'[b] = pc[b] /\ i'[b] = i[b]
    /\ pc'[a] \in {"scan", "flag"} => i'[a] <= AIOFILE
    /\ pc'[a] \in {"tid", "ino", "name", "size"} => past' \/ i'[a] \in Entries
    /\ flag' \in [Adders -> BOOLEAN] /\ evicted' \in BOOLEAN
    /\ past' \in BOOLEAN /\ UNCHANGED <<mine, added, overlaps>>

LEMMA PlaceTypes ==
    ASSUME AdderTypes, ~past, NEW a \in Adders, Places(a)
    PROVE  AdderTypes'
<1>1. \A b \in Adders : pc'[b] # "idle" => mine'[b] > 0
  BY DEF AdderTypes, Places
<1>2. \A b \in Adders : pc'[b] \in {"idle", "scan", "flag"} => i'[b] <= AIOFILE
  BY DEF AdderTypes, Places
<1>3. \A b \in Adders : pc'[b] \in {"tid", "ino", "name", "size"} => past' \/ i'[b] \in Entries
  BY DEF AdderTypes, Places
<1>4. NAdds' = NAdds
  BY DEF NAdds, Places
<1> QED BY <1>1, <1>2, <1>3, <1>4 DEF AdderTypes, Places

LEMMA AdderStepTypes ==
    ASSUME TypeOK, ~past, NEW a \in Adders, AdderStep(a)
    PROVE  AdderTypes'
<1> USE Numbers DEF Goto, AdderPcs, Entries
<1>0. /\ AdderTypes /\ size \in 0..AIOFILE /\ last_finfo \in Nat
      /\ pc \in [Adders -> AdderPcs] /\ i \in [Adders -> Nat]
      /\ flag \in [Adders -> BOOLEAN] /\ evicted \in BOOLEAN /\ past \in BOOLEAN
      /\ pc[a] \in {"scan", "flag"} => i[a] <= AIOFILE
      /\ pc[a] \in {"tid", "ino", "name", "size"} => i[a] \in Entries
  BY DEF TypeOK, TableTypes, AdderTypes
<1>1. ASSUME Scan(a) \/ Flag(a) \/ Full(a) \/ NextVictim(a) \/ WrapVictim(a)
             \/ StoreUid(a) \/ StoreTid(a) \/ StoreIno(a) \/ StoreName(a)
      PROVE  AdderTypes'
  <2> SUFFICES Places(a)
    BY <1>0, PlaceTypes
  <2> USE <1>0 DEF Places
  <2>1. CASE Scan(a)
    BY <2>1 DEF Scan
  <2>2. CASE Flag(a)
    <3>1. IsNew(a) \in BOOLEAN
      BY DEF IsNew
    <3> QED BY <2>2, <3>1 DEF Flag
  <2>3. CASE Full(a)
    BY <2>3 DEF Full
  <2>4. CASE NextVictim(a)
    BY <2>4 DEF NextVictim
  <2>5. CASE WrapVictim(a)
    BY <2>5 DEF WrapVictim
  <2>6. CASE StoreUid(a)
    BY <2>6 DEF StoreUid
  <2>7. CASE StoreTid(a)
    BY <2>7 DEF StoreTid
  <2>8. CASE StoreIno(a) \/ StoreName(a)
    BY <2>8 DEF StoreIno, StoreName
  <2> QED BY <1>1, <2>1, <2>2, <2>3, <2>4, <2>5, <2>6, <2>7, <2>8
<1>2. CASE SetSize(a)
  <2>1. NAdds' = NAdds /\ NAdds \in Nat
    BY <1>2, <1>0 DEF SetSize, NAdds, AdderTypes
  <2> QED BY <1>2, <1>0, <2>1 DEF SetSize, Return, AdderTypes, None
<1> QED BY <1>1, <1>2 DEF AdderStep

LEMMA AddTypes ==
    ASSUME TypeOK, NEW a \in Adders, NEW f \in Files, Add(a, f)
    PROVE  AdderTypes'
<1> USE Numbers DEF Add, Goto
<1>1. /\ added' \in Seq(Files) /\ NAdds' = NAdds + 1
      /\ NAdds \in Nat /\ NAdds' \in 0..MaxAdds
  BY DEF TypeOK, AdderTypes, NAdds
<1>2. mine' \in [Adders -> 0..NAdds'] /\ \A b \in Adders : pc'[b] # "idle" => mine'[b] > 0
  BY <1>1 DEF TypeOK, AdderTypes
<1>3. overlaps' \in 0..MaxOverlaps
  BY DEF TypeOK, AdderTypes
<1>4. pc' \in [Adders -> AdderPcs] /\ UNCHANGED <<i, flag, past, evicted>>
  BY DEF TypeOK, AdderTypes, AdderPcs
<1>5. \A b \in Adders : pc'[b] \in {"idle", "scan", "flag"} => i'[b] <= AIOFILE
  BY DEF TypeOK, AdderTypes
<1>6. \A b \in Adders : pc'[b] \in {"tid", "ino", "name", "size"} => past' \/ i'[b] \in Entries
  BY DEF TypeOK, AdderTypes
<1> QED BY <1>1, <1>2, <1>3, <1>4, <1>5, <1>6 DEF TypeOK, AdderTypes

LEMMA TableStepTypes ==
    ASSUME TypeOK, ~past, NEW a \in Adders, AdderStep(a)
    PROVE  TableTypes'
<1> USE Numbers DEF Goto, TableTypes, TypeOK
<1>0. AdderTypes /\ pc[a] # "idle"
  BY DEF AdderStep, Scan, Flag, Full, NextVictim, WrapVictim, StoreUid, StoreTid,
         StoreIno, StoreName, SetSize
<1>1. mine[a] \in Owners /\ File(a).ino \in Inos /\ File(a).name \in Names
  BY <1>0, FileIsFile
<1>2. i[a] \in Nat
  BY DEF AdderTypes
<1>3. CASE Scan(a) \/ Flag(a) \/ Full(a)
  BY <1>3 DEF Scan, Flag, Full, tabVars
<1>4. CASE NextVictim(a)
  <2>1. last_finfo' \in Nat /\ UNCHANGED <<size, ino, name, uid, tid>>
    BY <1>2, <1>4 DEF NextVictim
  <2> QED BY <2>1
<1>5. CASE WrapVictim(a)
  BY <1>5 DEF WrapVictim
<1>6. CASE StoreUid(a)
  BY <1>1, <1>6 DEF StoreUid
<1>7. CASE StoreTid(a)
  BY <1>1, <1>7 DEF StoreTid
<1>8. CASE StoreIno(a) \/ StoreName(a)
  BY <1>1, <1>8 DEF StoreIno, StoreName
<1>9. CASE SetSize(a)
  <2>1. i[a] \in Entries
    BY <1>9 DEF SetSize, AdderTypes
  <2>2. i[a] + 1 \in 0..AIOFILE
    BY <2>1 DEF Entries
  <2>3. size' \in {size, i[a] + 1} /\ UNCHANGED <<last_finfo, ino, name, uid, tid>>
    BY <1>9 DEF SetSize
  <2> QED BY <2>2, <2>3
<1> QED BY <1>3, <1>4, <1>5, <1>6, <1>7, <1>8, <1>9 DEF AdderStep

LEMMA ReaderStepTypes ==
    ASSUME TypeOK, NEW r \in Readers, ReaderStep(r) \/ \E n \in Inos : Ask(r, n)
    PROVE  ReaderTypes'
<1> USE Numbers DEF RGoto, TypeOK, ReaderTypes, ReaderPcs, Entries
<1>1. CASE Look(r)
  <2>1. size \in 0..AIOFILE /\ ri[r] \in 0..AIOFILE /\ AIOFILE \in Nat
    BY DEF TableTypes
  <2>5. \/ rpc'[r] = "done" /\ ri'[r] = ri[r]
        \/ rpc'[r] = "uid" /\ ri'[r] = ri[r] /\ ~(ri[r] >= size)
        \/ rpc'[r] = "scan" /\ ri'[r] = ri[r] + 1 /\ ~(ri[r] >= size)
    BY <1>1 DEF Look
  <2>2. ri'[r] \in 0..AIOFILE /\ (rpc'[r] = "uid" => ri'[r] \in Entries)
    BY <2>1, <2>5
  <2>3. /\ rpc' = [rpc EXCEPT ![r] = rpc'[r]] /\ rpc'[r] \in {"scan", "uid", "done"}
        /\ ri' = [ri EXCEPT ![r] = ri'[r]]
        /\ UNCHANGED <<asked, got, nreads, rraced>>
    BY <1>1 DEF Look
  <2>4. \A q \in Readers : rpc'[q] \in {"uid", "tid"} => ri'[q] \in Entries
    BY <2>2, <2>3
  <2> QED BY <2>2, <2>3, <2>4
<1>2. CASE ReadUid(r)
  <2>1. uid[ri[r]] \in Owners
    BY <1>2 DEF ReadUid, TableTypes
  <2> QED BY <1>2, <2>1 DEF ReadUid
<1>3. CASE ReadTid(r)
  <2>1. tid[ri[r]] \in Owners
    BY <1>3 DEF ReadTid, TableTypes
  <2> QED BY <1>3, <2>1 DEF ReadTid
<1>4. CASE Logged(r)
  BY <1>4 DEF Logged, NoOwner, None, Owners
<1>5. ASSUME NEW n \in Inos, Ask(r, n) PROVE ReaderTypes'
  BY <1>5 DEF Ask
<1> QED BY <1>1, <1>2, <1>3, <1>4, <1>5 DEF ReaderStep

\* Every variable keeps its type: until an index past the table is used, the
\* loops end inside it and its size is right.
LEMMA FileTypeStep == TypeOK /\ [Next]_vars => TypeOK'
<1> SUFFICES ASSUME TypeOK, [Next]_vars PROVE TypeOK'
  OBVIOUS
<1>1. ASSUME NEW a \in Adders, AdderStep(a), ~past PROVE TypeOK'
  <2>1. ReaderTypes'
    BY <1>1 DEF AdderStep, Scan, Flag, Full, NextVictim, WrapVictim, StoreUid, StoreTid,
                StoreIno, StoreName, SetSize, rdVars, TypeOK, ReaderTypes
  <2> QED BY <1>1, <2>1, AdderStepTypes, TableStepTypes DEF TypeOK
<1>2. ASSUME NEW a \in Adders, NEW f \in Files, Add(a, f) PROVE TypeOK'
  <2>1. TableTypes' /\ ReaderTypes'
    BY <1>2 DEF Add, TypeOK, TableTypes, ReaderTypes, tabVars, rdVars, Looking
  <2> QED BY <1>2, <2>1, AddTypes DEF TypeOK
<1>3. ASSUME NEW r \in Readers, ReaderStep(r) \/ \E n \in Inos : Ask(r, n)
      PROVE  TypeOK'
  <2>1. UNCHANGED <<tabVars, addVars, added, past, overlaps, evicted>>
    BY <1>3 DEF ReaderStep, Look, ReadUid, ReadTid, Logged, Ask
  <2>2. TableTypes' /\ AdderTypes'
    BY <2>1 DEF TypeOK, TableTypes, AdderTypes, tabVars, addVars, NAdds
  <2> QED BY <1>3, <2>2, ReaderStepTypes DEF TypeOK
<1>4. CASE UNCHANGED vars
  BY <1>4 DEF vars, tabVars, addVars, rdVars, TypeOK, TableTypes, AdderTypes, ReaderTypes,
              NAdds
<1> QED BY <1>1, <1>2, <1>3, <1>4 DEF Next

LEMMA FileTypeInit == Init => TypeOK
<1>1. Init => TypeOK
  <2> SUFFICES ASSUME Init PROVE TypeOK
    OBVIOUS
  <2> USE Numbers
  <2>1. TableTypes
    <3>1. 0 \in 0..AIOFILE /\ 0 \in Owners
      BY DEF Owners
    <3>2. ino \in [0..AIOFILE -> Inos \cup {Fresh} \cup Strays]
      BY DEF Init
    <3> QED BY <3>1, <3>2 DEF Init, TableTypes, None
  <2>2. AdderTypes
    <3>1. added \in Seq(Files) /\ NAdds = 0
      <4>1. added = <<>>
        BY DEF Init
      <4> QED BY <4>1 DEF NAdds
    <3>2. mine \in [Adders -> 0..NAdds]
      BY <3>1 DEF Init, None
    <3>3. /\ pc \in [Adders -> AdderPcs] /\ \A a \in Adders : pc[a] = "idle"
          /\ i \in [Adders -> Nat] /\ \A a \in Adders : i[a] <= AIOFILE
          /\ flag \in [Adders -> BOOLEAN]
      BY DEF Init, AdderPcs
    <3>4. past \in BOOLEAN /\ evicted \in BOOLEAN
      BY DEF Init
    <3>5. overlaps \in 0..MaxOverlaps
      BY DEF Init
    <3> QED BY <3>1, <3>2, <3>3, <3>4, <3>5 DEF AdderTypes
  <2>3. ReaderTypes
    <3>1. rpc \in [Readers -> ReaderPcs] /\ \A r \in Readers : rpc[r] = "idle"
      BY DEF Init, ReaderPcs
    <3>2. asked \in [Readers -> Inos \cup {Fresh}] /\ ri \in [Readers -> 0..AIOFILE]
      BY DEF Init
    <3>3. got \in [Readers -> [uid : Owners, tid : Owners]]
      BY DEF Init, NoOwner, Owners, None
    <3>4. nreads \in 0..MaxReads /\ rraced \subseteq Readers
      BY DEF Init
    <3> QED BY <3>1, <3>2, <3>3, <3>4 DEF ReaderTypes
  <2> QED BY <2>1, <2>2, <2>3 DEF TypeOK
<1> QED BY <1>1

\* Types; among them that the table never counts more entries than it has.
THEOREM FileTypeCorrect == Spec => []TypeOK
BY FileTypeInit, FileTypeStep, PTL DEF Spec

-----------------------------------------------------------------------------
(* Calls that do not overlap.  The index a call carries is where its place  *)
(* wants it, and its own entry holds what it has stored so far.             *)
IndexOf(a) ==
    /\ pc[a] = "idle" => i[a] = 0
    /\ pc[a] \in {"scan", "flag", "full"} => i[a] <= size
    /\ pc[a] \in {"next", "wrap"} => i[a] < AIOFILE
    /\ pc[a] = "uid" => i[a] < AIOFILE \/ File(a).ino = ino[AIOFILE]
    /\ pc[a] \notin {"idle", "scan", "flag"} /\ flag[a] => i[a] <= size

StoredBy(a) ==
    /\ pc[a] \in {"tid", "ino", "name", "size"} => uid[i[a]] = mine[a]
    /\ pc[a] \in {"ino", "name", "size"} => tid[i[a]] = mine[a]
    /\ pc[a] \in {"name", "size"} => ino[i[a]] = File(a).ino
    /\ pc[a] = "size" => name[i[a]] = File(a).name

Untouched(e) == \A a \in Inside : i[a] # e \/ pc[a] \in {"scan", "flag", "full"}

Alone ==
    /\ \A a, b \in Inside : a = b
    /\ \A a \in Adders : IndexOf(a)
    /\ ~past => \A a \in Adders : StoredBy(a)
    /\ (\A a \in Adders : pc[a] # "wrap") => last_finfo < AIOFILE
    /\ past => \E a \in Inside : File(a).ino = ino[AIOFILE]
    /\ \A e \in Entries : e < size /\ Untouched(e) => Whole(e)

FileInv ==
    /\ TypeOK
    /\ \A e \in Entries : uid[e] <= NAdds
    /\ overlaps = 0 => Alone

\* The same for task a, while no other is inside.
Sole(a)    == \A b \in Adders \ {a} : pc[b] = "idle" /\ i[b] = 0
SoleWas(a) == \A b \in Adders \ {a} : UNCHANGED <<pc[b], i[b]>>
AloneAt(a) ==
    /\ IndexOf(a)
    /\ ~past => StoredBy(a)
    /\ pc[a] # "wrap" => last_finfo < AIOFILE
    /\ past => pc[a] # "idle" /\ File(a).ino = ino[AIOFILE]
    /\ \A e \in Entries :
          e < size /\ (pc[a] \in {"idle", "scan", "flag", "full"} \/ i[a] # e) => Whole(e)

SomeSole == \E a \in Adders : Sole(a) /\ AloneAt(a)

LEMMA SoleIsAlone == SomeSole => Alone
<1> SUFFICES ASSUME NEW a \in Adders, Sole(a), AloneAt(a) PROVE Alone
  BY DEF SomeSole
<1>1. \A b \in Adders \ {a} : IndexOf(b) /\ StoredBy(b)
  BY DEF IndexOf, StoredBy, Sole
<1>2. \A e \in Entries : Untouched(e) => pc[a] \in {"idle", "scan", "flag", "full"} \/ i[a] # e
  BY DEF Untouched, Inside
<1>3. \A b \in Inside : b = a
  BY DEF Inside, Sole
<1> QED BY <1>1, <1>2, <1>3 DEF Alone, AloneAt, Inside

LEMMA AloneIsSole ==
    ASSUME Alone, NEW a \in Adders, pc[a] # "idle" \/ \A b \in Adders : pc[b] = "idle"
    PROVE  Sole(a) /\ AloneAt(a)
<1>1. \A b \in Adders \ {a} : pc[b] = "idle"
  BY DEF Alone, Inside
<1>2. \A e \in Entries :
         pc[a] \in {"idle", "scan", "flag", "full"} \/ i[a] # e => Untouched(e)
  BY <1>1 DEF Untouched, Inside
<1>3. Sole(a)
  BY <1>1 DEF Alone, IndexOf, Sole
<1>4. past => pc[a] # "idle" /\ File(a).ino = ino[AIOFILE]
  BY <1>1 DEF Alone, Inside
<1>5. pc[a] # "wrap" => last_finfo < AIOFILE
  BY <1>1 DEF Alone
<1> QED BY <1>2, <1>3, <1>4, <1>5 DEF Alone, AloneAt

\* A step of the task that is alone.
LEMMA SoleStep ==
    ASSUME FileInv, ~past, overlaps = 0, NEW a \in Adders, AdderStep(a), AloneAt(a)
    PROVE  AloneAt(a)'
<1> USE Numbers DEF Goto
<1>0. /\ TypeOK /\ AdderTypes /\ TableTypes
      /\ size \in 0..AIOFILE /\ last_finfo \in Nat /\ i[a] \in Nat
      /\ pc \in [Adders -> AdderPcs] /\ i \in [Adders -> Nat]
      /\ mine \in [Adders -> 0..NAdds]
      /\ pc[a] \in {"tid", "ino", "name", "size"} => i[a] \in Entries
  BY DEF FileInv, TypeOK, TableTypes, AdderTypes
<1>1. pc[a] # "idle"
  BY DEF AdderStep, Scan, Flag, Full, NextVictim, WrapVictim, StoreUid, StoreTid,
         StoreIno, StoreName, SetSize
<1>2. mine[a] \in 1..NAdds /\ mine[a] # None
  BY <1>0, <1>1, FileIsFile
<1>3. CASE Scan(a)
  <2>1. \/ i'[a] = i[a] + 1 /\ i[a] < size /\ pc'[a] = "scan"
        \/ i'[a] = i[a] /\ pc'[a] = "flag"
    BY <1>0, <1>3 DEF Scan
  <2>2. pc[a] = "scan" /\ UNCHANGED <<tabVars, mine, flag, added, past>>
    BY <1>3 DEF Scan
  <2>3. IndexOf(a)'
    BY <2>1, <2>2, <1>0 DEF AloneAt, IndexOf, tabVars
  <2> QED BY <2>1, <2>2, <2>3 DEF AloneAt, StoredBy, Whole, File, tabVars
<1>4. CASE Flag(a)
  <2>1. pc[a] = "flag" /\ pc'[a] = "full"
        /\ UNCHANGED <<tabVars, mine, i, added, past>>
    BY <1>0, <1>4 DEF Flag
  <2>2. IndexOf(a)'
    BY <2>1 DEF AloneAt, IndexOf, tabVars
  <2> QED BY <2>1, <2>2 DEF AloneAt, StoredBy, Whole, File, tabVars
<1>5. CASE Full(a)
  <2>1. pc[a] = "full" /\ UNCHANGED <<tabVars, mine, flag, added, past>>
        /\ (\/ i'[a] = last_finfo /\ pc'[a] = "next" /\ size = AIOFILE
            \/ i'[a] = i[a] /\ pc'[a] = "uid"
               /\ (size # AIOFILE \/ ino[AIOFILE] = File(a).ino))
    BY <1>0, <1>5 DEF Full, IsFull
  <2>2. IndexOf(a)'
    BY <2>1, <1>0 DEF AloneAt, IndexOf, File, tabVars
  <2> QED BY <2>1, <2>2 DEF AloneAt, StoredBy, Whole, File, tabVars
<1>6. CASE NextVictim(a)
  <2>1. /\ pc[a] = "next" /\ last_finfo' = i[a] + 1
        /\ pc'[a] = (IF i[a] + 1 > AIOFILE - 1 THEN "wrap" ELSE "uid")
        /\ UNCHANGED <<size, ino, name, uid, tid, mine, i, flag, added, past>>
    BY <1>0, <1>6 DEF NextVictim
  <2>2. IndexOf(a)' /\ (pc'[a] # "wrap" => last_finfo' < AIOFILE)
    BY <2>1, <1>0 DEF AloneAt, IndexOf, File
  <2>3. pc'[a] \in {"wrap", "uid"}
    BY <2>1
  <2> QED BY <2>1, <2>2, <2>3 DEF AloneAt, StoredBy, Whole, File
<1>7. CASE WrapVictim(a)
  <2>1. /\ pc[a] = "wrap" /\ last_finfo' = 0 /\ pc'[a] = "uid"
        /\ UNCHANGED <<size, ino, name, uid, tid, mine, i, flag, added, past>>
    BY <1>0, <1>7 DEF WrapVictim
  <2>2. IndexOf(a)' /\ last_finfo' < AIOFILE
    BY <2>1, <1>0 DEF AloneAt, IndexOf, File
  <2> QED BY <2>1, <2>2 DEF AloneAt, StoredBy, Whole, File
<1>8. CASE StoreUid(a)
  <2>1. /\ pc[a] = "uid" /\ pc'[a] = "tid" /\ past' = (i[a] \notin Entries)
        /\ uid' = IF i[a] \in Entries THEN [uid EXCEPT ![i[a]] = mine[a]] ELSE uid
        /\ UNCHANGED <<size, last_finfo, ino, name, tid, mine, i, flag, added>>
    BY <1>0, <1>8 DEF StoreUid
  <2>2. IndexOf(a)'
    BY <2>1 DEF AloneAt, IndexOf
  <2>3. ~past' => StoredBy(a)'
    BY <2>1, <1>0 DEF StoredBy, TableTypes
  <2>4. past' => File(a)'.ino = ino'[AIOFILE]
    <3>1. SUFFICES ASSUME past' PROVE File(a).ino = ino[AIOFILE]
      BY <2>1 DEF File
    <3>0. i[a] \notin Entries
      BY <3>1, <2>1
    <3>2. ~(i[a] < AIOFILE)
      BY <3>0, <1>0 DEF Entries
    <3> QED BY <3>2, <2>1 DEF AloneAt, IndexOf
  <2>5. ASSUME NEW e \in Entries, e < size', i'[a] # e PROVE Whole(e)'
    <3>1. Whole(e)
      BY <2>1, <2>5 DEF AloneAt
    <3>2. uid'[e] = uid[e]
      BY <2>1, <2>5, <1>0 DEF TableTypes
    <3> QED BY <3>1, <3>2, <2>1 DEF Whole
  <2> QED BY <2>1, <2>2, <2>3, <2>4, <2>5 DEF AloneAt
<1>9. CASE StoreTid(a)
  <2>1. /\ pc[a] = "tid" /\ pc'[a] = "ino" /\ i[a] \in Entries
        /\ tid' = [tid EXCEPT ![i[a]] = mine[a]]
        /\ UNCHANGED <<size, last_finfo, ino, name, uid, mine, i, flag, added, past>>
    BY <1>0, <1>9 DEF StoreTid
  <2>2. IndexOf(a)'
    BY <2>1 DEF AloneAt, IndexOf
  <2>3. StoredBy(a)'
    BY <2>1, <1>0 DEF AloneAt, StoredBy, TableTypes
  <2>5. ASSUME NEW e \in Entries, e < size', i'[a] # e PROVE Whole(e)'
    <3>1. Whole(e)
      BY <2>1, <2>5 DEF AloneAt
    <3>2. tid'[e] = tid[e]
      BY <2>1, <2>5, <1>0 DEF TableTypes
    <3> QED BY <3>1, <3>2, <2>1 DEF Whole
  <2> QED BY <2>1, <2>2, <2>3, <2>5 DEF AloneAt
<1>10. CASE StoreIno(a)
  <2>1. /\ pc[a] = "ino" /\ pc'[a] = "name" /\ i[a] \in Entries
        /\ ino' = [ino EXCEPT ![i[a]] = File(a).ino]
        /\ UNCHANGED <<size, last_finfo, name, uid, tid, mine, i, flag, added, past>>
    BY <1>0, <1>10 DEF StoreIno
  <2>2. IndexOf(a)'
    BY <2>1 DEF AloneAt, IndexOf
  <2>6. i[a] \in 0..AIOFILE
    BY <2>1 DEF Entries
  <2>3. StoredBy(a)'
    BY <2>1, <2>6, <1>0 DEF AloneAt, StoredBy, TableTypes, File
  <2>5. ASSUME NEW e \in Entries, e < size', i'[a] # e PROVE Whole(e)'
    <3>1. Whole(e)
      BY <2>1, <2>5 DEF AloneAt
    <3>2. ino'[e] = ino[e]
      BY <2>1, <2>5, <1>0 DEF TableTypes, Entries
    <3> QED BY <3>1, <3>2, <2>1 DEF Whole
  <2> QED BY <2>1, <2>2, <2>3, <2>5 DEF AloneAt
<1>12. CASE StoreName(a)
  <2>1. /\ pc[a] = "name" /\ pc'[a] = "size" /\ i[a] \in Entries
        /\ name' = [name EXCEPT ![i[a]] = File(a).name]
        /\ UNCHANGED <<size, last_finfo, ino, uid, tid, mine, i, flag, added, past>>
    BY <1>0, <1>12 DEF StoreName
  <2>2. IndexOf(a)'
    BY <2>1 DEF AloneAt, IndexOf
  <2>3. StoredBy(a)'
    BY <2>1, <1>0 DEF AloneAt, StoredBy, TableTypes, File
  <2>5. ASSUME NEW e \in Entries, e < size', i'[a] # e PROVE Whole(e)'
    <3>1. Whole(e)
      BY <2>1, <2>5 DEF AloneAt
    <3>2. name'[e] = name[e]
      BY <2>1, <2>5, <1>0 DEF TableTypes
    <3> QED BY <3>1, <3>2, <2>1 DEF Whole
  <2> QED BY <2>1, <2>2, <2>3, <2>5 DEF AloneAt
<1>11. CASE SetSize(a)
  <2>1. /\ pc[a] = "size" /\ pc'[a] = "idle" /\ i'[a] = 0 /\ i[a] \in Entries
        /\ size' = IF flag[a] THEN i[a] + 1 ELSE size
        /\ UNCHANGED <<last_finfo, ino, name, uid, tid, added, past>>
    BY <1>0, <1>11 DEF SetSize, Return
  <2>2. IndexOf(a)'
    BY <2>1 DEF IndexOf
  <2>5. ASSUME NEW e \in Entries, e < size' PROVE Whole(e)'
    <3>1. CASE e = i[a]
      BY <3>1, <2>1, <1>2 DEF AloneAt, StoredBy, Whole, File
    <3>2. CASE e # i[a]
      <4>2. flag[a] => i[a] <= size
        BY <2>1 DEF AloneAt, IndexOf
      <4>3. e \in Nat /\ i[a] \in Nat /\ size \in Nat
        BY <1>0 DEF Entries
      <4>1. e < size
        BY <3>2, <2>1, <2>5, <4>2, <4>3
      <4> QED BY <4>1, <3>2, <2>1 DEF AloneAt, Whole
    <3> QED BY <3>1, <3>2
  <2> QED BY <2>1, <2>2, <2>5 DEF AloneAt, StoredBy
<1> QED BY <1>3, <1>4, <1>5, <1>6, <1>7, <1>8, <1>9, <1>10, <1>11, <1>12 DEF AdderStep

\* Another call starts: alone when nobody was inside.
LEMMA AddAlone ==
    ASSUME FileInv, ~past, NEW a \in Adders, NEW f \in Files, Add(a, f), overlaps' = 0
    PROVE  Alone'
<1> USE DEF Goto
<1>0. /\ TypeOK /\ added \in Seq(Files) /\ NAdds \in Nat /\ NAdds = Len(added)
      /\ pc \in [Adders -> AdderPcs] /\ mine \in [Adders -> 0..NAdds]
      /\ size \in Nat /\ overlaps \in Nat /\ uid \in [Entries -> Owners]
  BY Numbers DEF FileInv, TypeOK, TableTypes, AdderTypes, NAdds
<1>1. Inside = {} /\ overlaps = 0
  BY <1>0 DEF Add
<1>2. \A b \in Adders : pc[b] = "idle"
  BY <1>1 DEF Inside
<1>3. Sole(a) /\ AloneAt(a)
  BY <1>1, <1>2, AloneIsSole DEF FileInv
<1>4. Sole(a)'
  BY <1>3, <1>0 DEF Sole, Add
<1>5. /\ pc[a] = "idle" /\ pc'[a] = "scan" /\ i'[a] = 0 /\ added' = Append(added, f)
      /\ UNCHANGED <<tabVars, i, flag, past>>
  BY <1>0, <1>2, <1>3 DEF Add, AloneAt, IndexOf
<1>6. ASSUME NEW e \in Entries, e < size' PROVE Whole(e)'
  <2>1. Whole(e)
    BY <1>5, <1>6, <1>3 DEF AloneAt, tabVars
  <2>2. uid[e] \in 1..NAdds
    BY <2>1, <1>0, Numbers DEF FileInv, Whole, Owners, None
  <2>3. added'[uid[e]] = added[uid[e]]
    BY <2>2, <1>0, <1>5
  <2> QED BY <2>1, <2>3, <1>5 DEF Whole, tabVars
<1>7. AloneAt(a)'
  <2>1. IndexOf(a)'
    BY <1>5, <1>0 DEF IndexOf, tabVars
  <2>2. StoredBy(a)'
    BY <1>5 DEF StoredBy
  <2>3. last_finfo' < AIOFILE /\ ~past'
    BY <1>3, <1>5 DEF AloneAt, tabVars
  <2> QED BY <2>1, <2>2, <2>3, <1>6 DEF AloneAt
<1>8. SomeSole'
  BY <1>4, <1>7 DEF SomeSole
<1> QED BY <1>8, SoleIsAlone, PTL

LEMMA FileInvStep == FileInv /\ [Next]_vars => FileInv'
<1> SUFFICES ASSUME FileInv, [Next]_vars PROVE FileInv'
  OBVIOUS
<1>0. TypeOK /\ TypeOK'
  BY FileTypeStep DEF FileInv
<1>1. ASSUME NEW a \in Adders, AdderStep(a), ~past PROVE FileInv'
  <2>1. UNCHANGED <<added, overlaps>> /\ NAdds' = NAdds
    BY <1>1 DEF AdderStep, Scan, Flag, Full, NextVictim, WrapVictim, StoreUid, StoreTid,
                StoreIno, StoreName, SetSize, NAdds
  <2>2. mine[a] \in 1..NAdds
    <3>1. AdderTypes /\ pc[a] # "idle"
      BY <1>0, <1>1 DEF TypeOK, AdderStep, Scan, Flag, Full, NextVictim, WrapVictim,
                        StoreUid, StoreTid, StoreIno, StoreName, SetSize
    <3> QED BY <3>1, FileIsFile
  <2>3. uid' = uid \/ \E e \in Entries : uid' = [uid EXCEPT ![e] = mine[a]]
    BY <1>1 DEF AdderStep, Scan, Flag, Full, NextVictim, WrapVictim, StoreUid, StoreTid,
                StoreIno, StoreName, SetSize, tabVars
  <2>4. \A e \in Entries : uid'[e] <= NAdds'
    <3>1. \A e \in Entries : uid[e] <= NAdds
      BY DEF FileInv
    <3>2. uid \in [Entries -> Owners]
      BY <1>0 DEF TypeOK, TableTypes
    <3>3. mine[a] <= NAdds
      BY <2>2
    <3> QED BY <2>1, <2>3, <3>1, <3>2, <3>3
  <2>5. ASSUME overlaps = 0 PROVE Alone'
    <3>1. pc[a] # "idle"
      BY <1>1 DEF AdderStep, Scan, Flag, Full, NextVictim, WrapVictim, StoreUid, StoreTid,
                  StoreIno, StoreName, SetSize
    <3>2. Sole(a) /\ AloneAt(a)
      BY <2>5, <3>1, AloneIsSole DEF FileInv
    <3>3. AloneAt(a)'
      BY <1>1, <2>5, <3>2, SoleStep
    <3>4. \A b \in Adders \ {a} : pc'[b] = pc[b] /\ i'[b] = i[b]
      <4>1. pc \in [Adders -> AdderPcs] /\ i \in [Adders -> Nat]
        BY <1>0 DEF TypeOK, AdderTypes
      <4>2. CASE Scan(a)
        BY <4>1, <4>2 DEF Scan, Goto
      <4>3. CASE Flag(a) \/ Full(a)
        BY <4>1, <4>3 DEF Flag, Full, Goto
      <4>4. CASE NextVictim(a) \/ WrapVictim(a)
        BY <4>1, <4>4 DEF NextVictim, WrapVictim, Goto
      <4>5. CASE StoreUid(a) \/ StoreTid(a) \/ StoreIno(a) \/ StoreName(a)
        BY <4>1, <4>5 DEF StoreUid, StoreTid, StoreIno, StoreName, Goto
      <4>6. CASE SetSize(a)
        BY <4>1, <4>6 DEF SetSize, Return, Goto
      <4> QED BY <1>1, <4>2, <4>3, <4>4, <4>5, <4>6 DEF AdderStep
    <3>5. Sole(a)'
      BY <3>2, <3>4 DEF Sole
    <3>6. SomeSole'
      BY <3>3, <3>5 DEF SomeSole
    <3> QED BY <3>6, SoleIsAlone, PTL
  <2> QED BY <1>0, <2>1, <2>4, <2>5 DEF FileInv
<1>2. ASSUME NEW a \in Adders, NEW f \in Files, Add(a, f), ~past PROVE FileInv'
  <2>1. overlaps' = 0 => Alone'
    BY <1>2, AddAlone
  <2>2. uid' = uid /\ added' = Append(added, f)
    BY <1>2 DEF Add, tabVars
  <2>3. NAdds \in Nat /\ NAdds' = NAdds + 1
    BY <1>0, <2>2, Numbers DEF TypeOK, AdderTypes, NAdds
  <2>4. \A e \in Entries : uid[e] \in Nat /\ uid[e] <= NAdds
    BY <1>0, Numbers DEF FileInv, TypeOK, TableTypes, Owners
  <2> QED BY <1>0, <2>1, <2>2, <2>3, <2>4 DEF FileInv
<1>3. ASSUME NEW r \in Readers, ReaderStep(r) \/ \E n \in Inos : Ask(r, n)
      PROVE  FileInv'
  <2>1. UNCHANGED <<tabVars, addVars, added, past, overlaps, evicted>>
    BY <1>3 DEF ReaderStep, Look, ReadUid, ReadTid, Logged, Ask
  <2> QED BY <1>0, <2>1 DEF FileInv, Alone, IndexOf, StoredBy, Untouched, Inside, Whole,
             File, NAdds, tabVars, addVars
<1>4. CASE UNCHANGED vars
  BY <1>0, <1>4 DEF FileInv, Alone, IndexOf, StoredBy, Untouched, Inside, Whole,
             File, NAdds, vars, tabVars, addVars
<1> QED BY <1>1, <1>2, <1>3, <1>4 DEF Next

LEMMA FileInvHolds == Spec => []FileInv
<1>1. Init => FileInv
  <2> SUFFICES ASSUME Init PROVE FileInv
    OBVIOUS
  <2>1. TypeOK
    BY FileTypeInit
  <2>2. \A e \in Entries : uid[e] <= NAdds
    BY DEF Init, NAdds, None
  <2>3. Alone
    BY Numbers DEF Init, Alone, IndexOf, StoredBy, Inside, Entries
  <2> QED BY <2>1, <2>2, <2>3 DEF FileInv
<1> QED BY <1>1, FileInvStep, PTL DEF Spec

\* A store past the table takes two overlapping calls of add_aiopro_finfo, or
\* the inode at hand in the word behind the array of inodes.
THEOREM FileOverrunNeedsOverlap == Spec => []OverrunNeedsOverlap
<1>1. FileInv => OverrunNeedsOverlap
  <2>1. TypeOK => overlaps = 0 \/ overlaps > 0
    BY Numbers DEF TypeOK, AdderTypes
  <2> QED BY <2>1 DEF FileInv, Alone, OverrunNeedsOverlap
<1> QED BY <1>1, FileInvHolds, PTL

\* Without overlap every entry in use is of one call of add_aiopro_finfo, also
\* when the full table replaces entries and shrinks.
THEOREM EntriesWhole == Spec => []EntriesAreWhole
<1>1. FileInv => EntriesAreWhole
  BY DEF FileInv, Alone, Untouched, EntriesAreWhole
<1> QED BY <1>1, FileInvHolds, PTL

-----------------------------------------------------------------------------
(* What is forgotten.  A call is about to write an entry in use only if the *)
(* entry matched, or because the table is full; a new one comes last.       *)
Chosen(a) ==
    /\ pc[a] \in {"flag", "full", "next", "wrap", "uid", "tid", "ino"} /\ i[a] < size =>
          size = AIOFILE \/ ino[i[a]] = File(a).ino \/ name[i[a]] = File(a).name
    /\ pc[a] \notin {"idle", "scan", "flag"} /\ flag[a] => i[a] = size \/ size = AIOFILE

Choices == overlaps = 0 => \A a \in Adders : Chosen(a)

LEMMA SoleChosen ==
    ASSUME FileInv, ~past, overlaps = 0, NEW a \in Adders, AdderStep(a), Chosen(a)
    PROVE  Chosen(a)'
<1> USE Numbers DEF Goto
<1>0. /\ size \in 0..AIOFILE /\ i[a] \in Nat /\ pc[a] \in AdderPcs
      /\ pc \in [Adders -> AdderPcs] /\ i \in [Adders -> Nat] /\ flag \in [Adders -> BOOLEAN]
  BY DEF FileInv, TypeOK, TableTypes, AdderTypes
<1>1. CASE Scan(a)
  <2>1. /\ pc[a] = "scan" /\ UNCHANGED <<tabVars, mine, added, flag>>
        /\ \/ pc'[a] = "scan"
           \/ pc'[a] = "flag" /\ i'[a] = i[a] /\ (i[a] < size => Matches(a, i[a]))
    BY <1>0, <1>1 DEF Scan
  <2> QED BY <1>0, <2>1 DEF Chosen, Matches, File, tabVars
<1>2. CASE Flag(a)
  <2>1. /\ pc[a] = "flag" /\ pc'[a] = "full" /\ UNCHANGED <<tabVars, mine, added, i>>
        /\ flag'[a] => i[a] = size
    BY <1>0, <1>2 DEF Flag, IsNew
  <2> QED BY <2>1 DEF Chosen, File, tabVars
<1>3. CASE Full(a)
  <2>1. /\ pc[a] = "full" /\ UNCHANGED <<tabVars, mine, added, flag>>
        /\ \/ pc'[a] = "next" /\ size = AIOFILE
           \/ pc'[a] = "uid" /\ i'[a] = i[a]
    BY <1>0, <1>3 DEF Full, IsFull
  <2> QED BY <2>1 DEF Chosen, File, tabVars
<1>4. CASE NextVictim(a) \/ WrapVictim(a) \/ StoreUid(a) \/ StoreTid(a)
  <2>1. /\ pc[a] \in {"next", "wrap", "uid", "tid"} /\ pc'[a] \in {"wrap", "uid", "tid", "ino"}
        /\ UNCHANGED <<size, ino, name, mine, added, i, flag>>
    BY <1>0, <1>4 DEF NextVictim, WrapVictim, StoreUid, StoreTid
  <2> QED BY <2>1 DEF Chosen, File
<1>5. CASE StoreIno(a) \/ StoreName(a)
  <2>1. /\ pc[a] \in {"ino", "name"} /\ pc'[a] \in {"name", "size"}
        /\ UNCHANGED <<size, i, flag>>
    BY <1>0, <1>5 DEF StoreIno, StoreName
  <2> QED BY <2>1 DEF Chosen
<1>6. CASE SetSize(a)
  <2>1. pc'[a] = "idle"
    BY <1>0, <1>6 DEF SetSize, Return
  <2> QED BY <2>1 DEF Chosen
<1> QED BY <1>1, <1>2, <1>3, <1>4, <1>5, <1>6 DEF AdderStep

\* All others are outside, before and after.
LEMMA OthersAreIdle ==
    ASSUME FileInv, overlaps = 0, NEW a \in Adders, AdderStep(a), NEW b \in Adders \ {a}
    PROVE  pc[b] = "idle" /\ pc'[b] = "idle"
<1>1. pc[a] # "idle" /\ pc \in [Adders -> AdderPcs]
  BY DEF AdderStep, Scan, Flag, Full, NextVictim, WrapVictim, StoreUid, StoreTid, StoreIno, StoreName,
         SetSize, FileInv, TypeOK, AdderTypes
<1>2. pc[b] = "idle"
  BY <1>1, AloneIsSole DEF FileInv, Sole
<1>3. pc'[b] = pc[b]
  BY <1>1 DEF AdderStep, Scan, Flag, Full, NextVictim, WrapVictim, StoreUid, StoreTid, StoreIno, StoreName,
         SetSize, Return, Goto
<1> QED BY <1>2, <1>3

LEMMA ChoicesStep == FileInv /\ Choices /\ [Next]_vars => Choices'
<1> SUFFICES ASSUME FileInv, Choices, [Next]_vars, overlaps' = 0, NEW b \in Adders
             PROVE  Chosen(b)'
  BY DEF Choices
<1>1. ASSUME NEW a \in Adders, AdderStep(a), ~past PROVE Chosen(b)'
  <2>1. overlaps = 0
    BY <1>1 DEF AdderStep, Scan, Flag, Full, NextVictim, WrapVictim, StoreUid, StoreTid,
                StoreIno, StoreName, SetSize
  <2>2. CASE b = a
    BY <1>1, <2>1, <2>2, SoleChosen DEF Choices
  <2>3. CASE b # a
    BY <1>1, <2>1, <2>3, OthersAreIdle DEF Chosen
  <2> QED BY <2>2, <2>3
<1>2. ASSUME NEW a \in Adders, NEW f \in Files, Add(a, f) PROVE Chosen(b)'
  <2>1. Inside = {} /\ pc \in [Adders -> AdderPcs]
    <3>1. overlaps \in Nat /\ pc \in [Adders -> AdderPcs]
      BY Numbers DEF FileInv, TypeOK, AdderTypes
    <3> QED BY <1>2, <3>1 DEF Add
  <2>2. pc'[b] \in {"idle", "scan"}
    BY <1>2, <2>1 DEF Add, Goto, Inside
  <2> QED BY <2>2 DEF Chosen
<1>3. ASSUME NEW r \in Readers, ReaderStep(r) \/ \E n \in Inos : Ask(r, n)
      PROVE  Chosen(b)'
  <2>1. UNCHANGED <<tabVars, addVars, added, overlaps>>
    BY <1>3 DEF ReaderStep, Look, ReadUid, ReadTid, Logged, Ask
  <2> QED BY <2>1 DEF Choices, Chosen, File, tabVars, addVars
<1>4. CASE UNCHANGED vars
  BY <1>4 DEF Choices, Chosen, File, vars, tabVars, addVars
<1> QED BY <1>1, <1>2, <1>3, <1>4 DEF Next

\* Until calls overlap a file that is known stays known, unless a file of the
\* same name takes its entry or the table is full: nothing else in
\* add_aiopro_finfo drops or cuts off an entry.
THEOREM ForgetsForReason == Spec => ForgetsNamesakesOrWhenFull
<1> DEFINE A == \/ overlaps' > 0 \/ KnownInos \subseteq KnownInos'
                \/ size = AIOFILE
                \/ \E a \in Adders : pc[a] = "ino" /\ name[i[a]] = File(a).name
<1>1. FileInv /\ Choices /\ [Next]_vars => [A]_vars
  <2> SUFFICES ASSUME FileInv, Choices, Next, ~(overlaps' > 0), ~(size = AIOFILE) PROVE A
    OBVIOUS
  <2>1. overlaps' = 0 /\ TypeOK
    <3>1. TypeOK' /\ TypeOK
      BY FileTypeStep DEF FileInv
    <3>2. overlaps' \in Nat
      BY <3>1, Numbers DEF TypeOK, AdderTypes
    <3> QED BY <3>1, <3>2
  <2>2. ASSUME UNCHANGED <<size, ino>> PROVE A
    BY <2>2 DEF KnownInos, Hits
  <2>3. ASSUME NEW a \in Adders, AdderStep(a) PROVE A
    <3>1. overlaps = 0
      BY <2>1, <2>3 DEF AdderStep, Scan, Flag, Full, NextVictim, WrapVictim, StoreUid,
                  StoreTid, StoreIno, StoreName, SetSize
    <3>2. Chosen(a)
      BY <3>1 DEF Choices
    <3>3. /\ size \in Nat /\ i[a] \in Nat /\ \A e \in Entries : e \in Nat
          /\ ino \in [0..AIOFILE -> Inos \cup {Fresh} \cup Strays] /\ Entries \subseteq 0..AIOFILE
      BY <2>1, Numbers DEF TypeOK, TableTypes, AdderTypes, Entries
    <3>4. CASE Scan(a) \/ Flag(a) \/ Full(a) \/ NextVictim(a) \/ WrapVictim(a) \/ StoreUid(a)
               \/ StoreTid(a) \/ StoreName(a)
      BY <2>2, <3>4 DEF Scan, Flag, Full, NextVictim, WrapVictim, StoreUid, StoreTid,
                        StoreName, tabVars
    <3>5. CASE StoreIno(a)
      <4>1. pc[a] = "ino" /\ ino' = [ino EXCEPT ![i[a]] = File(a).ino] /\ size' = size
        BY <3>5 DEF StoreIno
      <4>2. CASE i[a] < size /\ ino[i[a]] # File(a).ino
        BY <3>2, <4>1, <4>2 DEF Chosen
      <4>3. CASE ~(i[a] < size) \/ ino[i[a]] = File(a).ino
        <5>1. \A e \in Entries : e < size => ino'[e] = ino[e]
          BY <3>3, <4>1, <4>3
        <5>2. \A n : Hits(n) \subseteq Hits(n)'
          BY <4>1, <5>1 DEF Hits
        <5> QED BY <5>2 DEF KnownInos
      <4> QED BY <4>2, <4>3
    <3>6. CASE SetSize(a)
      <4>1. pc[a] = "size" /\ ino' = ino /\ size' = IF flag[a] THEN i[a] + 1 ELSE size
        BY <3>6 DEF SetSize
      <4>2. size <= size' /\ size' \in Nat
        BY <3>2, <3>3, <4>1 DEF Chosen
      <4>3. \A e \in Entries : e < size => e < size'
        BY <3>3, <4>2
      <4>4. Entries' = Entries
        BY DEF Entries
      <4>5. \A n : Hits(n) \subseteq Hits(n)'
        BY <4>1, <4>3, <4>4 DEF Hits
      <4> QED BY <4>5 DEF KnownInos
    <3> QED BY <2>3, <3>4, <3>5, <3>6 DEF AdderStep
  <2>4. ASSUME NEW a \in Adders, NEW f \in Files, Add(a, f) PROVE A
    BY <2>2, <2>4 DEF Add, tabVars
  <2>5. ASSUME NEW r \in Readers, ReaderStep(r) \/ \E n \in Inos : Ask(r, n) PROVE A
    BY <2>2, <2>5 DEF ReaderStep, Look, ReadUid, ReadTid, Logged, Ask, tabVars
  <2> QED BY <2>3, <2>4, <2>5 DEF Next
<1>2. Init => Choices
  BY DEF Init, Choices, Chosen
<1>3. FileInv /\ Choices /\ [Next]_vars => Choices'
  BY ChoicesStep
<1> QED BY <1>1, <1>2, <1>3, FileInvHolds, PTL DEF Spec, ForgetsNamesakesOrWhenFull
-----------------------------------------------------------------------------
(* What readers log.  A reader no call overlapped has the table to itself   *)
(* until it has read both fields.                                           *)
ReaderAt(r) ==
    /\ r \in Looking => Inside = {}
    /\ rpc[r] \in {"scan", "uid"} => got[r] = NoOwner
    /\ rpc[r] \in {"uid", "tid"} => ri[r] < size /\ ino[ri[r]] = asked[r]
    /\ rpc[r] = "tid" => got[r].uid = uid[ri[r]]
    /\ rpc[r] = "done" /\ got[r] # NoOwner =>
          /\ got[r].uid = got[r].tid /\ got[r].uid \in 1..NAdds
          /\ added[got[r].uid].ino = asked[r]

ReadersAre ==
    /\ \A r \in Readers : rpc[r] = "idle" => got[r] = NoOwner
    /\ overlaps = 0 /\ ~past => \A r \in Readers \ rraced : ReaderAt(r)

LEMMA ReadersStep == FileInv /\ ReadersAre /\ [Next]_vars => ReadersAre'
<1> SUFFICES ASSUME FileInv, ReadersAre, [Next]_vars PROVE ReadersAre'
  OBVIOUS
<1>0. TypeOK /\ ReaderTypes /\ AdderTypes /\ overlaps \in Nat /\ NAdds \in Nat
  BY Numbers DEF FileInv, TypeOK, AdderTypes
<1>1. ASSUME NEW a \in Adders, AdderStep(a), ~past PROVE ReadersAre'
  <2>1. UNCHANGED <<rdVars, added, overlaps, rraced>> /\ pc[a] # "idle"
    BY <1>1 DEF AdderStep, Scan, Flag, Full, NextVictim, WrapVictim, StoreUid, StoreTid,
                StoreIno, StoreName, SetSize
  <2>2. a \in Inside
    BY <2>1 DEF Inside
  <2>3. ASSUME overlaps = 0, NEW r \in Readers \ rraced PROVE ReaderAt(r)'
    <3>1. ReaderAt(r) /\ r \notin Looking
      BY <1>1, <2>2, <2>3 DEF ReadersAre, ReaderAt
    <3>2. rpc[r] \notin {"scan", "uid", "tid"}
      BY <3>1 DEF Looking
    <3> QED BY <2>1, <3>1, <3>2 DEF ReaderAt, Looking, NAdds, rdVars
  <2> QED BY <1>1, <2>1, <2>3 DEF ReadersAre, rdVars
<1>2. ASSUME NEW a \in Adders, NEW f \in Files, Add(a, f) PROVE ReadersAre'
  <2>1. /\ UNCHANGED <<rdVars, past>> /\ rraced' = rraced \cup Looking
        /\ added' = Append(added, f) /\ (overlaps' = 0 => overlaps = 0)
    BY <1>0, <1>2 DEF Add
  <2>2. NAdds' = NAdds + 1 /\ \A k \in 1..NAdds : added'[k] = added[k]
    BY <1>0, <2>1 DEF AdderTypes, NAdds
  <2>3. ASSUME overlaps = 0, ~past, NEW r \in Readers \ rraced' PROVE ReaderAt(r)'
    <3>1. ReaderAt(r) /\ r \notin Looking
      BY <2>1, <2>3 DEF ReadersAre
    <3>2. rpc[r] \notin {"scan", "uid", "tid"}
      BY <3>1 DEF Looking
    <3>3. rpc[r] = "done" /\ got[r] # NoOwner =>
             got[r].uid \in 1..NAdds' /\ added'[got[r].uid].ino = asked[r]
      BY <1>0, <2>2, <3>1 DEF ReaderAt
    <3> QED BY <2>1, <3>1, <3>2, <3>3 DEF ReaderAt, Looking, rdVars
  <2> QED BY <2>1, <2>3 DEF ReadersAre, rdVars
<1>3. ASSUME NEW r \in Readers, ReaderStep(r) \/ \E n \in Inos : Ask(r, n) PROVE ReadersAre'
  <2> USE DEF RGoto
  <2>1. UNCHANGED <<tabVars, addVars, added, overlaps, past>> /\ rraced \ {r} \subseteq rraced'
    BY <1>3 DEF ReaderStep, Look, ReadUid, ReadTid, Logged, Ask
  <2>2. /\ rpc \in [Readers -> ReaderPcs] /\ asked \in [Readers -> Inos \cup {Fresh}]
        /\ ri \in [Readers -> 0..AIOFILE] /\ got \in [Readers -> [uid : Owners, tid : Owners]]
    BY <1>0 DEF ReaderTypes
  <2>3. \A s \in Readers \ {r} :
           rpc'[s] = rpc[s] /\ asked'[s] = asked[s] /\ ri'[s] = ri[s] /\ got'[s] = got[s]
    BY <1>3, <2>2 DEF ReaderStep, Look, ReadUid, ReadTid, Logged, Ask
  <2>4. rpc'[r] = "idle" => got'[r] = NoOwner
    BY <1>3, <2>2 DEF ReaderStep, Look, ReadUid, ReadTid, Logged, Ask
  <2>5. ASSUME overlaps = 0, ~past, NEW s \in Readers \ rraced', s # r PROVE ReaderAt(s)'
    <3>1. ReaderAt(s)
      BY <2>1, <2>5 DEF ReadersAre
    <3> QED BY <2>1, <2>3, <2>5, <3>1 DEF ReaderAt, Looking, Inside, NAdds, tabVars, addVars
  <2>6. ASSUME overlaps = 0, ~past, r \notin rraced' PROVE ReaderAt(r)'
    <3>1. CASE \E n \in Inos : Ask(r, n)
      <4>1. Inside = {} /\ rpc'[r] = "scan" /\ got'[r] = NoOwner
        BY <2>2, <2>6, <3>1 DEF Ask, ReadersAre
      <4> QED BY <2>1, <4>1 DEF ReaderAt, Inside, addVars
    <3>2. CASE Logged(r)
      BY <2>2, <3>2 DEF Logged, ReaderAt, Looking
    <3>3. CASE Look(r) \/ ReadUid(r) \/ ReadTid(r)
      <4>1. rpc[r] \in {"scan", "uid", "tid"} /\ r \notin rraced
        BY <2>6, <3>3 DEF Look, ReadUid, ReadTid
      <4>2. ReaderAt(r) /\ r \in Looking
        BY <2>6, <4>1 DEF ReadersAre, Looking
      <4>3. Inside' = {}
        BY <2>1, <4>2 DEF ReaderAt, Inside, addVars
      <4>4. CASE Look(r)
        <5>1. /\ rpc[r] = "scan" /\ got' = got /\ asked' = asked
              /\ \/ rpc'[r] \in {"scan", "done"}
                 \/ rpc'[r] = "uid" /\ ri' = ri /\ ~(ri[r] >= size) /\ ino[ri[r]] = asked[r]
          BY <2>2, <4>4 DEF Look
        <5>2. size \in Nat /\ ri[r] \in Nat
          BY <1>0, <2>2, Numbers DEF TypeOK, TableTypes
        <5> QED BY <2>1, <4>2, <4>3, <5>1, <5>2 DEF ReaderAt, tabVars
      <4>5. CASE ReadUid(r)
        <5>1. /\ rpc[r] = "uid" /\ rpc'[r] = "tid" /\ got'[r].uid = uid[ri[r]]
              /\ asked' = asked /\ ri' = ri
          BY <2>2, <4>5 DEF ReadUid
        <5> QED BY <2>1, <4>2, <4>3, <5>1 DEF ReaderAt, tabVars
      <4>6. CASE ReadTid(r)
        <5>1. /\ rpc[r] = "tid" /\ rpc'[r] = "done" /\ got'[r].tid = tid[ri[r]]
              /\ got'[r].uid = got[r].uid /\ asked' = asked
          BY <2>2, <4>6 DEF ReadTid
        <5>2. ri[r] \in Entries
          BY <1>0, <5>1 DEF ReaderTypes
        <5>3. Whole(ri[r])
          BY <2>6, <4>2, <5>1, <5>2 DEF FileInv, Alone, Untouched, ReaderAt
        <5>4. uid[ri[r]] \in 1..NAdds
          BY <1>0, <5>2, <5>3, Numbers
             DEF FileInv, Whole, Owners, None, TypeOK, TableTypes
        <5>5. /\ got'[r].uid = uid[ri[r]] /\ ino[ri[r]] = asked[r]
          BY <4>2, <5>1 DEF ReaderAt
        <5>6. got'[r].uid = got'[r].tid /\ added[got'[r].uid].ino = asked'[r]
          BY <5>1, <5>3, <5>5 DEF Whole
        <5> QED BY <2>1, <4>3, <5>1, <5>4, <5>5, <5>6 DEF ReaderAt, NAdds
      <4> QED BY <3>3, <4>4, <4>5, <4>6
    <3> QED BY <1>3, <3>1, <3>2, <3>3 DEF ReaderStep
  <2> QED BY <2>1, <2>3, <2>4, <2>5, <2>6 DEF ReadersAre
<1>4. CASE UNCHANGED vars
  BY <1>4 DEF ReadersAre, ReaderAt, Looking, Inside, NAdds, vars, tabVars, addVars, rdVars
<1> QED BY <1>1, <1>2, <1>3, <1>4 DEF Next

LEMMA ReadersHold == Spec => []ReadersAre
<1>1. Init => ReadersAre
  BY DEF Init, ReadersAre, ReaderAt, Looking
<1> QED BY <1>1, ReadersStep, FileInvHolds, PTL DEF Spec

\* A hook no add_aiopro_finfo overlapped logs one owner, of the file it asked
\* for, or none, although it reads index and fields one by one.
THEOREM OwnerOfTheFile == Spec => []OwnerIsOfTheFile
<1>1. ReadersAre => OwnerIsOfTheFile
  BY DEF ReadersAre, ReaderAt, OwnerIsOfTheFile
<1> QED BY <1>1, ReadersHold, PTL
-----------------------------------------------------------------------------
(* What is found.  Task a, with all others outside: its file is in no entry *)
(* it has passed, and the one it stopped at, if in use, is the file's.      *)
Finding(a) ==
    pc[a] # "idle" =>
       /\ pc[a] \notin {"next", "wrap"} /\ mine[a] = NAdds /\ i[a] <= size
       /\ \A e \in Entries : e < i[a] => ino[e] # File(a).ino
       /\ pc[a] # "scan" /\ i[a] < size => ino[i[a]] = File(a).ino
       /\ pc[a] \in {"full", "uid", "tid", "ino"} => flag[a] = IsNew(a)
       /\ pc[a] \in {"name", "size"} =>
             /\ flag[a] => i[a] = size
             /\ i[a] = size /\ ~flag[a] => File(a).ino = Fresh

\* Unused entries are as they were at first; an inode has one entry, whose
\* owner no later call but a's own follows; and every file has one.
TableAt(a) ==
    /\ \A e \in Entries : e >= size /\ (pc[a] \in {"name", "size"} => i[a] # e) => ino[e] = Fresh
    /\ \A e, d \in Entries : e < size /\ d < size /\ ino[e] = ino[d] => e = d
    /\ \A e \in Entries, j \in 1..NAdds :
          e < size /\ uid[e] < j /\ added[j].ino = ino[e] =>
              pc[a] \in {"scan", "flag", "full", "uid"} /\ j = mine[a]
    /\ \A k \in 1..NAdds :
          \/ added[k].ino = Fresh
          \/ \E e \in Entries : e < size /\ ino[e] = added[k].ino
          \/ pc[a] # "idle" /\ k = mine[a]

Clear == overlaps = 0 /\ ~evicted /\ ~past /\ NamesAreClear

FoundInv ==
    /\ NAdds > 0 => Adders # {}
    /\ Clear => \A a \in Adders :
          (\A b \in Adders \ {a} : pc[b] = "idle") => Finding(a) /\ TableAt(a)

\* A step of the task that is alone.
LEMMA FindStep ==
    ASSUME FileInv, ~past, NEW a \in Adders, AdderStep(a), Clear, Clear',
           Finding(a), TableAt(a)
    PROVE  Finding(a)' /\ TableAt(a)'
<1> USE Numbers DEF Goto
<1>0. /\ size \in 0..AIOFILE /\ i[a] \in Nat /\ pc[a] \in AdderPcs /\ NAdds \in Nat
      /\ pc \in [Adders -> AdderPcs] /\ i \in [Adders -> Nat] /\ flag \in [Adders -> BOOLEAN]
      /\ ino \in [0..AIOFILE -> Inos \cup {Fresh} \cup Strays] /\ uid \in [Entries -> Owners]
      /\ \A e \in Entries : e \in Nat /\ uid[e] \in Nat
      /\ AdderTypes
  <2>1. TableTypes /\ AdderTypes
    BY DEF FileInv, TypeOK
  <2>2. /\ i[a] \in Nat /\ pc[a] \in AdderPcs /\ NAdds \in Nat
        /\ pc \in [Adders -> AdderPcs] /\ i \in [Adders -> Nat] /\ flag \in [Adders -> BOOLEAN]
    BY <2>1 DEF AdderTypes
  <2>3. /\ size \in 0..AIOFILE /\ uid \in [Entries -> Owners]
        /\ ino \in [0..AIOFILE -> Inos \cup {Fresh} \cup Strays]
    BY <2>1 DEF TableTypes
  <2>4. \A e \in Entries : e \in Nat /\ uid[e] \in Nat
    BY <2>3 DEF Entries, Owners
  <2> QED BY <2>1, <2>2, <2>3, <2>4
<1>1. pc[a] # "idle" /\ UNCHANGED added /\ NAdds' = NAdds
  BY DEF AdderStep, Scan, Flag, Full, NextVictim, WrapVictim, StoreUid, StoreTid,
         StoreIno, StoreName, SetSize, NAdds
<1>2. mine[a] = NAdds /\ mine[a] \in 1..NAdds /\ i[a] <= size
  BY <1>0, <1>1, FileIsFile DEF Finding
<1>3. Sole(a) /\ AloneAt(a)
  BY <1>1, AloneIsSole DEF FileInv, Clear
<1>4. CASE Scan(a)
  <2>1. /\ pc[a] = "scan" /\ UNCHANGED <<tabVars, mine, flag>>
        /\ \/ pc'[a] = "scan" /\ i'[a] = i[a] + 1 /\ i[a] < size /\ ~Matches(a, i[a])
           \/ pc'[a] = "flag" /\ i'[a] = i[a] /\ (i[a] < size => Matches(a, i[a]))
    BY <1>0, <1>4 DEF Scan
  <2>2. TableAt(a)'
    BY <1>1, <2>1 DEF TableAt, tabVars
  <2>3. CASE pc'[a] = "scan"
    <3>1. \A e \in Entries : e < i[a] + 1 => e < i[a] \/ e = i[a]
      BY <1>0
    <3>2. i[a] + 1 <= size
      BY <1>0, <2>1, <2>3
    <3> QED BY <1>1, <1>2, <2>1, <2>2, <2>3, <3>1, <3>2 DEF Finding, Matches, File, tabVars
  <2>4. CASE pc'[a] = "flag"
    <3>1. ASSUME i[a] < size PROVE ino[i[a]] = File(a).ino
      <4>1. i[a] \in Entries
        BY <1>0, <3>1 DEF Entries
      <4>2. Whole(i[a])
        BY <1>3, <2>1, <3>1, <4>1 DEF AloneAt
      <4>3. uid[i[a]] \in 1..NAdds
        BY <1>0, <4>1, <4>2 DEF FileInv, Whole, None
      <4>4. name[i[a]] = File(a).name => ino[i[a]] = File(a).ino
        <5>1. added[uid[i[a]]].ino = added[mine[a]].ino <=>
                 added[uid[i[a]]].name = added[mine[a]].name
          BY <1>2, <4>3 DEF Clear, NamesAreClear
        <5> QED BY <4>2, <5>1 DEF Whole, File
      <4> QED BY <2>1, <2>4, <3>1, <4>4 DEF Matches
    <3> QED BY <1>1, <1>2, <2>1, <2>2, <2>4, <3>1 DEF Finding, File, tabVars
  <2> QED BY <2>1, <2>3, <2>4
<1>5. CASE Flag(a)
  <2>1. /\ pc[a] = "flag" /\ pc'[a] = "full" /\ UNCHANGED <<tabVars, mine, i>>
        /\ flag'[a] = IsNew(a)
    BY <1>0, <1>5 DEF Flag
  <2>2. IsNew(a)' = IsNew(a)
    BY <1>1, <2>1 DEF IsNew, File, tabVars
  <2> QED BY <1>1, <2>1, <2>2 DEF Finding, TableAt, File, tabVars
<1>6. CASE Full(a)
  <2>1. /\ pc[a] = "full" /\ pc'[a] = "uid" /\ UNCHANGED <<tabVars, mine, i, flag>>
    BY <1>0, <1>6 DEF Full, Clear
  <2>2. IsNew(a)' = IsNew(a)
    BY <1>1, <2>1 DEF IsNew, File, tabVars
  <2> QED BY <1>1, <2>1, <2>2 DEF Finding, TableAt, File, tabVars
<1>7. CASE NextVictim(a) \/ WrapVictim(a)
  BY <1>1, <1>7 DEF NextVictim, WrapVictim, Finding
<1>8. CASE StoreUid(a)
  <2>1. /\ pc[a] = "uid" /\ pc'[a] = "tid" /\ i[a] \in Entries
        /\ uid' = [uid EXCEPT ![i[a]] = mine[a]]
        /\ UNCHANGED <<size, ino, mine, i, flag>>
    BY <1>0, <1>8 DEF StoreUid, Clear
  <2>2. IsNew(a)' = IsNew(a)
    BY <1>1, <2>1 DEF IsNew, File
  <2>3. uid'[i[a]] = NAdds /\ \A e \in Entries \ {i[a]} : uid'[e] = uid[e]
    BY <1>0, <1>2, <2>1
  <2>4. Finding(a)'
    BY <1>1, <2>1, <2>2 DEF Finding, File
  <2>5. ASSUME NEW e \in Entries, NEW j \in 1..NAdds, e < size, uid'[e] < j,
               added[j].ino = ino[e]
        PROVE  FALSE
    <3>1. e # i[a]
      BY <1>0, <2>3, <2>5
    <3>2. j = mine[a]
      BY <2>3, <2>5, <3>1 DEF TableAt
    <3>3. ino[e] = File(a).ino
      BY <2>5, <3>2 DEF File
    <3>4. CASE i[a] < size
      BY <1>1, <2>1, <2>5, <3>1, <3>3, <3>4 DEF Finding, TableAt
    <3>5. CASE i[a] = size
      BY <1>1, <2>5, <3>3, <3>5 DEF Finding
    <3> QED BY <1>0, <1>2, <3>4, <3>5
  <2>6. TableAt(a)'
    BY <1>1, <2>1, <2>5 DEF TableAt
  <2> QED BY <2>4, <2>6
<1>9. CASE StoreTid(a)
  <2>1. /\ pc[a] = "tid" /\ pc'[a] = "ino"
        /\ UNCHANGED <<size, ino, uid, mine, i, flag>>
    BY <1>0, <1>9 DEF StoreTid
  <2>2. IsNew(a)' = IsNew(a)
    BY <1>1, <2>1 DEF IsNew, File
  <2> QED BY <1>1, <2>1, <2>2 DEF Finding, TableAt, File
<1>12. CASE StoreName(a)
  <2>1. /\ pc[a] = "name" /\ pc'[a] = "size"
        /\ UNCHANGED <<size, ino, uid, mine, i, flag>>
    BY <1>0, <1>12 DEF StoreName
  <2> QED BY <1>1, <2>1 DEF Finding, TableAt, File
<1>10. CASE StoreIno(a)
  <2>1. /\ pc[a] = "ino" /\ pc'[a] = "name" /\ ino' = [ino EXCEPT ![i[a]] = File(a).ino]
        /\ UNCHANGED <<size, uid, mine, i, flag>> /\ i[a] \in Entries
    BY <1>0, <1>10 DEF StoreIno, AdderTypes
  <2>2. i[a] \in 0..AIOFILE /\ Entries \subseteq 0..AIOFILE
    BY <2>1 DEF Entries
  <2>3. /\ ino'[i[a]] = File(a).ino
        /\ \A e \in Entries : e < size \/ e # i[a] => ino'[e] = ino[e]
    BY <1>0, <1>1, <2>1, <2>2 DEF Finding
  <2>4. /\ flag[a] => i[a] = size
        /\ i[a] = size /\ ~flag[a] => File(a).ino = Fresh
    <3>1. flag[a] <=> i[a] = size /\ ino[i[a]] # File(a).ino
      BY <1>1, <2>1 DEF Finding, IsNew
    <3>2. i[a] = size => ino[i[a]] = Fresh
      BY <1>0, <2>1 DEF TableAt
    <3> QED BY <3>1, <3>2
  <2>5. Finding(a)'
    <3>1. \A e \in Entries : e < i[a] => ino'[e] = ino[e]
      BY <1>0, <2>1, <2>3
    <3> QED BY <1>1, <2>1, <2>3, <2>4, <3>1 DEF Finding, File
  <2>6. TableAt(a)'
    BY <1>1, <2>1, <2>3 DEF TableAt
  <2> QED BY <2>5, <2>6
<1>11. CASE SetSize(a)
  <2>1. /\ pc[a] = "size" /\ pc'[a] = "idle" /\ UNCHANGED <<ino, uid>> /\ i[a] \in Entries
        /\ size' = IF flag[a] THEN i[a] + 1 ELSE size
    BY <1>0, <1>11 DEF SetSize, Return, AdderTypes
  <2>2. ino[i[a]] = File(a).ino /\ uid[i[a]] = NAdds
    BY <1>2, <1>3, <2>1 DEF AloneAt, StoredBy
  <2>3. /\ i[a] < size \/ i[a] = size
        /\ flag[a] => i[a] = size
        /\ i[a] = size /\ ~flag[a] => File(a).ino = Fresh
    BY <1>0, <1>1, <1>2, <2>1 DEF Finding
  <2>4. \A e \in Entries : e < size' => e < size \/ (e = i[a] /\ i[a] = size)
    BY <1>0, <2>1, <2>3
  <2>5. \A e \in Entries : e < size => e < size' /\ ~(e = size)
    BY <1>0, <2>1, <2>3
  <2>6. \A e \in Entries : e >= size' => ino[e] = Fresh
    BY <1>0, <2>1, <2>2, <2>3 DEF TableAt
  <2>7. \A e, d \in Entries : e < size' /\ d < size' /\ ino[e] = ino[d] => e = d
    <3>1. i[a] = size => \A e \in Entries : e < size => ino[e] # ino[i[a]]
      BY <1>1, <2>2 DEF Finding
    <3> QED BY <2>4, <3>1 DEF TableAt
  <2>8. ASSUME NEW e \in Entries, NEW j \in 1..NAdds, e < size', uid[e] < j,
               added[j].ino = ino[e]
        PROVE  FALSE
    <3>1. CASE e < size
      <4>1. uid[e] \in Nat /\ j \in Nat
        BY <1>0
      <4>2. pc[a] \in {"scan", "flag", "full", "uid"}
        BY <2>8, <3>1 DEF TableAt
      <4> QED BY <2>1, <4>2
    <3>2. CASE e = i[a]
      BY <1>0, <2>2, <2>8, <3>2
    <3> QED BY <2>4, <2>8, <3>1, <3>2
  <2>9. ASSUME NEW k \in 1..NAdds, added[k].ino # Fresh
        PROVE  \E e \in Entries : e < size' /\ ino[e] = added[k].ino
    <3>1. CASE k = mine[a]
      <4>1. i[a] < size'
        BY <1>0, <2>1, <2>3, <2>9, <3>1 DEF File
      <4> QED BY <2>1, <2>2, <3>1, <4>1 DEF File
    <3>2. CASE k # mine[a]
      BY <2>5, <2>9, <3>2 DEF TableAt
    <3> QED BY <3>1, <3>2
  <2>10. TableAt(a)'
    BY <1>1, <2>1, <2>6, <2>7, <2>8, <2>9 DEF TableAt
  <2> QED BY <2>1, <2>10 DEF Finding
<1> QED BY <1>4, <1>5, <1>6, <1>7, <1>8, <1>9, <1>10, <1>11, <1>12 DEF AdderStep

\* Another call starts while nobody is inside.
LEMMA AddFinds ==
    ASSUME FileInv, NEW a \in Adders, NEW f \in Files, Add(a, f), Clear, TableAt(a)
    PROVE  Finding(a)' /\ TableAt(a)'
<1>0. /\ pc \in [Adders -> AdderPcs] /\ mine \in [Adders -> 0..NAdds] /\ added \in Seq(Files)
      /\ NAdds \in Nat /\ size \in Nat /\ \A e \in Entries : e \in Nat /\ uid[e] \in Nat
  BY Numbers DEF FileInv, TypeOK, TableTypes, AdderTypes, Entries, Owners
<1>1. /\ pc[a] = "idle" /\ pc'[a] = "scan" /\ mine'[a] = NAdds + 1 /\ i' = i
      /\ added' = Append(added, f) /\ UNCHANGED tabVars
  BY <1>0 DEF Add, Goto
<1>2. NAdds' = NAdds + 1 /\ \A k \in 1..NAdds : added'[k] = added[k]
  BY <1>0, <1>1 DEF NAdds
<1>3. i[a] = 0
  BY <1>1 DEF FileInv, Clear, Alone, IndexOf
<1>4. Finding(a)'
  BY <1>0, <1>1, <1>2, <1>3 DEF Finding, tabVars
<1>5. \A j \in 1..NAdds' : j \in 1..NAdds \/ j = mine'[a]
  BY <1>0, <1>1, <1>2
<1>6. TableAt(a)'
  <2>1. UNCHANGED <<size, ino, uid>>
    BY <1>1 DEF tabVars
  <2>2. \A e \in Entries, j \in 1..NAdds' :
           e < size /\ uid[e] < j /\ added'[j].ino = ino[e] => j = mine'[a]
    BY <1>1, <1>2, <1>5 DEF TableAt
  <2>3. \A k \in 1..NAdds' : \/ added'[k].ino = Fresh
                             \/ \E e \in Entries : e < size /\ ino[e] = added'[k].ino
                             \/ k = mine'[a]
    <3>1. \A k \in 1..NAdds : \/ added[k].ino = Fresh
                              \/ \E e \in Entries : e < size /\ ino[e] = added[k].ino
      BY <1>1 DEF TableAt
    <3>2. ASSUME NEW k \in 1..NAdds', k # mine'[a]
          PROVE  \/ added'[k].ino = Fresh
                 \/ \E e \in Entries : e < size /\ ino[e] = added'[k].ino
      <4>1. k \in 1..NAdds /\ added'[k] = added[k]
        BY <1>2, <1>5, <3>2
      <4> QED BY <3>1, <4>1
    <3> QED BY <3>2
  <2> QED BY <1>1, <2>1, <2>2, <2>3 DEF TableAt
<1> QED BY <1>4, <1>6

LEMMA FoundStep == FileInv /\ FoundInv /\ [Next]_vars => FoundInv'
<1> SUFFICES ASSUME FileInv, FoundInv, [Next]_vars PROVE FoundInv'
  OBVIOUS
<1>0. TypeOK /\ AdderTypes /\ overlaps \in Nat /\ NAdds \in Nat
  BY Numbers DEF FileInv, TypeOK, AdderTypes
<1>1. ASSUME NEW a \in Adders, AdderStep(a), ~past PROVE FoundInv'
  <2>1. UNCHANGED <<added, overlaps>> /\ (evicted => evicted') /\ pc[a] # "idle"
    BY <1>0, <1>1 DEF AdderStep, Scan, Flag, Full, NextVictim, WrapVictim, StoreUid, StoreTid,
                StoreIno, StoreName, SetSize, AdderTypes
  <2>2. SUFFICES ASSUME Clear', NEW b \in Adders, \A c \in Adders \ {b} : pc'[c] = "idle"
                 PROVE  Finding(b)' /\ TableAt(b)'
    BY <1>1, <2>1 DEF FoundInv
  <2>3. Clear
    BY <1>1, <2>1, <2>2 DEF Clear, NamesAreClear, NAdds
  <2>4. \A c \in Adders \ {a} : pc[c] = "idle" /\ pc'[c] = "idle"
    BY <1>1, <2>3, OthersAreIdle DEF Clear
  <2>5. Finding(a)' /\ TableAt(a)'
    BY <1>1, <2>2, <2>3, <2>4, FindStep DEF FoundInv
  <2>6. CASE b # a
    <3>1. pc'[a] = "idle" /\ pc'[b] = "idle"
      BY <2>2, <2>4, <2>6
    <3> QED BY <2>5, <3>1 DEF Finding, TableAt
  <2> QED BY <2>5, <2>6
<1>2. ASSUME NEW a \in Adders, NEW f \in Files, Add(a, f) PROVE FoundInv'
  <2>1. SUFFICES ASSUME Clear', NEW b \in Adders, \A c \in Adders \ {b} : pc'[c] = "idle"
                 PROVE  Finding(b)' /\ TableAt(b)'
    BY DEF FoundInv
  <2>2. /\ pc'[a] = "scan" /\ added' = Append(added, f) /\ UNCHANGED <<evicted, past>>
        /\ overlaps = 0 /\ Inside = {}
    BY <1>0, <1>2, <2>1 DEF Add, Goto, AdderTypes, Clear
  <2>3. b = a
    BY <2>1, <2>2
  <2>4. NAdds' = NAdds + 1 /\ \A k \in 1..NAdds : added'[k] = added[k]
    BY <1>0, <2>2 DEF AdderTypes, NAdds
  <2>5. NamesAreClear
    <3>1. 1..NAdds \subseteq 1..NAdds'
      BY <1>0, <2>4
    <3> QED BY <2>1, <2>4, <3>1 DEF Clear, NamesAreClear
  <2>6. Clear
    BY <2>1, <2>2, <2>5 DEF Clear
  <2>7. TableAt(a)
    BY <2>2, <2>6 DEF FoundInv, Inside
  <2> QED BY <1>2, <2>3, <2>6, <2>7, AddFinds
<1>3. ASSUME NEW r \in Readers, ReaderStep(r) \/ \E n \in Inos : Ask(r, n) PROVE FoundInv'
  <2>1. UNCHANGED <<tabVars, addVars, added, past, overlaps, evicted>>
    BY <1>3 DEF ReaderStep, Look, ReadUid, ReadTid, Logged, Ask
  <2> QED BY <2>1 DEF FoundInv, Clear, NamesAreClear, Finding, TableAt, IsNew, File, NAdds,
             tabVars, addVars
<1>4. CASE UNCHANGED vars
  BY <1>4 DEF FoundInv, Clear, NamesAreClear, Finding, TableAt, IsNew, File, NAdds, vars,
              tabVars, addVars
<1> QED BY <1>1, <1>2, <1>3, <1>4 DEF Next

LEMMA FoundHolds == Spec => []FoundInv
<1>1. Init => FoundInv
  <2> SUFFICES ASSUME Init PROVE FoundInv
    OBVIOUS
  <2>1. NAdds = 0 /\ size = 0 /\ \A a \in Adders : pc[a] = "idle"
    BY DEF Init, NAdds
  <2>2. \A e \in Entries : e \in Nat /\ ino[e] = Fresh
    BY Numbers DEF Init, Entries
  <2> QED BY <2>1, <2>2 DEF FoundInv, Finding, TableAt
<1> QED BY <1>1, FoundStep, FileInvHolds, PTL DEF Spec

\* Until the table was full or calls overlapped, get_file_info finds every
\* file that was added, with the owner that used it last.
THEOREM FoundLatest == Spec => []FoundIsLatest
<1>1. FileInv /\ FoundInv => FoundIsLatest
  <2> SUFFICES ASSUME FileInv, FoundInv, Clear, Inside = {}, NEW k \in 1..NAdds,
                      added[k].ino # Fresh
               PROVE  /\ Hits(added[k].ino) # {}
                      /\ uid[FirstOf(Hits(added[k].ino))] = Latest(added[k].ino)
    BY DEF FoundIsLatest, Clear
  <2> DEFINE n == added[k].ino
  <2>1. NAdds \in Nat /\ \A e \in Entries : e \in Nat /\ uid[e] \in Nat
    BY Numbers DEF FileInv, TypeOK, TableTypes, AdderTypes, Entries, Owners
  <2>2. PICK a \in Adders : TRUE
    BY <2>1 DEF FoundInv
  <2>3. TableAt(a) /\ pc[a] = "idle"
    BY DEF FoundInv, Inside
  <2>4. PICK e \in Entries : e < size /\ ino[e] = n
    BY <2>3 DEF TableAt
  <2>5. Hits(n) = {e}
    BY <2>3, <2>4 DEF Hits, TableAt
  <2>6. FirstOf(Hits(n)) = e
    BY <2>1, <2>5 DEF FirstOf
  <2>7. Whole(e)
    BY <2>4 DEF FileInv, Clear, Alone, Untouched
  <2>8. uid[e] \in 1..NAdds /\ added[uid[e]].ino = n
    BY <2>1, <2>4, <2>7 DEF FileInv, Whole, None
  <2>9. \A j \in 1..NAdds : uid[e] < j => added[j].ino # n
    BY <2>3, <2>4 DEF TableAt
  <2>10. \A l \in 1..NAdds :
            added[l].ino = n /\ (\A m \in l+1..NAdds : added[m].ino # n) => l = uid[e]
    BY <2>1, <2>8, <2>9
  <2>11. Latest(n) = uid[e]
    BY <2>1, <2>8, <2>9, <2>10 DEF Latest
  <2> QED BY <2>5, <2>6, <2>11
<1> QED BY <1>1, FileInvHolds, FoundHolds, PTL
=============================================================================
