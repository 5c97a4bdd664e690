------------------------------ MODULE FileInfo ------------------------------
(***************************************************************************)
(* The file information table of fs/read_write.c: who last read or wrote   *)
(* a file.  The read and write hooks add entries before they claim their   *)
(* log (add_aiopro_finfo); the page cache, block and SCSI hooks look the   *)
(* owner of an inode up (get_file_info) and then read its fields one by    *)
(* one.  Nothing orders any of them, so a step is one turn of a loop or    *)
(* one access to a shared word.  An owner (uid, pid and tid) is the number *)
(* of the call that added it; the entry keeps the first and the last of    *)
(* the three fields.  What happens after a store past the array is not     *)
(* modelled: the kernel's own pointers lie behind it.                      *)
(***************************************************************************)
EXTENDS Integers, Sequences, FiniteSets

CONSTANTS
    Adders,     \* tasks in a read or write hook
    Readers,    \* tasks in a hook of a lower layer
    Files,      \* what is read and written: an inode under a name
    AIOFILE,    \* entries of the table (1000 in the code)
    Fresh,      \* the inode number of an entry never used (7 in the code)
    Strays,     \* what may be in the word behind the array of inodes
    MaxAdds,    \* BOUND: calls of add_aiopro_finfo
    MaxOverlaps, \* BOUND: of these, that start while another one runs
    MaxReads    \* BOUND: calls of get_file_info

ASSUME FileAssumption ==
    /\ IsFiniteSet(Adders) /\ IsFiniteSet(Readers)
    /\ Files \subseteq [ino : Nat, name : STRING]
    /\ AIOFILE \in Nat \ {0} /\ Fresh \in Nat /\ Strays \subseteq Nat
    /\ MaxAdds \in Nat /\ MaxOverlaps \in Nat /\ MaxReads \in Nat

VARIABLES
    size,       \* file_info->size: entries in use
    last_finfo, \* the entry to be replaced next when the table is full
    ino,        \* per entry, and one word beyond: the inode
    name, uid, tid, \* per entry: the file's name, two fields of its owner
    pc, mine, i, flag, \* adders: place, call, index, new entry
    rpc, asked, ri, got, \* readers: place, inode, index, owner's fields
    added,      \* history: the file of every call of add_aiopro_finfo
    nreads,     \* calls of get_file_info so far
    past,       \* a store went past the array
    overlaps,   \* history: calls of add_aiopro_finfo that began during another
    evicted,    \* history: the table was full when a call looked
    rraced      \* history: readers that overlapped an adder

tabVars == <<size, last_finfo, ino, name, uid, tid>>
addVars == <<pc, mine, i, flag>>
rdVars  == <<rpc, asked, ri, got>>
vars == <<tabVars, addVars, rdVars, added, nreads, past, overlaps, evicted, rraced>>

Inos    == {f.ino : f \in Files}
Names   == {f.name : f \in Files}
Entries == 0 .. AIOFILE - 1
None    == 0    \* no owner
NoName  == ""
NoOwner == [uid |-> None, tid |-> None]
Owners  == 0 .. MaxAdds
NAdds   == Len(added)
File(a) == added[mine[a]]
Inside  == {a \in Adders : pc[a] # "idle"}
Looking == {r \in Readers : rpc[r] \in {"scan", "uid", "tid"}}

AdderPcs  == {"idle", "scan", "flag", "full", "next", "wrap", "uid", "tid", "ino", "name", "size"}
ReaderPcs == {"idle", "scan", "uid", "tid", "done"}

Goto(a, place)  == pc' = [pc EXCEPT ![a] = place]
Return(a) ==
    /\ Goto(a, "idle")
    /\ mine' = [mine EXCEPT ![a] = None]
    /\ i' = [i EXCEPT ![a] = 0] /\ flag' = [flag EXCEPT ![a] = FALSE]
RGoto(r, place) == rpc' = [rpc EXCEPT ![r] = place]

-----------------------------------------------------------------------------
Init ==
    /\ size = 0 /\ last_finfo = 0
    /\ \E stray \in Strays :
          ino = [e \in 0..AIOFILE |-> IF e = AIOFILE THEN stray ELSE Fresh]
    /\ name = [e \in Entries |-> NoName]
    /\ uid = [e \in Entries |-> None] /\ tid = [e \in Entries |-> None]
    /\ pc = [a \in Adders |-> "idle"] /\ mine = [a \in Adders |-> None]
    /\ i = [a \in Adders |-> 0] /\ flag = [a \in Adders |-> FALSE]
    /\ rpc = [r \in Readers |-> "idle"] /\ asked = [r \in Readers |-> Fresh]
    /\ ri = [r \in Readers |-> 0]
    /\ got = [r \in Readers |-> NoOwner]
    /\ added = <<>> /\ nreads = 0 /\ past = FALSE
    /\ overlaps = 0 /\ evicted = FALSE /\ rraced = {}

-----------------------------------------------------------------------------
(* add_aiopro_finfo                                                        *)

\* A call with a valid inode and a name; others return at once.
Add(a, f) ==
    /\ pc[a] = "idle" /\ NAdds < MaxAdds
    /\ mine' = [mine EXCEPT ![a] = NAdds + 1]
    /\ added' = Append(added, f)
    /\ overlaps' = IF Inside # {} THEN overlaps + 1 ELSE overlaps
    /\ overlaps' <= MaxOverlaps
    /\ rraced' = rraced \cup Looking
    /\ Goto(a, "scan")
    /\ UNCHANGED <<tabVars, i, flag, rdVars, nreads, past, evicted>>

\* Mutant: strcmp's result taken for "equal".
MatchesUnlike(a, e) == ino[e] = File(a).ino \/ (e \in Entries /\ name[e] # File(a).name)

\* The loop ends at an entry with the inode or the name.
Matches(a, e) == ino[e] = File(a).ino \/ (e \in Entries /\ name[e] = File(a).name)
Scan(a) ==
    /\ pc[a] = "scan"
    /\ IF i[a] < size /\ ~Matches(a, i[a])
       THEN i' = [i EXCEPT ![a] = @ + 1] /\ UNCHANGED pc
       ELSE Goto(a, "flag") /\ UNCHANGED i
    /\ UNCHANGED <<tabVars, mine, flag, rdVars, added, nreads, past, overlaps,
                   evicted, rraced>>

\* Nothing matched; but an entry behind the last that still has the inode, or
\* the value of an entry never used, does not make a new one.
IsNew(a) == i[a] = size /\ ino[i[a]] # File(a).ino
Flag(a) ==
    /\ pc[a] = "flag"
    /\ flag' = [flag EXCEPT ![a] = IsNew(a)]
    /\ Goto(a, "full")
    /\ UNCHANGED <<tabVars, mine, i, rdVars, added, nreads, past, overlaps,
                   evicted, rraced>>

\* Mutant: the table is full one entry late.
IsFullLate(a) == size > AIOFILE /\ ino[AIOFILE] # File(a).ino

\* A full table replaces last_finfo's entry, whatever the loop found.
IsFull(a) == size = AIOFILE /\ ino[AIOFILE] # File(a).ino
Full(a) ==
    /\ pc[a] = "full"
    /\ IF IsFull(a)
       THEN i' = [i EXCEPT ![a] = last_finfo] /\ evicted' = TRUE /\ Goto(a, "next")
       ELSE Goto(a, "uid") /\ UNCHANGED <<i, evicted>>
    /\ UNCHANGED <<tabVars, mine, flag, rdVars, added, nreads, past, overlaps,
                   rraced>>

NextVictim(a) ==
    /\ pc[a] = "next"
    /\ last_finfo' = i[a] + 1
    /\ Goto(a, IF i[a] + 1 > AIOFILE - 1 THEN "wrap" ELSE "uid")
    /\ UNCHANGED <<size, ino, name, uid, tid, mine, i, flag, rdVars, added, nreads, past,
                   overlaps, evicted, rraced>>

WrapVictim(a) ==
    /\ pc[a] = "wrap"
    /\ last_finfo' = 0
    /\ Goto(a, "uid")
    /\ UNCHANGED <<size, ino, name, uid, tid, mine, i, flag, rdVars, added, nreads, past,
                   overlaps, evicted, rraced>>

\* The owner's fields, then the inode and the name.  (A call with a negative id
\* returns here, after the replacement; no call of the model has one.)
StoreUid(a) ==
    /\ pc[a] = "uid"
    /\ past' = (i[a] \notin Entries)
    /\ uid' = IF i[a] \in Entries THEN [uid EXCEPT ![i[a]] = mine[a]] ELSE uid
    /\ Goto(a, "tid")
    /\ UNCHANGED <<size, last_finfo, ino, name, tid, mine, i, flag, rdVars, added, nreads,
                   overlaps, evicted, rraced>>

\* Mutant: an entry that is there keeps part of its owner.
StoreTidIfNew(a) ==
    /\ pc[a] = "tid"
    /\ tid' = IF flag[a] THEN [tid EXCEPT ![i[a]] = mine[a]] ELSE tid
    /\ Goto(a, "ino")
    /\ UNCHANGED <<size, last_finfo, ino, name, uid, mine, i, flag, rdVars, added, nreads,
                   past, overlaps, evicted, rraced>>

StoreTid(a) ==
    /\ pc[a] = "tid"
    /\ tid' = [tid EXCEPT ![i[a]] = mine[a]]
    /\ Goto(a, "ino")
    /\ UNCHANGED <<size, last_finfo, ino, name, uid, mine, i, flag, rdVars, added, nreads,
                   past, overlaps, evicted, rraced>>

StoreIno(a) ==
    /\ pc[a] = "ino"
    /\ ino' = [ino EXCEPT ![i[a]] = File(a).ino]
    /\ Goto(a, "name")
    /\ UNCHANGED <<size, last_finfo, name, uid, tid, mine, i, flag, rdVars, added, nreads,
                   past, overlaps, evicted, rraced>>

StoreName(a) ==
    /\ pc[a] = "name"
    /\ name' = [name EXCEPT ![i[a]] = File(a).name]
    /\ Goto(a, "size")
    /\ UNCHANGED <<size, last_finfo, ino, uid, tid, mine, i, flag, rdVars, added, nreads,
                   past, overlaps, evicted, rraced>>

\* Mutant: the size is the index of the new entry.
SetSizeShort(a) ==
    /\ pc[a] = "size"
    /\ size' = IF flag[a] THEN i[a] ELSE size
    /\ Return(a)
    /\ UNCHANGED <<last_finfo, ino, name, uid, tid, rdVars, added, nreads, past, overlaps,
                   evicted, rraced>>

\* A new entry becomes the last one, so that a full table shrinks to the
\* entries up to the one replaced.
SetSize(a) ==
    /\ pc[a] = "size"
    /\ size' = IF flag[a] THEN i[a] + 1 ELSE size
    /\ Return(a)
    /\ UNCHANGED <<last_finfo, ino, name, uid, tid, rdVars, added, nreads, past, overlaps,
                   evicted, rraced>>

AdderStep(a) ==
    \/ Scan(a) \/ Flag(a) \/ Full(a) \/ NextVictim(a) \/ WrapVictim(a)
    \/ StoreUid(a) \/ StoreTid(a) \/ StoreIno(a)
    \/ StoreName(a) \/ SetSize(a)

-----------------------------------------------------------------------------
(* get_file_info and the fields its callers read with the index            *)

Ask(r, n) ==
    /\ rpc[r] = "idle" /\ nreads < MaxReads
    /\ nreads' = nreads + 1
    /\ asked' = [asked EXCEPT ![r] = n]
    /\ rraced' = IF Inside # {} THEN rraced \cup {r} ELSE rraced
    /\ RGoto(r, "scan")
    /\ UNCHANGED <<tabVars, addVars, ri, got, added, past, overlaps, evicted>>

\* Mutant: what is not found is the first entry.
LookFirst(r) ==
    /\ rpc[r] = "scan"
    /\ IF ri[r] >= size
       THEN RGoto(r, "uid") /\ ri' = [ri EXCEPT ![r] = 0]
       ELSE IF ino[ri[r]] = asked[r]
            THEN RGoto(r, "uid") /\ UNCHANGED ri
            ELSE ri' = [ri EXCEPT ![r] = @ + 1] /\ UNCHANGED rpc
    /\ UNCHANGED <<tabVars, addVars, asked, got, added, nreads, past, overlaps,
                   evicted, rraced>>

\* 9999 of get_file_info stands for no owner.
Look(r) ==
    /\ rpc[r] = "scan"
    /\ IF ri[r] >= size
       THEN RGoto(r, "done") /\ UNCHANGED ri
       ELSE IF ino[ri[r]] = asked[r]
            THEN RGoto(r, "uid") /\ UNCHANGED ri
            ELSE ri' = [ri EXCEPT ![r] = @ + 1] /\ UNCHANGED rpc
    /\ UNCHANGED <<tabVars, addVars, asked, got, added, nreads, past, overlaps,
                   evicted, rraced>>

ReadUid(r) ==
    /\ rpc[r] = "uid"
    /\ got' = [got EXCEPT ![r].uid = uid[ri[r]]]
    /\ RGoto(r, "tid")
    /\ UNCHANGED <<tabVars, addVars, asked, ri, added, nreads, past, overlaps,
                   evicted, rraced>>

ReadTid(r) ==
    /\ rpc[r] = "tid"
    /\ got' = [got EXCEPT ![r].tid = tid[ri[r]]]
    /\ RGoto(r, "done")
    /\ UNCHANGED <<tabVars, addVars, asked, ri, added, nreads, past, overlaps,
                   evicted, rraced>>

Logged(r) ==
    /\ rpc[r] = "done"
    /\ RGoto(r, "idle")
    /\ asked' = [asked EXCEPT ![r] = Fresh] /\ ri' = [ri EXCEPT ![r] = 0]
    /\ got' = [got EXCEPT ![r] = NoOwner] /\ rraced' = rraced \ {r}
    /\ UNCHANGED <<tabVars, addVars, added, nreads, past, overlaps, evicted>>

ReaderStep(r) == Look(r) \/ ReadUid(r) \/ ReadTid(r) \/ Logged(r)

Next ==
    /\ ~past
    /\ \/ \E a \in Adders : AdderStep(a) \/ \E f \in Files : Add(a, f)
       \/ \E r \in Readers : ReaderStep(r) \/ \E n \in Inos : Ask(r, n)

Spec == Init /\ [][Next]_vars
-----------------------------------------------------------------------------
TableTypes ==
    /\ size \in 0..AIOFILE /\ last_finfo \in Nat
    /\ ino \in [0..AIOFILE -> Inos \cup {Fresh} \cup Strays]
    /\ name \in [Entries -> Names \cup {NoName}]
    /\ uid \in [Entries -> Owners] /\ tid \in [Entries -> Owners]

AdderTypes ==
    /\ pc \in [Adders -> AdderPcs]
    /\ added \in Seq(Files) /\ NAdds \in 0..MaxAdds
    /\ mine \in [Adders -> 0..NAdds]
    /\ \A a \in Adders : pc[a] # "idle" => mine[a] > 0
    /\ i \in [Adders -> Nat] /\ flag \in [Adders -> BOOLEAN]
    /\ \A a \in Adders : pc[a] \in {"idle", "scan", "flag"} => i[a] <= AIOFILE
    /\ \A a \in Adders : pc[a] \in {"tid", "ino", "name", "size"} => past \/ i[a] \in Entries
    /\ past \in BOOLEAN /\ overlaps \in 0..MaxOverlaps /\ evicted \in BOOLEAN

ReaderTypes ==
    /\ rpc \in [Readers -> ReaderPcs]
    /\ asked \in [Readers -> Inos \cup {Fresh}]
    /\ ri \in [Readers -> 0..AIOFILE]
    /\ \A r \in Readers : rpc[r] \in {"uid", "tid"} => ri[r] \in Entries
    /\ got \in [Readers -> [uid : Owners, tid : Owners]]
    /\ nreads \in 0..MaxReads /\ rraced \subseteq Readers

TypeOK == TableTypes /\ AdderTypes /\ ReaderTypes

\* A store past the table takes two calls of add_aiopro_finfo that overlap, or
\* the inode at hand in the word behind the array, which the code reads.
OverrunNeedsOverlap ==
    past => overlaps > 0 \/ \E a \in Inside : File(a).ino = ino[AIOFILE]

\* Entry e tells of one call: owner, inode and name.
Whole(e) ==
    /\ uid[e] = tid[e] /\ uid[e] # None
    /\ ino[e] = added[uid[e]].ino /\ name[e] = added[uid[e]].name

\* If no two calls of add_aiopro_finfo overlapped, every entry in use but the
\* one being written is whole, replaced or not.
EntriesAreWhole ==
    overlaps = 0 => \A e \in Entries :
        e < size /\ (\A a \in Inside : i[a] # e \/ pc[a] \in {"scan", "flag", "full"})
            => Whole(e)

\* A hook that overlapped no add_aiopro_finfo logs an owner of the file it
\* asked for, or none: index and fields belong together (set_bio_log).
OwnerIsOfTheFile ==
    overlaps = 0 /\ ~past => \A r \in Readers :
        rpc[r] = "done" /\ r \notin rraced /\ got[r] # NoOwner
            => got[r].uid = got[r].tid /\ added[got[r].uid].ino = asked[r]

\* The entry get_file_info finds for an inode, were it called now.
Hits(n)    == {e \in Entries : e < size /\ ino[e] = n}
FirstOf(S) == CHOOSE e \in S : \A d \in S : e <= d
Latest(n)  == CHOOSE k \in 1..NAdds : added[k].ino = n /\ \A m \in k+1..NAdds : added[m].ino # n

\* Names and inodes go together in all that was added.
NamesAreClear == \A k, m \in 1..NAdds : added[k].ino = added[m].ino <=> added[k].name = added[m].name

\* Until the table was full, and if no calls overlapped, every file added is
\* found, with the owner that used it last; all but the file whose inode has
\* the number of an unused entry.
FoundIsLatest ==
    overlaps = 0 /\ ~evicted /\ ~past /\ Inside = {} /\ NamesAreClear =>
        \A k \in 1..NAdds : added[k].ino # Fresh =>
            /\ Hits(added[k].ino) # {}
            /\ uid[FirstOf(Hits(added[k].ino))] = Latest(added[k].ino)

\* A file is forgotten only for a namesake or when the table was full.
KnownInos == {n \in Inos : Hits(n) # {}}
ForgetsNamesakesOrWhenFull ==
    [][ \/ overlaps' > 0 \/ KnownInos \subseteq KnownInos'
        \/ size = AIOFILE
        \/ \E a \in Adders : pc[a] = "ino" /\ name[i[a]] = File(a).name
      ]_vars
=============================================================================
