---------------------------- MODULE RequestTimes ----------------------------
(***************************************************************************)
(* The start times of NVMe requests (drivers/block/nvme-core.c).  A        *)
(* request's start is noted when it is given to the device (add_rq_start)  *)
(* in one list of RQMAX entries, a sector and a time each, and looked up   *)
(* by its sector when the device is done (get_rq_start), to be logged by   *)
(* set_nvme_log.  Each hardware queue works under a lock of its own; the   *)
(* list is shared by all of them.  A step is one access to a shared word,  *)
(* which the compiler may keep in a register between two accesses of one   *)
(* call, or one turn of the search.  A time is the number of the           *)
(* submission whose clock reading it is.                                   *)
(***************************************************************************)
EXTENDS Integers, Sequences, FiniteSets

CONSTANTS
    Queues,     \* hardware queues
    Requests,   \* what may be asked for: a first sector, and whether it is a
                \* discard or flush
    RQMAX,      \* entries of the list (50 in the code)
    MaxSubmits, \* BOUND: submissions, repeated ones included
    MaxOverlaps, \* BOUND: submissions that start during another queue's
    DeviceMayFail \* can the device fail a request so that it is repeated

ASSUME RequestAssumption ==
    /\ Requests \subseteq [lba : Nat, discard : BOOLEAN]
    /\ RQMAX \in Nat \ {0} /\ MaxSubmits \in Nat
    /\ MaxOverlaps \in Nat
    /\ DeviceMayFail \in BOOLEAN

VARIABLES
    rq_num, rq_max, \* next entry, entries in use
    lba, start,     \* the list: sector and time of each entry
    rq_prev,        \* time of the last submission, whatever its queue
    pc, cur,        \* per queue: place, submission at hand
    arg, reg, i,    \* per queue: rq_time as passed, a loaded word, the index
    subs,           \* history: all submissions, in the order of their clock
    flight, again,  \* submissions the device has; that are to be repeated
    logged, endAt,  \* per submission: the start logged (0: none yet), and
                    \* how many submissions there were by then
    past,           \* an index past the list was used
    overlaps,       \* history: times the clock was read into rq_prev during
                    \* another queue's add_rq_start
    raced           \* history: submissions whose search overlapped one

listVars == <<rq_num, rq_max, lba, start>>
locVars  == <<pc, cur, arg, reg, i>>
logVars  == <<flight, again, logged, endAt>>
histVars == <<past, overlaps, raced>>
vars == <<listVars, rq_prev, locVars, subs, logVars, histVars>>

Slots == 0 .. RQMAX - 1
Ids   == 1 .. MaxSubmits
None  == 0
Lbas  == {r.lba : r \in Requests}
Request == [queue : Queues, lba : Lbas, discard : BOOLEAN]
AddPcs  == {"pass", "lba", "time", "load", "store", "test", "wrap", "max", "grow"}
FindPcs == {"find", "take", "miss"}
Adding  == {q \in Queues : pc[q] \in AddPcs}
Finding == {q \in Queues : pc[q] \in FindPcs}

Goto(q, place) == pc' = [pc EXCEPT ![q] = place]

\* A shared word as loaded before, or loaded again.
Reload(q, word) == {reg[q], word}

-----------------------------------------------------------------------------
Init ==
    /\ rq_num = 0 /\ rq_max = 0
    /\ lba = [s \in Slots |-> 0] /\ start = [s \in Slots |-> None]
    /\ rq_prev = None
    /\ pc = [q \in Queues |-> "idle"] /\ cur = [q \in Queues |-> None]
    /\ arg = [q \in Queues |-> None] /\ reg = [q \in Queues |-> 0]
    /\ i = [q \in Queues |-> 0]
    /\ subs = <<>> /\ flight = {} /\ again = {}
    /\ logged = [n \in Ids |-> None] /\ endAt = [n \in Ids |-> 0]
    /\ past = FALSE /\ overlaps = 0 /\ raced = {}

-----------------------------------------------------------------------------
(* nvme_queue_rq, under the lock of the queue                              *)

\* Discards and flushes (discard stands for both) are submitted without being
\* noted and leave rq_prev alone; what starts at sector 0 only sets rq_prev.  A
\* request without a bio does that too and is never looked up: here it is one
\* at sector 0 that is never finished.
Stamped(r) == ~r.discard /\ r.lba > 0

\* The clock is read into rq_prev; then add_rq_start is called.
Issue(q, r) ==
    LET n == Len(subs) + 1 IN
    /\ pc[q] = "idle" /\ n <= MaxSubmits
    /\ subs' = Append(subs, r)
    /\ rq_prev' = IF r.discard THEN rq_prev ELSE n
    /\ overlaps' = IF ~r.discard /\ Adding # {} THEN overlaps + 1 ELSE overlaps
    /\ overlaps' <= MaxOverlaps
    /\ IF Stamped(r)
       THEN /\ Goto(q, "pass") /\ cur' = [cur EXCEPT ![q] = n]
            /\ raced' = raced \cup {cur[p] : p \in Finding}
            /\ UNCHANGED flight
       ELSE /\ flight' = flight \cup {n}
            /\ UNCHANGED <<pc, cur, raced>>
    /\ UNCHANGED <<listVars, arg, reg, i, logged, endAt, past>>

QueueRq(q) ==
    \E r \in Requests :
        Issue(q, [queue |-> q, lba |-> r.lba, discard |-> r.discard]) /\ UNCHANGED again

\* req_completion had it requeued: it is issued once more.
Retry(q) ==
    \E n \in again :
        /\ subs[n].queue = q
        /\ Issue(q, subs[n])
        /\ again' = again \ {n}

\* rq_prev is passed by value.
Pass(q) ==
    /\ pc[q] = "pass"
    /\ arg' = [arg EXCEPT ![q] = rq_prev]
    /\ Goto(q, "lba")
    /\ UNCHANGED <<listVars, rq_prev, cur, reg, i, subs, logVars, histVars>>

StoreLba(q) ==
    /\ pc[q] = "lba"
    /\ reg' = [reg EXCEPT ![q] = rq_num]
    /\ lba' = IF rq_num \in Slots THEN [lba EXCEPT ![rq_num] = subs[cur[q]].lba] ELSE lba
    /\ past' = (rq_num \notin Slots)
    /\ Goto(q, "time")
    /\ UNCHANGED <<rq_num, rq_max, start, rq_prev, cur, arg, i, subs, logVars,
                   overlaps, raced>>

StoreTime(q) ==
    /\ pc[q] = "time"
    /\ \E n \in Reload(q, rq_num) :
          /\ reg' = [reg EXCEPT ![q] = n]
          /\ start' = IF n \in Slots THEN [start EXCEPT ![n] = arg[q]] ELSE start
          /\ past' = (n \notin Slots)
    /\ Goto(q, "load")
    /\ UNCHANGED <<rq_num, rq_max, lba, rq_prev, cur, arg, i, subs, logVars,
                   overlaps, raced>>

LoadNum(q) ==
    /\ pc[q] = "load"
    /\ \E n \in Reload(q, rq_num) : reg' = [reg EXCEPT ![q] = n]
    /\ Goto(q, "store")
    /\ UNCHANGED <<listVars, rq_prev, cur, arg, i, subs, logVars, histVars>>

StoreNum(q) ==
    /\ pc[q] = "store"
    /\ rq_num' = reg[q] + 1
    /\ reg' = [reg EXCEPT ![q] = @ + 1]
    /\ Goto(q, "test")
    /\ UNCHANGED <<rq_max, lba, start, rq_prev, cur, arg, i, subs, logVars, histVars>>

\* Mutant: the list wraps one entry late.
TestNumLate(q) ==
    /\ pc[q] = "test"
    /\ \E n \in Reload(q, rq_num) : Goto(q, IF n = RQMAX + 1 THEN "wrap" ELSE "max")
    /\ UNCHANGED <<listVars, rq_prev, cur, arg, reg, i, subs, logVars, histVars>>

\* An equality, so that an index beyond RQMAX is never put back.
TestNum(q) ==
    /\ pc[q] = "test"
    /\ \E n \in Reload(q, rq_num) : Goto(q, IF n = RQMAX THEN "wrap" ELSE "max")
    /\ UNCHANGED <<listVars, rq_prev, cur, arg, reg, i, subs, logVars, histVars>>

\* Mutant: the index goes back to the second entry.
WrapNumOne(q) ==
    /\ pc[q] = "wrap"
    /\ rq_num' = 1
    /\ Goto(q, "max")
    /\ UNCHANGED <<rq_max, lba, start, rq_prev, cur, arg, reg, i, subs, logVars, histVars>>

WrapNum(q) ==
    /\ pc[q] = "wrap"
    /\ rq_num' = 0
    /\ Goto(q, "max")
    /\ UNCHANGED <<rq_max, lba, start, rq_prev, cur, arg, reg, i, subs, logVars, histVars>>

\* add_rq_start returns, and the doorbell gives the request to the device.
Ring(q) ==
    /\ Goto(q, "idle") /\ cur' = [cur EXCEPT ![q] = None]
    /\ arg' = [arg EXCEPT ![q] = None] /\ reg' = [reg EXCEPT ![q] = 0]
    /\ flight' = flight \cup {cur[q]}

TestMax(q) ==
    /\ pc[q] = "max"
    /\ IF rq_max < RQMAX
       THEN /\ reg' = [reg EXCEPT ![q] = rq_max]
            /\ Goto(q, "grow")
            /\ UNCHANGED <<cur, arg, flight>>
       ELSE Ring(q)
    /\ UNCHANGED <<listVars, rq_prev, i, subs, again, logged, endAt, histVars>>

GrowMax(q) ==
    /\ pc[q] = "grow"
    /\ \E n \in Reload(q, rq_max) : rq_max' = n + 1
    /\ Ring(q)
    /\ UNCHANGED <<rq_num, lba, start, rq_prev, i, subs, again, logged, endAt, histVars>>

-----------------------------------------------------------------------------
(* nvme_finish_cmd, under the same lock                                    *)

\* The device is done with a request, whether it succeeded or not.
Finish(q) ==
    /\ pc[q] = "idle"
    /\ \E n \in flight :
          /\ subs[n].queue = q
          /\ cur' = [cur EXCEPT ![q] = n]
          /\ raced' = IF Adding # {} THEN raced \cup {n} ELSE raced
    /\ i' = [i EXCEPT ![q] = 0]
    /\ Goto(q, "find")
    /\ UNCHANGED <<listVars, rq_prev, arg, reg, subs, logVars, past, overlaps>>

\* Mutant: the last entry is not looked at.
FindShort(q) ==
    /\ pc[q] = "find"
    /\ past' = (i[q] < rq_max /\ i[q] \notin Slots)
    /\ IF i[q] + 1 >= rq_max THEN Goto(q, "miss") /\ UNCHANGED i
       ELSE IF i[q] \in Slots /\ lba[i[q]] = subs[cur[q]].lba THEN Goto(q, "take") /\ UNCHANGED i
       ELSE i' = [i EXCEPT ![q] = @ + 1] /\ UNCHANGED pc
    /\ UNCHANGED <<listVars, rq_prev, cur, arg, reg, subs, logVars, overlaps, raced>>

\* get_rq_start: the first entry with the sector, not the latest.
Find(q) ==
    /\ pc[q] = "find"
    /\ past' = (i[q] < rq_max /\ i[q] \notin Slots)
    /\ IF i[q] >= rq_max THEN Goto(q, "miss") /\ UNCHANGED i
       ELSE IF i[q] \in Slots /\ lba[i[q]] = subs[cur[q]].lba THEN Goto(q, "take") /\ UNCHANGED i
       ELSE i' = [i EXCEPT ![q] = @ + 1] /\ UNCHANGED pc
    /\ UNCHANGED <<listVars, rq_prev, cur, arg, reg, subs, logVars, overlaps, raced>>

\* set_nvme_log with start s; req_completion may have the request repeated.
Log(q, s) ==
    /\ logged' = [logged EXCEPT ![cur[q]] = s]
    /\ endAt' = [endAt EXCEPT ![cur[q]] = Len(subs)]
    /\ flight' = flight \ {cur[q]}
    /\ again' \in {again} \cup (IF DeviceMayFail THEN {again \cup {cur[q]}} ELSE {})
    /\ Goto(q, "idle") /\ cur' = [cur EXCEPT ![q] = None]
    /\ i' = [i EXCEPT ![q] = 0]
    /\ UNCHANGED <<listVars, rq_prev, arg, reg, subs, histVars>>

Take(q) == pc[q] = "take" /\ Log(q, start[i[q]])

\* Mutant: the time get_rq_start leaves behind when it finds nothing.
MissFirst(q) == pc[q] = "miss" /\ Log(q, start[0])

\* Nothing found: the time of the last submission stands in.
Miss(q) == pc[q] = "miss" /\ Log(q, rq_prev)

AddStep(q) ==
    \/ Pass(q) \/ StoreLba(q) \/ StoreTime(q) \/ LoadNum(q) \/ StoreNum(q)
    \/ TestNum(q) \/ WrapNum(q) \/ TestMax(q) \/ GrowMax(q)
FindStep(q) == Find(q) \/ Take(q) \/ Miss(q)

Next ==
    /\ ~past
    /\ \E q \in Queues : QueueRq(q) \/ Retry(q) \/ AddStep(q) \/ Finish(q) \/ FindStep(q)

Spec == Init /\ [][Next]_vars
-----------------------------------------------------------------------------
ListTypes ==
    /\ rq_num \in Nat /\ rq_max \in Nat /\ rq_prev \in 0..Len(subs)
    /\ lba \in [Slots -> Lbas \cup {0}] /\ start \in [Slots -> 0..Len(subs)]
    /\ past \in BOOLEAN /\ overlaps \in 0..MaxOverlaps

LocalTypes ==
    /\ pc \in [Queues -> {"idle"} \cup AddPcs \cup FindPcs]
    /\ cur \in [Queues -> 0..Len(subs)] /\ arg \in [Queues -> 0..Len(subs)]
    /\ reg \in [Queues -> Nat] /\ i \in [Queues -> Nat]
    /\ \A q \in Queues : pc[q] # "idle" => cur[q] # None
    /\ \A q \in Queues : pc[q] = "take" => i[q] \in Slots

LogTypes ==
    /\ flight \subseteq 1..Len(subs) /\ again \subseteq 1..Len(subs)
    /\ raced \subseteq 1..Len(subs)
    /\ logged \in [Ids -> 0..Len(subs)] /\ endAt \in [Ids -> 0..Len(subs)]

TypeOK ==
    /\ subs \in Seq(Request) /\ Len(subs) <= MaxSubmits
    /\ ListTypes /\ LocalTypes /\ LogTypes

\* An index past the list takes two queues in add_rq_start at once: each is
\* locked, the list is not.
OverrunNeedsOverlap == past => overlaps > 0

Subs == 1 .. Len(subs)
StampedBy(n, m) == {k \in n..m : Stamped(subs[k])}

\* If no two calls of add_rq_start overlapped, the list holds the latest RQMAX
\* submissions that are noted, each time with its sector, and nothing else.
ListIsTheLatest ==
    overlaps = 0 /\ Adding = {} =>
        LET used == {s \in Slots : s < rq_max}
            all  == StampedBy(1, Len(subs))
        IN  /\ {start[s] : s \in used} =
                   {n \in all : Cardinality(StampedBy(n, Len(subs))) <= RQMAX}
            /\ \A s \in used : lba[s] = subs[start[s]].lba

\* The logged starts that no race touched.
Clean == IF overlaps > 0 THEN {} ELSE {n \in Subs \ raced : logged[n] # None}

\* A start that is not the request's own has one of three reasons: the request
\* was never noted, another one has the same sector (a repetition of the same
\* request, say), or RQMAX others came before it was done.
WrongStartHasReason ==
    \A n \in Clean :
        \/ logged[n] = n
        \/ ~Stamped(subs[n])
        \/ \E m \in StampedBy(1, endAt[n]) : m # n /\ subs[m].lba = subs[n].lba
        \/ Cardinality(StampedBy(n + 1, endAt[n])) >= RQMAX

\* A start taken from another request is of its sector, or the latest one.
BorrowedStartIsNear ==
    \A n \in Clean :
        \/ subs[logged[n]].lba = subs[n].lba
        \/ \A m \in logged[n] + 1 .. endAt[n] : subs[m].discard
=============================================================================
