----------------------------- MODULE SlotTable -----------------------------
(***************************************************************************)
(* What the scheduler's slot table promises (kernel/src/sched.c), without  *)
(* the semaphore around it: sched_update and sched_delete rewrite an       *)
(* interval of slots of one hart at once, and a hart that looks for work   *)
(* sees all harts' entries for one slot at the same instant.               *)
(***************************************************************************)
EXTENDS Integers

CONSTANTS MinHart, MaxHart,   \* S3K_MIN_HART, S3K_MAX_HART
          SlotCnt,            \* S3K_SLOT_CNT
          LengthRange,        \* lengths are kept modulo this, 256
          Updates             \* the arguments sched_update is called with

VARIABLES table,     \* slots[hart][i]
          fetched    \* what the sched_fetch of each hart has found

vars == <<table, fetched>>

Harts == MinHart .. MaxHart
Slot == 0 .. SlotCnt - 1
NULL == -1
Nothing == [pid |-> NULL, slot |-> 0, end |-> 0]

Updated(t, u) ==
    [t EXCEPT ![u.hart] = [i \in Slot |->
        IF u.from <= i /\ i < u.to
        THEN [pid |-> u.pid, length |-> (u.end - i) % LengthRange]
        ELSE @[i]]]

Deleted(t, u) ==
    [t EXCEPT ![u.hart] = [i \in Slot |->
        IF u.from <= i /\ i < u.to THEN [pid |-> 0, length |-> 0] ELSE @[i]]]

\* Mutant of Defers: of two slices of the same length neither is served.
DefersOnTie(mine, other, h, i) ==
    mine.pid = other.pid /\ mine.length <= other.length

(***************************************************************************)
(* Hart h leaves slot s to hart i: both slices belong to the same process, *)
(* and the one of h is not longer (if i comes first) or shorter.           *)
(***************************************************************************)
Defers(mine, other, h, i) ==
    /\ mine.pid = other.pid
    /\ IF i < h THEN mine.length <= other.length
                ELSE mine.length < other.length

\* Mutant of Compared: the harts with a higher id are not looked at.
ComparedLower(h) == MinHart .. h - 1

\* The harts whose entries sched_fetch compares with its own: its second loop
\* stops before S3K_MAX_HART.
Compared(h) == (MinHart .. h - 1) \cup (h + 1 .. MaxHart - 1)

Claims(t, h, s) ==
    /\ t[h][s].length # 0
    /\ \A i \in Compared(h) : ~Defers(t[h][s], t[i][s], h, i)

Found(t, h, s) ==
    IF Claims(t, h, s) THEN [pid |-> t[h][s].pid, slot |-> s,
                             end |-> s + t[h][s].length]
    ELSE [pid |-> NULL, slot |-> s, end |-> s]

\* sched_init: process 0 has every slot of every hart.
Initial == [h \in Harts |-> [i \in Slot |->
               [pid |-> 0, length |-> (SlotCnt - i) % LengthRange]]]

Init == /\ table = Initial
        /\ fetched = [h \in Harts |-> Nothing]

Update(u) == table' \in {Updated(table, u), Deleted(table, u)}
             /\ UNCHANGED fetched

Fetch(h, s) == /\ fetched' = [fetched EXCEPT ![h] = Found(table, h, s)]
               /\ UNCHANGED table

Leave(h) == /\ fetched' = [fetched EXCEPT ![h] = Nothing]
            /\ UNCHANGED table

Next == \/ \E u \in Updates : Update(u)
        \/ \E h \in Harts : Leave(h) \/ \E s \in Slot : Fetch(h, s)

Spec == Init /\ [][Next]_vars
=============================================================================
