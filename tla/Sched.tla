------------------------------- MODULE Sched -------------------------------
(***************************************************************************)
(* The scheduler's slot table under its semaphore, kernel/src/sched.c.     *)
(*                                                                         *)
(* A hart without a process looks in the table for the slot that begins    *)
(* next (sched_fetch), holding one ticket of the semaphore and no other    *)
(* lock; a hart in a capability call rewrites an interval of slots entry by*)
(* entry (sched_update, sched_delete), holding the kernel lock and all the *)
(* tickets.  Every access to an entry is a step, so a reader and a writer  *)
(* that were inside together would be seen.                                *)
(***************************************************************************)
EXTENDS Semaphore

CONSTANTS MinHart, MaxHart,   \* S3K_MIN_HART, S3K_MAX_HART
          SlotCnt,            \* S3K_SLOT_CNT
          LengthRange,        \* lengths are kept modulo this, 256
          Updates             \* the arguments sched_update is called with

ASSUME HartAssumption ==
    /\ MinHart \in Nat /\ MaxHart \in Nat /\ MinHart <= MaxHart
    /\ Hart = MinHart .. MaxHart
    /\ Tickets = MaxHart - MinHart + 1

ASSUME SlotAssumption ==
    /\ SlotCnt \in Nat \ {0}
    /\ LengthRange \in Nat
    /\ SlotCnt < LengthRange
    /\ Updates \subseteq [pid : Nat, hart : Hart, from : 0 .. SlotCnt - 1,
                          to : 1 .. SlotCnt, end : 1 .. SlotCnt]

VARIABLES slots,     \* slots[hart][i], owner and remaining length
          job        \* what each hart does with the table

schedVars == <<slots, job>>
vars == <<semVars, schedVars>>

Slot == 0 .. SlotCnt - 1
NULL == -1
Nothing == [pid |-> NULL, slot |-> 0, end |-> 0]
Idle == [op |-> "idle"]
NoSlot == [pid |-> 0, length |-> 0]

SchedInit ==
    /\ SemInit
    /\ slots = [h \in Hart |-> [i \in Slot |->
                   [pid |-> 0, length |-> (SlotCnt - i) % LengthRange]]]
    /\ job = [h \in Hart |-> Idle]

-----------------------------------------------------------------------------
(* sched_update and sched_delete. *)
Writing(h) == job[h].op \in {"update", "delete"}

\* Mutant of BeginWrite: the writer takes one ticket, like a reader.
BeginWriteOneTicket(h, op, u) ==
    /\ job[h] = Idle
    /\ \A g \in Hart : ~Writing(g)
    /\ Acquire(h, 1)
    /\ job' = [job EXCEPT ![h] = [op |-> op, arg |-> u, i |-> u.from]]
    /\ UNCHANGED slots

\* The caller has the kernel lock.
BeginWrite(h, op, u) ==
    /\ job[h] = Idle
    /\ \A g \in Hart : ~Writing(g)
    /\ Acquire(h, Tickets)
    /\ job' = [job EXCEPT ![h] = [op |-> op, arg |-> u, i |-> u.from]]
    /\ UNCHANGED slots

Entry(op, u, i) ==
    IF op = "update" THEN [pid |-> u.pid, length |-> (u.end - i) % LengthRange]
    ELSE NoSlot

WriteSlot(h) ==
    LET j == job[h] IN
    /\ Writing(h) /\ phase[h] = "inside"
    /\ j.i < j.arg.to
    /\ slots' = [slots EXCEPT ![j.arg.hart][j.i] = Entry(j.op, j.arg, j.i)]
    /\ job' = [job EXCEPT ![h].i = @ + 1]
    /\ UNCHANGED semVars

EndWrite(h) ==
    /\ Writing(h)
    /\ job[h].i = job[h].arg.to
    /\ Release(h)
    /\ job' = [job EXCEPT ![h] = Idle]
    /\ UNCHANGED slots

-----------------------------------------------------------------------------
(* One turn of the loop in sched(). *)
BeginFetch(h, s) ==
    /\ job[h] = Idle
    /\ Acquire(h, 1)
    /\ job' = [job EXCEPT ![h] = [op |-> "fetch", slot |-> s]]
    /\ UNCHANGED slots

Reading(h) == job[h].op = "fetch" /\ phase[h] = "inside"

\* sched_fetch returns: the process to acquire, or NULL, and the slot where its
\* time ends.
Return(h, pid, s, length) ==
    job' = [job EXCEPT ![h] = [op |-> "done", pid |-> pid, slot |-> s,
                               end |-> s + length]]

\* slot_info_get of the own entry.
ReadOwn(h) ==
    LET s == job[h].slot
        si == slots[h][s] IN
    /\ Reading(h) /\ "si" \notin DOMAIN job[h]
    /\ \/ /\ si.length = 0
          /\ Return(h, NULL, s, 0)
       \/ /\ si.length # 0
          /\ job' = [job EXCEPT ![h] = [op |-> "fetch", slot |-> s, si |-> si,
                                        i |-> MinHart]]
    /\ UNCHANGED <<semVars, slots>>

Defers(mine, other, h, i) ==
    /\ mine.pid = other.pid
    /\ IF i < h THEN mine.length <= other.length
                ELSE mine.length < other.length

\* The second loop runs while i < S3K_MAX_HART.
LastCompared(h) == IF h + 1 < MaxHart THEN MaxHart - 1 ELSE h

Compare(h) ==
    LET j == job[h] IN
    /\ Reading(h) /\ "si" \in DOMAIN j
    /\ j.i <= LastCompared(h)
    /\ \/ /\ j.i # h /\ Defers(j.si, slots[j.i][j.slot], h, j.i)
          /\ Return(h, NULL, j.slot, 0)
       \/ /\ j.i = h \/ ~Defers(j.si, slots[j.i][j.slot], h, j.i)
          /\ job' = [job EXCEPT ![h].i = @ + 1]
    /\ UNCHANGED <<semVars, slots>>

\* Both loops are through: the process is the one to acquire.
Grant(h) ==
    LET j == job[h] IN
    /\ Reading(h) /\ "si" \in DOMAIN j
    /\ j.i > LastCompared(h)
    /\ Return(h, j.si.pid, j.slot, j.si.length)
    /\ UNCHANGED <<semVars, slots>>

EndFetch(h) ==
    /\ job[h].op = "done"
    /\ Release(h)
    /\ job' = [job EXCEPT ![h] = Idle]
    /\ UNCHANGED slots

-----------------------------------------------------------------------------
EnterTable(h) == Enter(h) /\ UNCHANGED schedVars

SchedSteps(h) == \/ EnterTable(h)
                 \/ WriteSlot(h) \/ EndWrite(h)
                 \/ ReadOwn(h) \/ Compare(h) \/ Grant(h) \/ EndFetch(h)

Next == \E h \in Hart :
           \/ \E u \in Updates, op \in {"update", "delete"} : BeginWrite(h, op, u)
           \/ \E s \in Slot : BeginFetch(h, s)
           \/ SchedSteps(h)

\* A hart in the scheduler runs with interrupts disabled: it goes on until it
\* has left the semaphore.
SchedSpec == SchedInit /\ [][Next]_vars /\ \A h \in Hart : WF_vars(SchedSteps(h))

-----------------------------------------------------------------------------
\* The writer that is inside and has still to write slot i of hart h, a set.
Writers(h, i) ==
    {g \in Hart : /\ Writing(g) /\ phase[g] = "inside" /\ job[g].arg.hart = h
                  /\ job[g].i <= i /\ i < job[g].arg.to}

\* The table as it will be when the writer inside is through.
Table ==
    [h \in Hart |-> [i \in Slot |->
        IF Writers(h, i) = {} THEN slots[h][i]
        ELSE LET w == CHOOSE w \in Writers(h, i) : TRUE
             IN  Entry(job[w].op, job[w].arg, i)]]

Fetched ==
    [h \in Hart |-> IF job[h].op # "done" THEN Nothing
                    ELSE [pid |-> job[h].pid, slot |-> job[h].slot, end |-> job[h].end]]

(***************************************************************************)
(* Entry by entry and under the semaphore, the table behaves as SlotTable: *)
(* an update is seen whole or not at all by every sched_fetch, which finds *)
(* what it would find looking at all entries at once.  The update takes    *)
(* effect when its writer gets in.                                         *)
(***************************************************************************)
Promised == INSTANCE SlotTable WITH table <- Table, fetched <- Fetched

TableIsAtomic == Promised!Spec

(***************************************************************************)
(* A slice is never left without a hart: of the harts on which a process   *)
(* owns the slot, one goes on to acquire it, whatever the lengths are.     *)
(***************************************************************************)
SlotServed ==
    \A h \in Hart, s \in Slot :
        slots[h][s].length # 0 =>
            \E g \in Hart : /\ slots[g][s].pid = slots[h][s].pid
                            /\ Promised!Claims(slots, g, s)

(***************************************************************************)
(* Of two harts below the last one, at most one claims a process in a slot.*)
(* (A hart does not compare itself with S3K_MAX_HART, sched.c:88: against  *)
(* the last hart only proc_acquire decides.)                               *)
(***************************************************************************)
ClaimUnique ==
    \A g, h \in Hart \ {MaxHart}, s \in Slot :
        /\ g # h
        /\ slots[g][s].pid = slots[h][s].pid
        => ~(Promised!Claims(slots, g, s) /\ Promised!Claims(slots, h, s))

(***************************************************************************)
(* A hart that looks for work or rewrites the table gets through, however  *)
(* many others come after it.                                              *)
(***************************************************************************)
EveryoneServed == \A h \in Hart : job[h] # Idle ~> job[h] = Idle
=============================================================================
