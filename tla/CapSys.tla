------------------------------- MODULE CapSys -------------------------------
(***************************************************************************)
(* The capability system calls, kernel/src/syscall.c and cap_monitor.c, on *)
(* top of the capability operations, with the process states they depend   *)
(* on (kernel/src/proc.c) and the way the scheduler and the timer start    *)
(* and stop processes (sched.c, trap.S).                                   *)
(*                                                                         *)
(* A process runs when its state has the flag "busy": some hart has        *)
(* acquired it.  A system call works on capabilities between               *)
(* kernel_lock_acquire and kernel_lock_release, so it is one action, except*)
(* sys_cap_revoke: it releases the lock after each deleted capability, so  *)
(* the other harts' system calls interleave with it.  A call that finds    *)
(* its arguments wrong changes nothing; a call that is refused the lock    *)
(* because a timer interrupt is pending returns to the scheduler, which is *)
(* Preempt.                                                                *)
(*                                                                         *)
(* The scheduler is abstracted to its effect on the state word of one      *)
(* process at a time.                                                      *)
(***************************************************************************)
EXTENDS CapOps

CONSTANTS InitCaps,    \* INIT_CAPS of the platform: entries of process 0
          NewCaps,     \* the descriptions user processes ask to derive
          Pinned,      \* entries user processes keep (the boot PMP frame)
          ErrSigned,   \* does the compiler make enum err_t a signed type?
          ErrRange     \* number of values of the unsigned enum type

ASSUME InitCapsAssumption ==
    /\ \E n \in 1 .. CapCnt : InitCaps \in [0 .. n - 1 -> Cap \ {NoCap}]
    /\ InitCaps[0] \in PmpCap /\ ~InitCaps[0].used
\* No two entries of INIT_CAPS are slices of the same resource, none of them is a
\* socket, and none is loaded into a PMP register yet.
ASSUME InitResourcesAssumption ==
    \A i \in DOMAIN InitCaps :
        LET c == InitCaps[i] IN
        /\ c.type # "socket"
        /\ c.type = "pmp" => ~c.used
        /\ \A j \in DOMAIN InitCaps \ {i} :
              LET d == InitCaps[j] IN
              c.type = d.type /\ c.type \in SliceType =>
                  \/ c.type = "time" /\ c.hart # d.hart
                  \/ c.type = "memory" /\ c.tag # d.tag
ASSUME NewCapsAssumption ==
    /\ NewCaps \subseteq {c \in Cap : cap_is_valid(c)}
    /\ Pinned \subseteq Cte
    /\ 0 \in Pinned
    /\ ErrSigned \in BOOLEAN
    /\ ErrRange \in Nat
\* The frames processes describe fit into the bit field pmp.addr.
ASSUME AddressesFit ==
    \A n \in NewCaps : n.type = "pmp" => n.addr < 2^AddrBits

\* No memory capability is low enough in the address space for its revocation to
\* take the boot frame, the entry after the last one in the list, for a child.
ASSUME BootFrameAssumption ==
    \A n \in NewCaps \cup {InitCaps[i] : i \in DOMAIN InitCaps} :
        n.type = "memory" => ~mem_pmp_revocable(n, InitCaps[0])

VARIABLES state,       \* proc->state: flags, and the channel waited on
          call         \* the revocation each process is in the middle of

procVars == <<state, call>>
vars == <<cap, next, prev, slots, pmp, channels, state, call>>

Flag == {"busy", "blocked", "suspended"}

Ready == [flags |-> {}, chan |-> 0]
Busy == [flags |-> {"busy"}, chan |-> 0]
Suspended == [flags |-> {"suspended"}, chan |-> 0]

Idle == [op |-> "idle", cte |-> 0]

-----------------------------------------------------------------------------
(***************************************************************************)
(* Boot: ctable_init inserts entry 0 and then every other one after it;    *)
(* sched_init gives process 0 every slot of every hart; proc_init suspends *)
(* all processes but 0 and loads the PMP frame of entry 0.                 *)
(***************************************************************************)
InitCnt == Cardinality(DOMAIN InitCaps)

ctable_init ==
    /\ cap = [c \in Cte |->
                IF c = 0 THEN [InitCaps[0] EXCEPT !.used = TRUE, !.slot = 0]
                ELSE IF c < InitCnt THEN InitCaps[c] ELSE NoCap]
    /\ next = [c \in Cte |-> IF c = 0 THEN InitCnt - 1
                             ELSE IF c < InitCnt THEN c - 1 ELSE 0]
    /\ prev = [c \in Cte |-> IF c < InitCnt - 1 THEN c + 1 ELSE 0]

sched_init ==
    slots = [h \in Hart |-> [i \in Slot |->
                [pid |-> 0, length |-> (SlotCnt - i) % LengthRange]]]

proc_init ==
    /\ state = [p \in Pid |-> IF p = 0 THEN Ready ELSE Suspended]
    /\ pmp = [p \in Pid |-> [s \in PmpSlot |->
                IF p = 0 /\ s = 0
                THEN [on |-> TRUE, rwx |-> InitCaps[0].rwx,
                      addr |-> InitCaps[0].addr]
                ELSE NoPmp]]

Init ==
    /\ ctable_init
    /\ sched_init
    /\ proc_init
    /\ channels = [c \in Chan |-> NoChannel]
    /\ call = [p \in Pid |-> Idle]

-----------------------------------------------------------------------------
(* The scheduler and the timer. *)

\* Process p owns the slot a hart is about to serve, and is acquired.
Dispatch(p) ==
    /\ \E h \in Hart, i \in Slot : /\ slots[h][i].pid = p
                                   /\ slots[h][i].length # 0
    /\ state[p].flags = {}
    /\ state' = [state EXCEPT ![p] = Busy]
    /\ UNCHANGED <<tableVars, resourceVars, call>>

\* The timer interrupts p in user mode, or makes its system call give up.
Preempt(p) ==
    /\ "busy" \in state[p].flags
    /\ state' = [state EXCEPT ![p].flags = @ \ {"busy"}]
    /\ call' = [call EXCEPT ![p] = Idle]
    /\ UNCHANGED <<tableVars, resourceVars>>

-----------------------------------------------------------------------------
(* System calls of a process on its own capabilities. *)
Running(p) == "busy" \in state[p].flags /\ call[p] = Idle

sys_cap_move(p, src, dst) ==
    /\ Running(p)
    /\ src \notin Pinned
    /\ cap_move(src, dst)
    /\ UNCHANGED procVars

sys_cap_delete(p, c) ==
    /\ Running(p)
    /\ c \notin Pinned
    /\ cap_delete(c)
    /\ UNCHANGED procVars

sys_cap_derive(p, src, dst, n) ==
    /\ Running(p)
    /\ cap_is_valid(n)
    /\ cap_derive(src, dst, n)
    /\ UNCHANGED procVars

sys_pmp_load(p, c, s) ==
    /\ Running(p)
    /\ cap_pmp_load(c, s)
    /\ UNCHANGED procVars

sys_pmp_unload(p, c) ==
    /\ Running(p)
    /\ c \notin Pinned
    /\ cap_pmp_unload(c)
    /\ UNCHANGED procVars

-----------------------------------------------------------------------------
(***************************************************************************)
(* sys_cap_revoke: one lock section per deleted descendant, then one for   *)
(* cap_reset.  err_t has no negative enumerator, so compilers give it an   *)
(* unsigned type: the -1 that ends the loop becomes a large positive       *)
(* number and "if (err > 0)" returns before cap_reset.                     *)
(***************************************************************************)
ErrT(e) == IF ErrSigned THEN e ELSE e % ErrRange

sys_cap_revoke(p, c) ==
    /\ Running(p)
    /\ call' = [call EXCEPT ![p] = [op |-> "revoke", cte |-> c]]
    /\ UNCHANGED <<tableVars, resourceVars, state>>

RevokeStep(p) ==
    /\ call[p].op = "revoke"
    /\ cap_revoke(call[p].cte)
    /\ UNCHANGED procVars

\* The error that ends the loop, when the next entry is not revocable.
LoopError(p) ==
    ErrT(revoke_error(cap[call[p].cte], cap[next[call[p].cte]]))

LoopEnds(p) ==
    /\ call[p].op = "revoke"
    /\ ~revocable(cap[call[p].cte], cap[next[call[p].cte]])

RevokeReturn(p) ==
    /\ LoopEnds(p)
    /\ LoopError(p) > 0
    /\ call' = [call EXCEPT ![p] = Idle]
    /\ UNCHANGED <<tableVars, resourceVars, state>>

RevokeToReset(p) ==
    /\ LoopEnds(p)
    /\ LoopError(p) < 0
    /\ call' = [call EXCEPT ![p].op = "reset"]
    /\ UNCHANGED <<tableVars, resourceVars, state>>

RevokeReset(p) ==
    /\ call[p].op = "reset"
    /\ call' = [call EXCEPT ![p] = Idle]
    /\ UNCHANGED state
    /\ \/ cap_reset(call[p].cte)
       \/ /\ cte_is_empty(call[p].cte)
          /\ UNCHANGED <<tableVars, resourceVars>>

-----------------------------------------------------------------------------
(* System calls on another process, through a monitor capability. *)
check_monitor(m, q) ==
    cap[m].type = "monitor" /\ cap[m].mrk <= q /\ q < cap[m].end

\* Mutant of check_monitor_suspended: q may be running.
CheckMonitorOnly(m, q) == check_monitor(m, q)

check_monitor_suspended(m, q) == check_monitor(m, q) /\ state[q] = Suspended

\* With src and dst both in the caller's own table, m is not looked at.
check_monitor_move(m, src, dst) ==
    \A q \in {cte_pid(src), cte_pid(dst)} \ {cte_pid(m)} :
        check_monitor_suspended(m, q)

\* A process blocked in an IPC is told so and loses its place there.
proc_suspend(q) ==
    IF "blocked" \in state[q].flags
    THEN state' = [state EXCEPT ![q] = Suspended]
    ELSE state' = [state EXCEPT ![q].flags = @ \cup {"suspended"}]

sys_mon_suspend(p, m, q) ==
    /\ Running(p)
    /\ check_monitor(m, q)
    /\ proc_suspend(q)
    /\ UNCHANGED <<tableVars, resourceVars, call>>

sys_mon_resume(p, m, q) ==
    /\ Running(p)
    /\ check_monitor(m, q)
    /\ state' = [state EXCEPT ![q].flags = @ \ {"suspended"}]
    /\ UNCHANGED <<tableVars, resourceVars, call>>

\* p gives the rest of its time to q, a process that is ready.
sys_mon_yield(p, m, q) ==
    /\ Running(p)
    /\ check_monitor(m, q)
    /\ state[q].flags = {}
    /\ state' = [state EXCEPT ![q] = Busy, ![p].flags = @ \ {"busy"}]
    /\ UNCHANGED <<tableVars, resourceVars, call>>

sys_mon_cap_move(p, m, src, dst) ==
    /\ Running(p)
    /\ src \notin Pinned
    /\ check_monitor_move(m, src, dst)
    /\ cap_move(src, dst)
    /\ UNCHANGED procVars

sys_mon_pmp_load(p, m, c, s) ==
    /\ Running(p)
    /\ check_monitor_suspended(m, cte_pid(c))
    /\ cap_pmp_load(c, s)
    /\ UNCHANGED procVars

sys_mon_pmp_unload(p, m, c) ==
    /\ Running(p)
    /\ c \notin Pinned
    /\ check_monitor_suspended(m, cte_pid(c))
    /\ cap_pmp_unload(c)
    /\ UNCHANGED procVars

-----------------------------------------------------------------------------
\* Arguments that an early return rejects anyway are left out: the source of
\* a call is an entry in use, its destination an empty one.
OwnCaps(p) == CteOf(p) \cap Occupied

CapCall(p) ==
    \/ \E c \in OwnCaps(p), d \in CteOf(p) \ Occupied : sys_cap_move(p, c, d)
    \/ \E c \in OwnCaps(p) : sys_cap_delete(p, c)
    \/ \E c \in OwnCaps(p), d \in CteOf(p) \ Occupied, n \in NewCaps :
           sys_cap_derive(p, c, d, n)
    \/ \E c \in OwnCaps(p) : sys_cap_revoke(p, c)
    \/ \E c \in OwnCaps(p), s \in PmpSlot : sys_pmp_load(p, c, s)
    \/ \E c \in OwnCaps(p) : sys_pmp_unload(p, c)

MonCall(p) ==
    \E m \in OwnCaps(p) :
        \/ \E q \in Pid : \/ sys_mon_suspend(p, m, q)
                         \/ sys_mon_resume(p, m, q)
                         \/ sys_mon_yield(p, m, q)
        \/ \E c \in Occupied, d \in Cte \ Occupied : sys_mon_cap_move(p, m, c, d)
        \/ \E c \in Occupied, s \in PmpSlot : sys_mon_pmp_load(p, m, c, s)
        \/ \E c \in Occupied : sys_mon_pmp_unload(p, m, c)

Revoking(p) == RevokeStep(p) \/ RevokeReturn(p) \/ RevokeToReset(p)
                             \/ RevokeReset(p)

Next == \E p \in Pid : \/ Dispatch(p) \/ Preempt(p)
                     \/ CapCall(p) \/ MonCall(p) \/ Revoking(p)

Spec == Init /\ [][Next]_vars
=============================================================================
