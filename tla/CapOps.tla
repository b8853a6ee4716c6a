------------------------------- MODULE CapOps -------------------------------
(***************************************************************************)
(* The operations on capabilities, kernel/src/cap_ops.c and cap_pmp.c, and *)
(* what they do to the resources capabilities stand for: the slot table of *)
(* the scheduler (sched_update, sched_delete), the PMP registers of the    *)
(* processes (proc_pmp_load, proc_pmp_unload) and the IPC channels         *)
(* (cap_sock_clear).                                                       *)
(*                                                                         *)
(* Every operation is one action.  The kernel calls them with the kernel   *)
(* lock held, so two of them never overlap; sched_update and sched_delete  *)
(* hold all the tickets of the scheduler's semaphore besides.  An action   *)
(* is enabled when the operation would return SUCCESS; an operation that   *)
(* returns an error changes nothing.                                       *)
(***************************************************************************)
EXTENDS CapTable

CONSTANT LengthRange   \* slot lengths are kept modulo this, 256 in the kernel

ASSUME LengthRangeAssumption == LengthRange \in Nat /\ SlotCnt < LengthRange

VARIABLES slots,       \* slots[hart][i], owner and remaining length
          pmp,         \* pmpcfg and pmpaddr of each process
          channels     \* server, client and receive entry of each channel

resourceVars == <<slots, pmp, channels>>

Slot == 0 .. SlotCnt - 1
Null == -1
NoSlot == [pid |-> 0, length |-> 0]
NoPmp == [on |-> FALSE, rwx |-> {}, addr |-> 0]
NoChannel == [server |-> Null, client |-> Null, capBuf |-> Null]

-----------------------------------------------------------------------------
(* The slot table of the scheduler. *)

\* Mutant of sched_update: every slot gets the length of the whole slice.
SchedUpdateSameLength(pid, end, hart, from, to) ==
    [slots EXCEPT ![hart] = [i \in Slot |->
        IF i \in from .. to - 1
        THEN [pid |-> pid, length |-> (end - from) % LengthRange]
        ELSE @[i]]]

sched_update(pid, end, hart, from, to) ==
    [slots EXCEPT ![hart] = [i \in Slot |->
        IF i \in from .. to - 1
        THEN [pid |-> pid, length |-> (end - i) % LengthRange]
        ELSE @[i]]]

sched_delete(hart, from, to) ==
    [slots EXCEPT ![hart] = [i \in Slot |->
        IF i \in from .. to - 1 THEN NoSlot ELSE @[i]]]

(* The PMP registers of a process. *)
proc_pmp_avail(p, s) == ~pmp[p][s].on

proc_pmp_load(p, s, rwx, addr) ==
    [pmp EXCEPT ![p][s] = [on |-> TRUE, rwx |-> rwx, addr |-> addr]]

proc_pmp_unload(p, s) == [pmp EXCEPT ![p][s] = NoPmp]

(* The channel table, when a socket of process p goes away. *)
cap_sock_clear(c, p) ==
    [channels EXCEPT ![c.chan] =
        IF c.tag = 0 THEN NoChannel
        ELSE IF @.client = p THEN [@ EXCEPT !.client = Null]
        ELSE @]

-----------------------------------------------------------------------------
(* Moving a capability to another process. *)
ipc_move_hook(src, dst) ==
    LET c == cap[src] IN
    /\ slots' = IF c.type = "time"
                THEN sched_update(cte_pid(dst), c.end, c.hart, c.mrk, c.end)
                ELSE slots
    /\ pmp' = IF c.type = "pmp" /\ c.used
              THEN proc_pmp_unload(cte_pid(src), c.slot)
              ELSE pmp
    /\ channels' = IF c.type = "socket"
                   THEN cap_sock_clear(c, cte_pid(src))
                   ELSE channels

\* Mutant of Unloaded: it arrives as it was sent.
StillLoaded(c) == c

\* A loaded PMP capability arrives unloaded.
Unloaded(c) == IF c.type = "pmp" THEN [c EXCEPT !.used = FALSE, !.slot = 0]
               ELSE c

CanMove(src, dst) == ~cte_is_empty(src) /\ cte_is_empty(dst)

cap_move(src, dst) ==
    /\ CanMove(src, dst)
    /\ LinkMove(src, dst)
    /\ \/ /\ cte_pid(src) # cte_pid(dst)
          /\ ipc_move_hook(src, dst)
          /\ cap' = [cap EXCEPT ![dst] = Unloaded(cap[src]), ![src] = NoCap]
       \/ /\ cte_pid(src) = cte_pid(dst)
          /\ cap' = [cap EXCEPT ![dst] = cap[src], ![src] = NoCap]
          /\ UNCHANGED resourceVars

-----------------------------------------------------------------------------
delete_hook(c) ==
    /\ slots' = IF cap[c].type = "time"
                THEN sched_delete(cap[c].hart, cap[c].mrk, cap[c].end)
                ELSE slots
    /\ pmp' = IF cap[c].type = "pmp" /\ cap[c].used
              THEN proc_pmp_unload(cte_pid(c), cap[c].slot)
              ELSE pmp
    /\ channels' = IF cap[c].type = "socket"
                   THEN cap_sock_clear(cap[c], cte_pid(c))
                   ELSE channels

cap_delete(c) ==
    /\ ~cte_is_empty(c)
    /\ LinkDelete(c)
    /\ cap' = [cap EXCEPT ![c] = NoCap]
    /\ delete_hook(c)

-----------------------------------------------------------------------------
(***************************************************************************)
(* One step of the revocation of parent: the entry after it is deleted if  *)
(* it passes for a descendant.                                             *)
(***************************************************************************)
\* Mutant of time_revocable: a slice that ends where the parent begins passes.
TimeRevocableTouching(p, c) ==
    c.type = "time" /\ p.hart = c.hart /\ c.end >= p.bgn

time_revocable(p, c) == c.type = "time" /\ p.hart = c.hart /\ c.end > p.bgn

mem_revocable(p, c) == c.type = "memory" /\ p.tag = c.tag /\ c.end > p.bgn

\* The variable called end receives the SIZE of the region.
mem_pmp_revocable(p, c) ==
    c.type = "pmp" /\ pmp_size(c.addr) >= tag_block_to_addr(p.tag, p.bgn)

mon_revocable(p, c) == c.type = "monitor" /\ c.end > p.bgn

\* The test has parent and child the other way round.
chan_revocable(p, c) == c.type = "channel" /\ p.end > c.bgn

chan_sock_revocable(p, c) == c.type = "socket" /\ c.chan >= p.bgn

\* Mutant of sock_revocable: only sockets with the same tag go.
SockRevocableSameTag(p, c) ==
    c.type = "socket" /\ p.tag = 0 /\ c.tag = p.tag /\ p.chan = c.chan

sock_revocable(p, c) == c.type = "socket" /\ p.tag = 0 /\ p.chan = c.chan

\* Mutant of cap_revoke_time: the child is not deleted.
CapRevokeTimeKeepsChild(parent, child) ==
    LET p == cap[parent]
        c == cap[child] IN
    /\ p.type = "time"
    /\ time_revocable(p, c)
    /\ cap' = [cap EXCEPT ![parent] = [p EXCEPT !.mrk = c.mrk]]
    /\ slots' = sched_update(cte_pid(parent), p.end, p.hart, c.mrk, p.end)
    /\ UNCHANGED <<next, prev, pmp, channels>>

cap_revoke_time(parent, child) ==
    LET p == cap[parent]
        c == cap[child] IN
    /\ p.type = "time"
    /\ time_revocable(p, c)
    /\ LinkDelete(child)
    /\ cap' = [cap EXCEPT ![child] = NoCap,
                          ![parent] = [p EXCEPT !.mrk = c.mrk]]
    /\ slots' = sched_update(cte_pid(parent), p.end, p.hart, c.mrk, p.end)
    /\ UNCHANGED <<pmp, channels>>

cap_revoke_memory(parent, child) ==
    LET p == cap[parent]
        c == cap[child] IN
    /\ p.type = "memory"
    /\ \/ /\ mem_revocable(p, c)
          /\ cap' = [cap EXCEPT ![child] = NoCap,
                                ![parent] = [p EXCEPT !.mrk = c.mrk,
                                                      !.lck = c.lck]]
          /\ pmp' = pmp
       \/ /\ mem_pmp_revocable(p, c)
          /\ cap' = [cap EXCEPT ![child] = NoCap]
          /\ pmp' = IF c.used THEN proc_pmp_unload(cte_pid(child), c.slot)
                    ELSE pmp
    /\ LinkDelete(child)
    /\ UNCHANGED <<slots, channels>>

cap_revoke_monitor(parent, child) ==
    LET p == cap[parent]
        c == cap[child] IN
    /\ p.type = "monitor"
    /\ mon_revocable(p, c)
    /\ LinkDelete(child)
    /\ cap' = [cap EXCEPT ![child] = NoCap,
                          ![parent] = [p EXCEPT !.mrk = c.mrk]]
    /\ UNCHANGED resourceVars

cap_revoke_channel(parent, child) ==
    LET p == cap[parent]
        c == cap[child] IN
    /\ p.type = "channel"
    /\ \/ /\ chan_revocable(p, c)
          /\ cap' = [cap EXCEPT ![child] = NoCap,
                                ![parent] = [p EXCEPT !.mrk = c.mrk]]
          /\ channels' = channels
       \/ /\ chan_sock_revocable(p, c)
          /\ cap' = [cap EXCEPT ![child] = NoCap]
          /\ channels' = cap_sock_clear(c, cte_pid(child))
    /\ LinkDelete(child)
    /\ UNCHANGED <<slots, pmp>>

cap_revoke_socket(parent, child) ==
    /\ cap[parent].type = "socket"
    /\ sock_revocable(cap[parent], cap[child])
    /\ LinkDelete(child)
    /\ cap' = [cap EXCEPT ![child] = NoCap]
    /\ channels' = cap_sock_clear(cap[child], cte_pid(child))
    /\ UNCHANGED <<slots, pmp>>

cap_revoke(parent) ==
    LET child == next[parent] IN
    \/ cap_revoke_time(parent, child)
    \/ cap_revoke_memory(parent, child)
    \/ cap_revoke_monitor(parent, child)
    \/ cap_revoke_channel(parent, child)
    \/ cap_revoke_socket(parent, child)

\* cap_revoke(parent) would return SUCCESS, with p and c the two capabilities.
revocable(p, c) ==
    \/ p.type = "time" /\ time_revocable(p, c)
    \/ p.type = "memory" /\ (mem_revocable(p, c) \/ mem_pmp_revocable(p, c))
    \/ p.type = "monitor" /\ mon_revocable(p, c)
    \/ p.type = "channel" /\ (chan_revocable(p, c) \/ chan_sock_revocable(p, c))
    \/ p.type = "socket" /\ sock_revocable(p, c)

\* Otherwise it returns an error, -1 where the descendants are exhausted.
ERR_EMPTY == 1
ERR_INVALID_CAPABILITY == 14
revoke_error(p, c) ==
    CASE p.type = "none" -> ERR_EMPTY
      [] p.type = "pmp" -> ERR_INVALID_CAPABILITY
      [] p.type = "socket" /\ c.type = "socket" /\ p.tag # 0
            -> ERR_INVALID_CAPABILITY
      [] OTHER -> -1

-----------------------------------------------------------------------------
(* Back to the original state, when all descendants are gone. *)
\* Mutant of ResetCap: only a memory slice gets its mark back.
ResetMemOnly(c) ==
    IF c.type = "memory" THEN [c EXCEPT !.mrk = c.bgn, !.lck = FALSE] ELSE c

ResetCap(c) ==
    IF c.type = "memory" THEN [c EXCEPT !.mrk = c.bgn, !.lck = FALSE]
    ELSE IF c.type \in SliceType THEN [c EXCEPT !.mrk = c.bgn]
    ELSE c

cap_reset(c) ==
    /\ ~cte_is_empty(c)
    /\ cap' = [cap EXCEPT ![c] = ResetCap(@)]
    /\ slots' = IF cap[c].type = "time"
                THEN sched_update(cte_pid(c), cap[c].end, cap[c].hart,
                                  cap[c].bgn, cap[c].mrk)
                ELSE slots
    /\ UNCHANGED <<next, prev, pmp, channels>>

-----------------------------------------------------------------------------
\* Mutants of Derived: the mark stays; the mark of a channel does not pass the
\* new server socket.
DerivedKeepsMark(s, n) == IF n.type = "pmp" THEN [s EXCEPT !.lck = TRUE] ELSE s

DerivedAtChan(s, n) ==
    CASE n.type \in SliceType -> [s EXCEPT !.mrk = n.end]
      [] n.type = "pmp" -> [s EXCEPT !.lck = TRUE]
      [] n.type = "socket" /\ n.tag = 0 -> [s EXCEPT !.mrk = n.chan]
      [] OTHER -> s

\* What deriving n takes from the source capability s.
Derived(s, n) ==
    CASE n.type \in SliceType -> [s EXCEPT !.mrk = n.end]
      [] n.type = "pmp" -> [s EXCEPT !.lck = TRUE]
      [] n.type = "socket" /\ n.tag = 0 -> [s EXCEPT !.mrk = n.chan + 1]
      [] OTHER -> s

cap_derive(src, dst, n) ==
    /\ ~cte_is_empty(src)
    /\ cte_is_empty(dst)
    /\ cap_is_derivable(cap[src], n)
    /\ LinkInsert(dst, src)
    /\ cap' = [cap EXCEPT ![dst] = n, ![src] = Derived(@, n)]
    /\ slots' = IF n.type = "time"
                THEN sched_update(cte_pid(dst), n.end, n.hart, n.mrk, n.end)
                ELSE slots
    /\ UNCHANGED <<pmp, channels>>

-----------------------------------------------------------------------------
cap_pmp_load(c, s) ==
    /\ cap[c].type = "pmp"
    /\ ~cap[c].used
    /\ proc_pmp_avail(cte_pid(c), s)
    /\ pmp' = proc_pmp_load(cte_pid(c), s, cap[c].rwx, cap[c].addr)
    /\ cap' = [cap EXCEPT ![c].slot = s, ![c].used = TRUE]
    /\ UNCHANGED <<next, prev, slots, channels>>

cap_pmp_unload(c) ==
    /\ cap[c].type = "pmp"
    /\ cap[c].used
    /\ pmp' = proc_pmp_unload(cte_pid(c), cap[c].slot)
    /\ cap' = [cap EXCEPT ![c].slot = 0, ![c].used = FALSE]
    /\ UNCHANGED <<next, prev, slots, channels>>
=============================================================================
