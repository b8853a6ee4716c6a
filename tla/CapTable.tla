------------------------------ MODULE CapTable ------------------------------
(***************************************************************************)
(* The capability table, kernel/src/cap_table.c: one array of entries      *)
(* (cte_t), CapCnt per process, and one circular doubly linked list        *)
(* through all the occupied ones, the capability derivation tree laid out  *)
(* in pre-order.  A derived capability is inserted right after the one it  *)
(* comes from, so the descendants of an entry follow it in the list and    *)
(* revocation can take them one by one.                                    *)
(*                                                                         *)
(* LinkInsert, LinkMove and LinkDelete are what cte_insert, cte_move and   *)
(* cte_delete do to the links; what they do to the capabilities is said by *)
(* the operation that calls them.                                          *)
(***************************************************************************)
EXTENDS CapTypes

VARIABLES cap,    \* ctable[c].cap
          next,   \* ctable[c].next
          prev    \* ctable[c].prev

tableVars == <<cap, next, prev>>

Cte == 0 .. ProcCnt * CapCnt - 1

ctable_get(pid, index) == pid * CapCnt + index

\* Mutant of cte_pid: the entries are counted from 1.
CtePidFromOne(c) == (c + 1) \div CapCnt

cte_pid(c) == c \div CapCnt

\* The entries of process p.
CteOf(p) == {ctable_get(p, i) : i \in 0 .. CapCnt - 1}

cte_is_empty(c) == cap[c].type = "none"
Occupied == {c \in Cte : ~cte_is_empty(c)}

-----------------------------------------------------------------------------
\* Mutant of LinkInsert: the old successor's back link is forgotten.
LinkInsertHalf(c, p) ==
    /\ next' = [next EXCEPT ![c] = next[p], ![p] = c]
    /\ prev' = [prev EXCEPT ![c] = p]

\* Insert the free entry c right after p.
LinkInsert(c, p) ==
    /\ next' = [next EXCEPT ![c] = next[p], ![p] = c]
    /\ prev' = [prev EXCEPT ![c] = p, ![next[p]] = c]

\* dst takes the place of src.
LinkMove(src, dst) ==
    /\ next' = [next EXCEPT ![dst] = next[src], ![prev[src]] = dst]
    /\ prev' = [prev EXCEPT ![dst] = prev[src], ![next[src]] = dst]

\* c leaves the list.
LinkDelete(c) ==
    /\ next' = [next EXCEPT ![prev[c]] = next[c]]
    /\ prev' = [prev EXCEPT ![next[c]] = prev[c]]

-----------------------------------------------------------------------------
\* Every occupied entry is linked both ways to occupied entries.
Linked ==
    \A c \in Occupied :
        /\ ~cte_is_empty(next[c]) /\ prev[next[c]] = c
        /\ ~cte_is_empty(prev[c]) /\ next[prev[c]] = c

\* Following next from any occupied entry visits all of them.
OneCycle ==
    \A S \in SUBSET Occupied :
        (S # {} /\ \A c \in S : next[c] \in S) => S = Occupied

(***************************************************************************)
(* The links of ctable are one circular doubly linked list of exactly the  *)
(* occupied entries, after any sequence of cte_insert, cte_move and        *)
(* cte_delete that the system calls make.                                  *)
(***************************************************************************)
ListOK == Linked /\ OneCycle
=============================================================================
