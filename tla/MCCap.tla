------------------------------- MODULE MCCap -------------------------------
(***************************************************************************)
(* Small instances of the capability system for TLC.  Each starts from the *)
(* boot PMP frame in entry 0, one root capability of the family under test *)
(* and a monitor capability with which process 0 starts process 1 and moves*)
(* capabilities to it.                                                     *)
(***************************************************************************)
EXTENDS LibrarySafety, Sequences, TLC

CONSTANT MaxCaps   \* bound on the number of capabilities in the table

OneHart == {0}
Boot == cap_mk_pmp(0, Perm)
Monitor == cap_mk_monitor(1, ProcCnt)

TimeInit == 0 :> Boot @@ 1 :> cap_mk_time(0, 0, SlotCnt) @@ 2 :> Monitor
TimeNew == {s3k_mk_time(h, b, e) : h \in Hart, b \in 0 .. SlotCnt - 1, e \in 1 .. SlotCnt}
TimeCaps == {n \in TimeNew : s3k_cap_is_valid(n)}

\* In the other families process 0 keeps the time and yields to process 1.
Base == 0 :> Boot @@ 1 :> NoCap @@ 2 :> Monitor @@ 3 :> cap_mk_time(0, 0, SlotCnt)

\* Addresses: a block is 8 long, a tagged region 4 blocks, block_t counts modulo
\* 8 and the root is region 1, [32, 64).
MemRoot == cap_mk_memory(32, 64, Perm, 8)
MemInit == [Base EXCEPT ![1] = MemRoot]
MemSlice(b, e) == s3k_mk_memory(32 + 8 * b, 32 + 8 * e, Perm)
Frame(base, size) == s3k_mk_pmp(s3k_napot_encode(base, size), Perm)
MemCaps == {MemSlice(0, 1), Frame(32, 8)}

TreeInit == 0 :> Boot @@ 1 :> MemRoot @@ 2 :> cap_mk_time(0, 0, SlotCnt)
TreeCaps == MemCaps \cup {MemSlice(1, 2), MemSlice(0, 2), Frame(32, 32)}

MonInit == 0 :> Boot @@ 1 :> cap_mk_monitor(0, ProcCnt)
           @@ 2 :> cap_mk_time(0, 0, SlotCnt)
MonCaps == {s3k_mk_monitor(b, b + 1) : b \in Pid}

ChanTreeInit == 0 :> Boot @@ 1 :> cap_mk_channel(0, ChanCnt)
ChanInit == [Base EXCEPT ![1] = ChanTreeInit[1]]
ChanCaps == {n \in {s3k_mk_channel(b, e) : b, e \in 0 .. ChanCnt} :
                s3k_cap_is_valid(n)}
SockCaps == {s3k_mk_socket(c, "yield", IpcPerm, t) : c \in Chan, t \in {0, 1}}

\* One or two of every type, to put to the library as well.
AnyCaps == {s3k_mk_time(0, 0, 1), s3k_mk_time(0, 1, 2), MemSlice(1, 2), Frame(32, 8),
            s3k_mk_monitor(0, 1), s3k_mk_socket(0, "yield", IpcPerm, 0),
            s3k_mk_socket(0, "yield", IpcPerm, 1)}

(***************************************************************************)
(* Bounds.  Nothing depends on the index of an entry in its process's      *)
(* table, unless it is pinned or a revocation holds it, and the links of an*)
(* empty entry are never read.  So View describes the table by its list,   *)
(* from the boot frame on (Linked says it is sound to).  Bounded limits the*)
(* number of capabilities, and FirstFree lets an operation fill only the   *)
(* first of the empty entries that are alike.                              *)
(***************************************************************************)
Revokers(c) == {p \in Pid : call[p] # Idle /\ call[p].cte = c}
Entry(c, pinned) == <<cap[c], cte_pid(c), c \in pinned, Revokers(c)>>

RECURSIVE ListFrom(_, _)
ListFrom(c, pinned) ==
    IF next[c] = 0 THEN <<Entry(c, pinned)>>
    ELSE <<Entry(c, pinned), ListFrom(next[c], pinned)>>

\* The revocations whose entry is empty.
Lost == {p \in Pid : call[p] # Idle /\ cte_is_empty(call[p].cte)}

ViewWith(pinned) ==
    IF Linked
    THEN <<slots, pmp, channels, state, Cardinality(Occupied),
           ListFrom(0, pinned), [p \in Pid |-> call[p].op], Lost>>
    ELSE <<cap, call>>

View == ViewWith(Pinned)

FirstFree ==
    \A c \in Occupied' \ Occupied :
        \/ Revokers(c) # {}
        \/ \A d \in CteOf(cte_pid(c)) :
              d < c /\ cte_is_empty(d) => Revokers(d) # {}

Bounded == Cardinality(Occupied') <= MaxCaps /\ FirstFree
=============================================================================
