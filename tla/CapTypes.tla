------------------------------ MODULE CapTypes ------------------------------
(***************************************************************************)
(* Capabilities: kernel/inc/cap_types.h, kernel/src/cap_util.c and         *)
(* kernel/inc/cap_util.h.                                                  *)
(*                                                                         *)
(* A capability is a record whose field "type" says what the other fields  *)
(* are.  Permission bit sets (rwx, perm) are sets.  The four kinds of      *)
(* slices (time, memory, monitor, channel) own the interval bgn .. end - 1 *)
(* of something and have given away bgn .. mrk - 1 of it.                  *)
(***************************************************************************)
EXTENDS Integers, FiniteSets

CONSTANTS ProcCnt,    \* S3K_PROC_CNT
          CapCnt,     \* S3K_CAP_CNT, entries of each process's table
          SlotCnt,    \* S3K_SLOT_CNT, time slots of a period
          ChanCnt,    \* S3K_CHAN_CNT
          PmpCnt,     \* S3K_PMP_CNT, PMP registers of a process
          Hart,       \* the hart ids, S3K_MIN_HART .. S3K_MAX_HART
          MinBlock,   \* MIN_BLOCK_SIZE, log2 of the size of a memory block
          MaxBlock,   \* MAX_BLOCK_SIZE, log2 of the size of a tagged region
          AddrBits    \* width of the address field of a PMP capability

ASSUME CapTypesAssumption ==
    /\ ProcCnt \in Nat \ {0}
    /\ CapCnt \in Nat \ {0}
    /\ SlotCnt \in Nat
    /\ ChanCnt \in Nat
    /\ PmpCnt \in Nat \ {0}
    /\ Hart \subseteq Nat
    /\ MinBlock \in Nat
    /\ MaxBlock \in Nat
    /\ AddrBits \in Nat
\* Arithmetic that the provers do not know: how the powers of two go on.
ASSUME PowersOfTwo ==
    \A k \in {MinBlock, MaxBlock} \cup 0 .. AddrBits :
        2^k \in Nat \ {0} /\ 2^(k + 1) = 2 * 2^k

Pid == 0 .. ProcCnt - 1
Chan == 0 .. ChanCnt - 1
PmpSlot == 0 .. PmpCnt - 1
Perm == {"R", "W", "X"}
Mode == {"noyield", "yield"}
IpcPerm == {"sdata", "scap", "cdata", "ccap"}

NoCap == [type |-> "none"]

TimeCap == [type : {"time"}, hart : Hart, bgn : Nat, mrk : Nat, end : Nat]
MemCap == [type : {"memory"}, tag : Nat, rwx : SUBSET Perm, lck : BOOLEAN,
           bgn : Nat, mrk : Nat, end : Nat]
PmpCap == [type : {"pmp"}, rwx : SUBSET Perm, used : BOOLEAN,
           slot : PmpSlot, addr : Nat]
MonCap == [type : {"monitor"}, bgn : Nat, mrk : Nat, end : Nat]
ChanCap == [type : {"channel"}, bgn : Nat, mrk : Nat, end : Nat]
SockCap == [type : {"socket"}, mode : Mode, perm : SUBSET IpcPerm,
            chan : Nat, tag : Nat]

Cap == {NoCap} \cup TimeCap \cup MemCap \cup PmpCap \cup MonCap
               \cup ChanCap \cup SockCap

SliceType == {"time", "memory", "monitor", "channel"}

-----------------------------------------------------------------------------
(* Constructors. *)
cap_mk_time(hart, bgn, end) ==
    [type |-> "time", hart |-> hart, bgn |-> bgn, mrk |-> bgn, end |-> end]

\* bgn and end are addresses; mrk is given the ADDRESS, cut to the width of
\* block_t, where bgn and end become block numbers inside the tagged region.
cap_mk_memory(bgn, end, rwx, blockRange) ==
    LET tag == bgn \div 2^MaxBlock
    IN  [type |-> "memory", tag |-> tag, rwx |-> rwx, lck |-> FALSE,
         bgn |-> (bgn - tag * 2^MaxBlock) \div 2^MinBlock,
         mrk |-> bgn % blockRange,
         end |-> (end - tag * 2^MaxBlock) \div 2^MinBlock]

cap_mk_pmp(addr, rwx) ==
    [type |-> "pmp", rwx |-> rwx, used |-> FALSE, slot |-> 0, addr |-> addr]

cap_mk_monitor(bgn, end) ==
    [type |-> "monitor", bgn |-> bgn, mrk |-> bgn, end |-> end]

cap_mk_channel(bgn, end) ==
    [type |-> "channel", bgn |-> bgn, mrk |-> bgn, end |-> end]

cap_mk_socket(chan, mode, perm, tag) ==
    [type |-> "socket", mode |-> mode, perm |-> perm, chan |-> chan, tag |-> tag]

-----------------------------------------------------------------------------
tag_block_to_addr(tag, block) == tag * 2^MaxBlock + block * 2^MinBlock

\* Lowest bit set in n, the largest power of two that divides n > 0.
LowBit(n) == CHOOSE d \in {2^k : k \in 0 .. AddrBits} :
                 n % d = 0 /\ n % (2 * d) # 0

\* ((addr + 1) & addr) << 2 clears the lowest set bit of addr + 1, and
\* (((addr + 1) ^ addr) + 1) << 2 is twice that bit, both times 4.
pmp_base(addr) == 4 * (addr + 1 - LowBit(addr + 1))
pmp_size(addr) == 8 * LowBit(addr + 1)

-----------------------------------------------------------------------------
(* What sys_cap_derive accepts as a description of a new capability. *)
cap_is_valid(c) ==
    \/ c.type \in SliceType /\ c.bgn = c.mrk /\ c.bgn < c.end
    \/ c.type = "pmp" /\ ~c.used /\ c.slot = 0
    \/ c.type = "socket" /\ c.perm \subseteq IpcPerm /\ c.mode \in Mode

is_range_subset(aBgn, aEnd, bBgn, bEnd) == aBgn <= bBgn /\ bEnd <= aEnd

is_range_prefix(aBgn, aEnd, bBgn, bEnd) == aBgn = bBgn /\ bEnd <= aEnd

cap_time_derivable(p, c) ==
    /\ c.type = "time"
    /\ p.hart = c.hart
    /\ is_range_prefix(p.mrk, p.end, c.bgn, c.end)

cap_mem_derivable(p, c) ==
    \/ /\ c.type = "pmp"
       /\ is_range_subset(tag_block_to_addr(p.tag, p.mrk),
                          tag_block_to_addr(p.tag, p.end),
                          pmp_base(c.addr),
                          pmp_base(c.addr) + pmp_size(c.addr))
       /\ c.rwx \subseteq p.rwx
    \/ /\ c.type = "memory"
       /\ p.tag = c.tag
       /\ is_range_subset(p.mrk, p.end, c.bgn, c.end)
       /\ c.rwx \subseteq p.rwx

cap_mon_derivable(p, c) ==
    /\ c.type = "monitor"
    /\ is_range_subset(p.mrk, p.end, c.bgn, c.end)

cap_chan_derivable(p, c) ==
    \/ /\ c.type = "socket"
       /\ c.tag = 0
       /\ is_range_subset(p.mrk, p.end, c.chan, c.chan + 1)
    \/ /\ c.type = "channel"
       /\ is_range_subset(p.mrk, p.end, c.bgn, c.end)

cap_sock_derivable(p, c) ==
    /\ c.type = "socket"
    /\ p.chan = c.chan
    /\ p.tag = 0
    /\ c.tag # 0
    /\ p.mode = c.mode
    /\ p.perm = c.perm

cap_is_derivable(p, c) ==
    \/ p.type = "time" /\ cap_time_derivable(p, c)
    \/ p.type = "memory" /\ cap_mem_derivable(p, c)
    \/ p.type = "monitor" /\ cap_mon_derivable(p, c)
    \/ p.type = "channel" /\ cap_chan_derivable(p, c)
    \/ p.type = "socket" /\ cap_sock_derivable(p, c)
=============================================================================
