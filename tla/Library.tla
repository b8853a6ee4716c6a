------------------------------ MODULE Library ------------------------------
(***************************************************************************)
(* The pure half of the user library, common/src/s3k/s3k.c: how a process  *)
(* describes a capability it wants, and the library's own copy of the rules*)
(* of kernel/src/cap_util.c and cap_ops.c, with which a process can ask    *)
(* beforehand what the kernel will say.                                    *)
(***************************************************************************)
EXTENDS CapTypes

s3k_mk_time(hart, bgn, end) ==
    [type |-> "time", hart |-> hart, bgn |-> bgn, mrk |-> bgn, end |-> end]

\* Unlike cap_mk_memory, the mark is the block number.
s3k_mk_memory(bgn, end, rwx) ==
    LET tag == bgn \div 2^MaxBlock
        block == (bgn - tag * 2^MaxBlock) \div 2^MinBlock
    IN  [type |-> "memory", tag |-> tag, rwx |-> rwx, lck |-> FALSE,
         bgn |-> block, mrk |-> block,
         end |-> (end - tag * 2^MaxBlock) \div 2^MinBlock]

s3k_mk_pmp(addr, rwx) ==
    [type |-> "pmp", rwx |-> rwx, used |-> FALSE, slot |-> 0,
     addr |-> addr % 2^AddrBits]

s3k_mk_monitor(bgn, end) ==
    [type |-> "monitor", bgn |-> bgn, mrk |-> bgn, end |-> end]

s3k_mk_channel(bgn, end) ==
    [type |-> "channel", bgn |-> bgn, mrk |-> bgn, end |-> end]

s3k_mk_socket(chan, mode, perm, tag) ==
    [type |-> "socket", mode |-> mode, perm |-> perm, chan |-> chan, tag |-> tag]

\* base is a multiple of size, a power of two: the | of the code adds.
s3k_napot_encode(base, size) == (base + size \div 2 - 1) \div 4

-----------------------------------------------------------------------------
\* The library has its own is_range_subset and is_range_prefix, with the text of the
\* kernel's.
SliceInside(p, c) ==
    c.type = p.type /\ is_range_subset(p.bgn, p.end, c.bgn, c.end)

s3k_cap_time_revokable(p, c) ==
    c.type = "time" /\ p.hart = c.hart /\ SliceInside(p, c)

\* s3k_napot_decode gives base and SIZE of the frame; the variables are called
\* c_bgn and c_end.
FrameInside(bgn, p, c) ==
    /\ c.type = "pmp"
    /\ is_range_subset(tag_block_to_addr(p.tag, bgn),
                       tag_block_to_addr(p.tag, p.end),
                       pmp_base(c.addr), pmp_size(c.addr))

s3k_cap_mem_revokable(p, c) ==
    \/ FrameInside(p.bgn, p, c)
    \/ c.type = "memory" /\ p.tag = c.tag /\ SliceInside(p, c)

s3k_cap_mon_revokable(p, c) == SliceInside(p, c)

s3k_cap_chan_revokable(p, c) ==
    \/ c.type = "socket" /\ is_range_subset(p.bgn, p.end, c.chan, c.chan + 1)
    \/ SliceInside(p, c)

\* The type of c is not looked at: what is compared are the bits where a socket
\* has its channel (the beginning of a slice, the low half of a frame's
\* address) and its tag.
SockChan(c) == IF c.type = "socket" THEN c.chan
               ELSE IF c.type = "pmp" THEN c.addr % 2^16
               ELSE IF c.type = "none" THEN 0 ELSE c.bgn

SockTagged(c) == IF c.type = "socket" THEN c.tag # 0
                 ELSE IF c.type = "pmp" THEN c.addr >= 2^16
                 ELSE IF c.type = "none" THEN FALSE ELSE c.mrk # 0 \/ c.end # 0

s3k_cap_sock_revokable(p, c) ==
    p.tag = 0 /\ SockTagged(c) /\ p.chan = SockChan(c)

s3k_cap_is_revokable(p, c) ==
    \/ p.type = "time" /\ s3k_cap_time_revokable(p, c)
    \/ p.type = "memory" /\ s3k_cap_mem_revokable(p, c)
    \/ p.type = "monitor" /\ s3k_cap_mon_revokable(p, c)
    \/ p.type = "channel" /\ s3k_cap_chan_revokable(p, c)
    \/ p.type = "socket" /\ s3k_cap_sock_revokable(p, c)

-----------------------------------------------------------------------------
s3k_cap_is_valid(c) ==
    \/ c.type \in SliceType /\ c.bgn = c.mrk /\ c.bgn < c.end
    \/ c.type = "pmp" /\ ~c.used /\ c.slot = 0
    \/ c.type = "socket" /\ c.perm \subseteq IpcPerm /\ c.mode \in Mode

\* The kernel asks for the part behind the MARK of p, see cap_time_derivable.
s3k_cap_time_derivable(p, c) ==
    /\ c.type = "time"
    /\ p.hart = c.hart
    /\ is_range_prefix(p.bgn, p.end, c.bgn, c.end)

s3k_cap_mem_derivable(p, c) ==
    \/ FrameInside(p.mrk, p, c) /\ c.rwx \subseteq p.rwx
    \/ /\ c.type = "memory"
       /\ p.tag = c.tag
       /\ is_range_subset(p.mrk, p.end, c.bgn, c.end)
       /\ c.rwx \subseteq p.rwx

\* Mutant of s3k_cap_mon_derivable: from the beginning of the slice.
MonDerivableFromBgn(p, c) == SliceInside(p, c)

s3k_cap_mon_derivable(p, c) ==
    c.type = "monitor" /\ is_range_subset(p.mrk, p.end, c.bgn, c.end)

s3k_cap_chan_derivable(p, c) ==
    \/ c.type = "socket" /\ c.tag = 0 /\ is_range_subset(p.mrk, p.end, c.chan, c.chan + 1)
    \/ c.type = "channel" /\ is_range_subset(p.mrk, p.end, c.bgn, c.end)

s3k_cap_sock_derivable(p, c) ==
    /\ c.type = "socket"
    /\ p.chan = c.chan /\ p.mode = c.mode /\ p.perm = c.perm
    /\ p.tag = 0 /\ c.tag # 0

s3k_cap_is_derivable(p, c) ==
    \/ p.type = "time" /\ s3k_cap_time_derivable(p, c)
    \/ p.type = "memory" /\ s3k_cap_mem_derivable(p, c)
    \/ p.type = "monitor" /\ s3k_cap_mon_derivable(p, c)
    \/ p.type = "channel" /\ s3k_cap_chan_derivable(p, c)
    \/ p.type = "socket" /\ s3k_cap_sock_derivable(p, c)
=============================================================================
