------------------------------ MODULE CapSafety ------------------------------
(***************************************************************************)
(* What the capability system calls promise, over CapSys.                  *)
(***************************************************************************)
EXTENDS CapSys

TableType ==
    /\ cap \in [Cte -> Cap]
    /\ next \in [Cte -> Cte]
    /\ prev \in [Cte -> Cte]

ResourceType ==
    /\ slots \in [Hart -> [Slot -> [pid : Pid, length : Nat]]]
    /\ pmp \in [Pid -> [PmpSlot ->
                   [on : BOOLEAN, rwx : SUBSET Perm, addr : Nat]]]
    /\ channels \in [Chan -> [server : Pid \cup {Null},
                              client : Pid \cup {Null},
                              capBuf : Cte \cup {Null}]]

ProcType ==
    /\ state \in [Pid -> [flags : SUBSET Flag, chan : Nat]]
    /\ call \in [Pid -> [op : {"idle", "revoke", "reset"}, cte : Cte]]

\* The variables have their types: ctable's links stay inside the table, slots and
\* PMP registers belong to processes.
TypeOK == TableType /\ ResourceType /\ ProcType

-----------------------------------------------------------------------------
CapsOf(type) == {c \in Cte : cap[c].type = type}
Slices == {c \in Cte : cap[c].type \in SliceType}

\* The part of a slice that has not been given away.
Free(c) == cap[c].mrk .. cap[c].end - 1

\* Two slices of the same resource.
SameResource(c, d) ==
    /\ cap[c].type = cap[d].type
    /\ cap[c].type = "time" => cap[c].hart = cap[d].hart
    /\ cap[c].type = "memory" => cap[c].tag = cap[d].tag

(***************************************************************************)
(* The mark of a slice stays inside the slice, so that what is derived from*)
(* it is part of it (derive, cap_revoke_* and cap_reset move the mark).    *)
(***************************************************************************)
MarkInside ==
    \A c \in Slices : cap[c].bgn <= cap[c].mrk /\ cap[c].mrk <= cap[c].end

(***************************************************************************)
(* No unit of time, memory block, process or channel is in the free part of*)
(* two capabilities, whoever holds them: deriving, moving, deleting and    *)
(* revoking hand a resource over, they never copy it.                      *)
(***************************************************************************)
FreeDisjoint ==
    \A c, d \in Slices :
        c # d /\ SameResource(c, d) => Free(c) \cap Free(d) = {}

(***************************************************************************)
(* Slices are sound: nothing is free outside its slice or free twice, after*)
(* every sequence of derivations, moves, deletions and revocations.        *)
(***************************************************************************)
SlicesSound == MarkInside /\ FreeDisjoint

(***************************************************************************)
(* The slot table is exactly what the time capabilities say: a slot belongs*)
(* to the process that holds it free in a time capability, for the time    *)
(* left to the end of that capability, and to nobody if there is none.     *)
(***************************************************************************)
ScheduleMatchesCaps ==
    \A h \in Hart, i \in Slot :
        LET Owners == {c \in CapsOf("time") : cap[c].hart = h /\ i \in Free(c)}
        IN  \/ /\ Owners = {}
               /\ slots[h][i].length = 0
            \/ \E c \in Owners :
                  slots[h][i] = [pid |-> cte_pid(c), length |-> cap[c].end - i]

(***************************************************************************)
(* A PMP register of a process is on if and only if one PMP capability of  *)
(* that process is loaded there, and it holds that capability's frame.     *)
(***************************************************************************)
PmpMatchesCaps ==
    LET Loaded(p, s) == {c \in CapsOf("pmp") : /\ cte_pid(c) = p
                                               /\ cap[c].used
                                               /\ cap[c].slot = s}
    IN  \A p \in Pid, s \in PmpSlot :
            \/ /\ Loaded(p, s) = {}
               /\ ~pmp[p][s].on
            \/ \E c \in Cte :
                  /\ Loaded(p, s) = {c}
                  /\ pmp[p][s] = [on |-> TRUE, rwx |-> cap[c].rwx,
                                  addr |-> cap[c].addr]

(***************************************************************************)
(* A channel has at most one server socket, and while it has one no channel*)
(* capability can derive another (derive moves the mark past it).          *)
(***************************************************************************)
UniqueServer ==
    \A s \in CapsOf("socket") : cap[s].tag = 0 =>
        /\ \A t \in CapsOf("socket") \ {s} :
              ~(cap[t].tag = 0 /\ cap[t].chan = cap[s].chan)
        /\ \A c \in CapsOf("channel") : cap[s].chan \notin Free(c)

-----------------------------------------------------------------------------
\* d lies in what the slice c has given away, or could be derived from it.
GivenAway(c, d) ==
    \/ /\ d.type = c.type
       /\ c.bgn <= d.bgn /\ d.end <= c.mrk
    \/ /\ d.type = "pmp"
       /\ tag_block_to_addr(c.tag, c.bgn) <= pmp_base(d.addr)
       /\ pmp_base(d.addr) + pmp_size(d.addr) <= tag_block_to_addr(c.tag, c.end)
    \/ /\ d.type = "socket"
       /\ c.bgn <= d.chan /\ d.chan < c.mrk

(***************************************************************************)
(* A revocation only ever deletes descendants of the slice it was called   *)
(* with, although cap_revoke looks at nothing but the next list entry and  *)
(* other harts change the list between two of its steps.                   *)
(***************************************************************************)
OnlyDescendants ==
    \A p \in Pid :
        RevokeStep(p) /\ cap[call[p].cte].type \in SliceType
            => GivenAway(cap[call[p].cte], cap[next[call[p].cte]])

RevokeOnlyDescendants == [][OnlyDescendants]_vars

\* The revocation of p ends in this step, not by a timer interrupt.
RevokeEnds(p) ==
    call[p] # Idle /\ call'[p] = Idle /\ state'[p] = state[p]

(***************************************************************************)
(* A revocation that runs to its end gives a slice everything back: its    *)
(* mark is at its beginning again, as cap_reset leaves it.                 *)
(***************************************************************************)
Restores ==
    \A p \in Pid :
        RevokeEnds(p) /\ cap[call[p].cte].type \in SliceType
            => cap'[call[p].cte].mrk = cap[call[p].cte].bgn

RevokeRestores == [][Restores]_vars

(***************************************************************************)
(* When the revocation of the only memory capability there is ends, no PMP *)
(* frame inside it is left in any process: all of them descend from it.    *)
(***************************************************************************)
RevokeTakesFrames ==
    [][\A p \in Pid, f \in CapsOf("pmp") :
          RevokeEnds(p) /\ CapsOf("memory") = {call[p].cte}
            => ~GivenAway(cap[call[p].cte], cap[f])]_vars

(***************************************************************************)
(* When the revocation of a server socket ends, no client socket of its    *)
(* channel is left.                                                        *)
(***************************************************************************)
RevokeTakesClients ==
    [][\A p \in Pid, s \in CapsOf("socket") :
          LET server == cap[call[p].cte]
          IN  RevokeEnds(p) /\ server.type = "socket" /\ server.tag = 0
                => s = call[p].cte \/ cap[s].chan # server.chan]_vars

(***************************************************************************)
(* sys_cap_revoke releases the lock between two steps and keeps the pointer*)
(* to its entry: until it returns the entry holds the same slice, or       *)
(* nothing from the moment another revocation deletes it; it never goes on *)
(* with a slice it was not called for.                                     *)
(***************************************************************************)
RevokeTargetStable ==
    [][\A p \in Pid :
          LET c == cap[call[p].cte]
              d == cap'[call[p].cte]
          IN  (/\ call[p] # Idle /\ call'[p] = call[p]
               /\ c = NoCap \/ c.type \in SliceType)
                => \/ d = NoCap
                   \/ /\ c # NoCap /\ d.type = c.type
                      /\ d.bgn = c.bgn /\ d.end = c.end]_vars

-----------------------------------------------------------------------------
(***************************************************************************)
(* A revocation ends once the other processes have stopped running.  (While*)
(* they run they can derive new descendants as fast as it deletes them.)   *)
(***************************************************************************)
RevokeTerminates ==
    \A p \in Pid :
        <>[](\A q \in Pid \ {p} : "busy" \notin state[q].flags)
            => []<>(call[p] = Idle)
=============================================================================
