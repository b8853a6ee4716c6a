-------------------------- MODULE CapResourceProofs --------------------------
(***************************************************************************)
(* For every platform and whatever the processes ask for, the resources of *)
(* the kernel go with the capabilities (CapSafety).  None of the properties*)
(* is inductive, for an operation looks at two neighbours in the list only:*)
(* each gets an invariant of its own on top of that of CapProofs.          *)
(*                                                                         *)
(* PMP registers (PmpInv): a register is on if and only if one loaded frame*)
(* of its process names it.                                                *)
(*                                                                         *)
(* Slices (SliceInv): give every entry its place in the list, counted from *)
(* the boot frame (Ranked; the places are any integers, so that there is   *)
(* always one free between two neighbours).  Of two slices of the same     *)
(* resource the later one ends below the mark of the earlier one           *)
(* (Descending), the clients of a server socket follow it without a gap    *)
(* (Together), and a later slice lies inside an earlier one or below it    *)
(* (Nested).  So the next entry of a slice, which is all that a revocation *)
(* looks at, is the child it gave away last.                               *)
(*                                                                         *)
(* Slot table (TimeInv): every slot is that of the one time capability it  *)
(* is free in, and off if there is none.                                   *)
(*                                                                         *)
(* From the slices on, the theorems are about the kernel as it is built:   *)
(* the error that ends the loop of sys_cap_revoke has an unsigned type of  *)
(* at least two values, and cap_reset is not reached (AsBuilt).            *)
(***************************************************************************)
EXTENDS CapProofs

-----------------------------------------------------------------------------
(* What a step does to capabilities and resources: at most one operation. *)

Operation ==
    \/ \E src, dst \in Cte : src # 0 /\ cap_move(src, dst)
    \/ \E c \in Cte : c # 0 /\ cap_delete(c)
    \/ \E src, dst \in Cte, n \in NewCaps : cap_derive(src, dst, n)
    \/ \E c \in Cte : cap_revoke(c)
    \/ \E c \in Cte : cap_reset(c) /\ \E p \in Pid : call[p].op = "reset"
    \/ \E c \in Cte, s \in PmpSlot : cap_pmp_load(c, s)
    \/ \E c \in Cte : cap_pmp_unload(c)

LEMMA Operations ==
    ASSUME IInv, [Next]_vars
    PROVE  Operation \/ UNCHANGED <<tableVars, resourceVars>>
<1>1. ASSUME NEW p \in Pid, CapCall(p)
      PROVE  Operation \/ UNCHANGED <<tableVars, resourceVars>>
  <2>1. \A c \in OwnCaps(p) : c \in Cte /\ (c \notin Pinned => c # 0)
    BY OwnEntries, NewCapsAssumption
  <2>2. \A c \in CteOf(p) : c \in Cte
    BY OwnEntries
  <2>. QED BY <1>1, <2>1, <2>2
       DEF CapCall, sys_cap_move, sys_cap_delete, sys_cap_derive, sys_cap_revoke,
           sys_pmp_load, sys_pmp_unload, Operation
<1>2. ASSUME NEW p \in Pid, MonCall(p)
      PROVE  Operation \/ UNCHANGED <<tableVars, resourceVars>>
  <2>1. \A c \in Occupied : c \in Cte /\ (c \notin Pinned => c # 0)
    BY NewCapsAssumption DEF Occupied
  <2>. QED BY <1>2, <2>1
       DEF MonCall, sys_mon_suspend, sys_mon_resume, sys_mon_yield,
           sys_mon_cap_move, sys_mon_pmp_load, sys_mon_pmp_unload, Operation
<1>3. ASSUME NEW p \in Pid, Revoking(p)
      PROVE  Operation \/ UNCHANGED <<tableVars, resourceVars>>
  <2>1. call[p].cte \in Cte
    BY DEF IInv, ProcType
  <2>. QED BY <1>3, <2>1
       DEF Revoking, RevokeStep, RevokeReturn, RevokeToReset, RevokeReset,
           Operation
<1>4. CASE UNCHANGED vars
  BY <1>4 DEF vars, tableVars, resourceVars
<1>. QED BY <1>1, <1>2, <1>3, <1>4 DEF Next, Dispatch, Preempt

-----------------------------------------------------------------------------
(* Places in the list. *)

\* r numbers the entries in the order of the list, from the boot frame on.
Ranked(r) ==
    /\ \A c, d \in Occupied : r[c] = r[d] => c = d
    /\ \A c \in Occupied :
          IF next[c] = 0 THEN \A d \in Occupied : r[d] <= r[c]
          ELSE /\ r[c] < r[next[c]]
               /\ \A d \in Occupied : r[c] < r[d] => r[next[c]] <= r[d]

LEMMA ListFacts ==
    ASSUME TableInv
    PROVE  /\ 0 \in Occupied
           /\ \A c \in Occupied : /\ c \in Cte
                                  /\ next[c] \in Occupied /\ prev[next[c]] = c
                                  /\ prev[c] \in Occupied /\ next[prev[c]] = c
<1>1. 0 \in Occupied
  BY CteBounds DEF TableInv, BootFrame, Occupied, cte_is_empty
<1>. QED BY <1>1 DEF TableInv, TableType, ListOK, Linked, Occupied

LEMMA RankInsert ==
    ASSUME TableInv, NEW r \in [Cte -> Int], Ranked(r),
           NEW c \in Cte, NEW p \in Occupied, cte_is_empty(c), LinkInsert(c, p),
           Occupied' = Occupied \cup {c}
    PROVE  \E t \in [Cte -> Int] :
              /\ Ranked(t)'
              /\ \A x, y \in Occupied : t[x] < t[y] <=> r[x] < r[y]
              /\ \A x \in Occupied : /\ t[x] < t[c] <=> x = p \/ r[x] < r[p]
                                     /\ t[c] < t[x] <=> r[p] < r[x]
<1>. DEFINE t == [x \in Cte |-> IF x = c THEN 2 * r[p] + 1 ELSE 2 * r[x]]
            q == next[p]
<1>1. /\ c \notin Occupied /\ 0 \in Occupied /\ q \in Occupied
      /\ \A x \in Occupied : /\ x \in Cte /\ r[x] \in Int /\ next[x] \in Occupied
  BY ListFacts DEF Occupied
<1>2. /\ next'[c] = q /\ next'[p] = c
      /\ \A x \in Occupied \ {p} : next'[x] = next[x]
  BY <1>1 DEF LinkInsert, TableInv, TableType
<1>3. /\ t \in [Cte -> Int] /\ t[c] = 2 * r[p] + 1
      /\ \A x \in Occupied : t[x] = 2 * r[x]
  BY <1>1
<1>. HIDE DEF t
<1>4. /\ \A x, y \in Occupied : t[x] < t[y] <=> r[x] < r[y]
      /\ \A x \in Occupied : /\ t[x] < t[c] <=> x = p \/ r[x] < r[p]
                             /\ t[c] < t[x] <=> r[p] < r[x]
                             /\ t[x] # t[c]
  BY <1>1, <1>3 DEF Ranked
<1>5. \A x, y \in Occupied' : t[x] = t[y] => x = y
  BY <1>1, <1>3, <1>4 DEF Ranked
<1>6. ASSUME NEW x \in Occupied'
      PROVE  IF next'[x] = 0 THEN \A d \in Occupied' : t[d] <= t[x]
             ELSE /\ t[x] < t[next'[x]]
                  /\ \A d \in Occupied' : t[x] < t[d] => t[next'[x]] <= t[d]
  <2>1. CASE x = c
    <3>1. CASE q = 0
      BY <2>1, <3>1, <1>1, <1>2, <1>3 DEF Ranked
    <3>2. CASE q # 0
      BY <2>1, <3>2, <1>1, <1>2, <1>3 DEF Ranked
    <3>. QED BY <3>1, <3>2
  <2>2. CASE x = p
    BY <2>2, <1>1, <1>2, <1>3 DEF Ranked
  <2>3. CASE x \in Occupied \ {p}
    <3>1. CASE next[x] = 0
      BY <2>3, <3>1, <1>1, <1>2, <1>3 DEF Ranked
    <3>2. CASE next[x] # 0
      BY <2>3, <3>2, <1>1, <1>2, <1>3 DEF Ranked
    <3>. QED BY <3>1, <3>2
  <2>. QED BY <2>1, <2>2, <2>3
<1>7. Ranked(t)'
  BY <1>5, <1>6 DEF Ranked
<1>. QED BY <1>3, <1>4, <1>7

LEMMA RankMove ==
    ASSUME TableInv, NEW r \in [Cte -> Int], Ranked(r),
           NEW src \in Occupied, NEW dst \in Cte, src # 0,
           cte_is_empty(dst), LinkMove(src, dst),
           Occupied' = (Occupied \ {src}) \cup {dst}
    PROVE  \E t \in [Cte -> Int] :
              /\ Ranked(t)'
              /\ t[dst] = r[src]
              /\ \A x \in Occupied \ {src} : t[x] = r[x]
<1>. DEFINE t == [r EXCEPT ![dst] = r[src]]
            a == prev[src]
            b == next[src]
<1>1. /\ dst \notin Occupied /\ 0 \in Occupied
      /\ a \in Occupied \ {src} /\ b \in Occupied \ {src} /\ next[a] = src
      /\ \A x \in Occupied : /\ x \in Cte /\ r[x] \in Int /\ next[x] \in Occupied
                             /\ next[x] = src => x = a
  BY ListFacts, NotAlone DEF Occupied
<1>2. /\ next'[dst] = b /\ next'[a] = dst
      /\ \A x \in Occupied \ {a} : next'[x] = next[x]
  BY <1>1 DEF LinkMove, TableInv, TableType
<1>3. /\ t \in [Cte -> Int] /\ t[dst] = r[src]
      /\ \A x \in Occupied : t[x] = r[x]
  BY <1>1
<1>. HIDE DEF t
<1>4. \A x, y \in Occupied' : t[x] = t[y] => x = y
  BY <1>1, <1>3 DEF Ranked
<1>5. dst # 0
  BY <1>1
<1>6. ASSUME NEW x \in Occupied'
      PROVE  IF next'[x] = 0 THEN \A d \in Occupied' : t[d] <= t[x]
             ELSE /\ t[x] < t[next'[x]]
                  /\ \A d \in Occupied' : t[x] < t[d] => t[next'[x]] <= t[d]
  <2>1. CASE x = dst
    BY <2>1, <1>1, <1>2, <1>3 DEF Ranked
  <2>2. CASE x = a
    BY <2>2, <1>1, <1>2, <1>3, <1>5 DEF Ranked
  <2>3. CASE x \in Occupied \ {a, src}
    BY <2>3, <1>1, <1>2, <1>3 DEF Ranked
  <2>. QED BY <2>1, <2>2, <2>3
<1>7. Ranked(t)'
  BY <1>4, <1>6 DEF Ranked
<1>. QED BY <1>3, <1>7

LEMMA RankDelete ==
    ASSUME TableInv, NEW r \in [Cte -> Int], Ranked(r),
           NEW c \in Occupied, c # 0, LinkDelete(c),
           Occupied' = Occupied \ {c}
    PROVE  Ranked(r)'
<1>. DEFINE a == prev[c]
            b == next[c]
<1>1. /\ 0 \in Occupied
      /\ a \in Occupied \ {c} /\ b \in Occupied \ {c} /\ next[a] = c
      /\ \A x \in Occupied : /\ x \in Cte /\ r[x] \in Int /\ next[x] \in Occupied
                             /\ next[x] = c => x = a
  BY ListFacts, NotAlone DEF Occupied
<1>2. /\ next'[a] = b
      /\ \A x \in Occupied \ {a} : next'[x] = next[x]
  BY <1>1 DEF LinkDelete, TableInv, TableType
<1>3. ASSUME NEW x \in Occupied'
      PROVE  IF next'[x] = 0 THEN \A d \in Occupied' : r[d] <= r[x]
             ELSE /\ r[x] < r[next'[x]]
                  /\ \A d \in Occupied' : r[x] < r[d] => r[next'[x]] <= r[d]
  <2>1. CASE x = a
    <3>1. CASE b = 0
      BY <2>1, <3>1, <1>1, <1>2 DEF Ranked
    <3>2. CASE b # 0
      BY <2>1, <3>2, <1>1, <1>2 DEF Ranked
    <3>. QED BY <3>1, <3>2
  <2>2. CASE x # a
    BY <2>2, <1>1, <1>2 DEF Ranked
  <2>. QED BY <2>1, <2>2
<1>. QED BY <1>3 DEF Ranked

-----------------------------------------------------------------------------
(* PMP registers. *)

\* The capability c is loaded; the entry c is loaded in register s of process p.
IsLoaded(c) == c.type = "pmp" /\ c.used
Loads(c, p, s) == IsLoaded(cap[c]) /\ cte_pid(c) = p /\ cap[c].slot = s

\* What a register holds of the capability c loaded in it.
Loading(c) == [on |-> TRUE, rwx |-> c.rwx, addr |-> c.addr]

PmpInv ==
    \A p \in Pid, s \in PmpSlot :
        /\ \A c \in Cte : Loads(c, p, s) => pmp[p][s] = Loading(cap[c])
        /\ \A c, d \in Cte : Loads(c, p, s) /\ Loads(d, p, s) => c = d
        /\ pmp[p][s].on => \E c \in Cte : Loads(c, p, s)

LEMMA TableUpdate ==
    ASSUME NEW A, NEW B, NEW T, NEW f \in [A -> [B -> T]],
           NEW a \in A, NEW b \in B, NEW x,
           NEW c \in A, NEW d \in B
    PROVE  [f EXCEPT ![a][b] = x][c][d] = IF c = a /\ d = b THEN x ELSE f[c][d]
  OBVIOUS

LEMMA PmpUpdate ==
    ASSUME ResourceType, NEW p \in Pid, NEW s \in PmpSlot, NEW x,
           NEW g, g = [pmp EXCEPT ![p][s] = x]
    PROVE  \A q \in Pid, t \in PmpSlot :
               g[q][t] = IF q = p /\ t = s THEN x ELSE pmp[q][t]
<1>1. PICK T : pmp \in [Pid -> [PmpSlot -> T]]
  BY DEF ResourceType
<1>. QED BY <1>1, TableUpdate

LEMMA LoadsType ==
    ASSUME TableInv
    PROVE  \A c \in Cte : /\ cte_pid(c) \in Pid
                          /\ IsLoaded(cap[c]) => cap[c].slot \in PmpSlot
  BY CteBounds, CapCases DEF TableInv, TableType, PmpCap, IsLoaded

\* The register of e is cleared, if it has one, and e is not loaded any more.
LEMMA ClearKeeps ==
    ASSUME TableInv, PmpInv, NEW e \in Cte,
           pmp' = IF IsLoaded(cap[e])
                  THEN proc_pmp_unload(cte_pid(e), cap[e].slot)
                  ELSE pmp,
           ~IsLoaded(cap'[e]),
           \A c \in Cte \ {e} :
               \/ cap'[c] = cap[c]
               \/ ~IsLoaded(cap[c]) /\ ~IsLoaded(cap'[c])
    PROVE  PmpInv'
<1>1. ASSUME NEW p \in Pid, NEW s \in PmpSlot
      PROVE  /\ ~Loads(e, p, s)'
             /\ \A c \in Cte \ {e} : /\ Loads(c, p, s)' <=> Loads(c, p, s)
                                     /\ Loads(c, p, s) => cap'[c] = cap[c]
  BY DEF Loads
<1>2. ASSUME NEW p \in Pid, NEW s \in PmpSlot
      PROVE  pmp'[p][s] = IF Loads(e, p, s) THEN NoPmp ELSE pmp[p][s]
  <2>1. CASE IsLoaded(cap[e])
    <3>1. cte_pid(e) \in Pid /\ cap[e].slot \in PmpSlot
      BY <2>1, LoadsType
    <3>2. pmp' = [pmp EXCEPT ![cte_pid(e)][cap[e].slot] = NoPmp]
      BY <2>1 DEF proc_pmp_unload
    <3>3. PICK q \in Pid, t \in PmpSlot : q = cte_pid(e) /\ t = cap[e].slot
      BY <3>1
    <3>4. PICK g, x : g = pmp' /\ x = NoPmp
      OBVIOUS
    <3>5. g = [pmp EXCEPT ![q][t] = x]
      BY <3>2, <3>3, <3>4
    <3>6. ResourceType
      BY DEF TableInv
    <3>7. g[p][s] = IF p = q /\ s = t THEN x ELSE pmp[p][s]
      BY <3>5, <3>6, PmpUpdate
    <3>. QED BY <2>1, <3>3, <3>4, <3>7 DEF Loads
  <2>2. CASE ~IsLoaded(cap[e])
    BY <2>2 DEF Loads
  <2>. QED BY <2>1, <2>2
<1>3. ~NoPmp.on
  BY DEF NoPmp
<1>. SUFFICES ASSUME NEW p \in Pid, NEW s \in PmpSlot
     PROVE  /\ \A c \in Cte : Loads(c, p, s)' => pmp'[p][s] = Loading(cap'[c])
            /\ \A c, d \in Cte : Loads(c, p, s)' /\ Loads(d, p, s)' => c = d
            /\ pmp'[p][s].on => \E c \in Cte : Loads(c, p, s)'
  BY DEF PmpInv
<1>4. /\ \A c \in Cte : Loads(c, p, s) => pmp[p][s] = Loading(cap[c])
      /\ \A c, d \in Cte : Loads(c, p, s) /\ Loads(d, p, s) => c = d
      /\ pmp[p][s].on => \E c \in Cte : Loads(c, p, s)
  BY DEF PmpInv
<1>5. \A c, d \in Cte : Loads(c, p, s)' /\ Loads(d, p, s)' => c = d
  BY <1>1, <1>4
<1>6. ASSUME NEW c \in Cte, Loads(c, p, s)'
      PROVE  pmp'[p][s] = Loading(cap'[c])
  BY <1>1, <1>2, <1>4, <1>6
<1>7. ASSUME pmp'[p][s].on PROVE \E c \in Cte : Loads(c, p, s)'
  BY <1>1, <1>2, <1>3, <1>4, <1>7
<1>. QED BY <1>5, <1>6, <1>7

\* The registers stay, and with them the loaded capabilities.
LEMMA SameLoadsKeep ==
    ASSUME PmpInv, pmp' = pmp,
           \A c \in Cte : \/ cap'[c] = cap[c]
                          \/ ~IsLoaded(cap[c]) /\ ~IsLoaded(cap'[c])
    PROVE  PmpInv'
<1>1. ASSUME NEW p \in Pid, NEW s \in PmpSlot, NEW c \in Cte
      PROVE  /\ Loads(c, p, s)' <=> Loads(c, p, s)
             /\ Loads(c, p, s) => cap'[c] = cap[c]
  BY DEF Loads
<1>. SUFFICES ASSUME NEW p \in Pid, NEW s \in PmpSlot
     PROVE  /\ \A c \in Cte : Loads(c, p, s)' => pmp'[p][s] = Loading(cap'[c])
            /\ \A c, d \in Cte : Loads(c, p, s)' /\ Loads(d, p, s)' => c = d
            /\ pmp'[p][s].on => \E c \in Cte : Loads(c, p, s)'
  BY DEF PmpInv
<1>2. /\ \A c \in Cte : Loads(c, p, s) => pmp[p][s] = Loading(cap[c])
      /\ \A c, d \in Cte : Loads(c, p, s) /\ Loads(d, p, s) => c = d
      /\ pmp[p][s].on => \E c \in Cte : Loads(c, p, s)
  BY DEF PmpInv
<1>. QED BY <1>1, <1>2

\* A capability moves to another entry of the same process.
LEMMA RelocateKeeps ==
    ASSUME PmpInv, NEW src \in Cte, NEW dst \in Cte, pmp' = pmp,
           cte_pid(dst) = cte_pid(src), cap'[dst] = cap[src],
           ~IsLoaded(cap[dst]), ~IsLoaded(cap'[src]),
           \A c \in Cte \ {src, dst} : cap'[c] = cap[c]
    PROVE  PmpInv'
<1>1. ASSUME NEW p \in Pid, NEW s \in PmpSlot
      PROVE  /\ ~Loads(src, p, s)' /\ ~Loads(dst, p, s)
             /\ Loads(dst, p, s)' <=> Loads(src, p, s)
             /\ \A c \in Cte \ {src, dst} : /\ Loads(c, p, s)' <=> Loads(c, p, s)
                                            /\ cap'[c] = cap[c]
  BY DEF Loads
<1>. SUFFICES ASSUME NEW p \in Pid, NEW s \in PmpSlot
     PROVE  /\ \A c \in Cte : Loads(c, p, s)' => pmp'[p][s] = Loading(cap'[c])
            /\ \A c, d \in Cte : Loads(c, p, s)' /\ Loads(d, p, s)' => c = d
            /\ pmp'[p][s].on => \E c \in Cte : Loads(c, p, s)'
  BY DEF PmpInv
<1>2. /\ \A c \in Cte : Loads(c, p, s) => pmp[p][s] = Loading(cap[c])
      /\ \A c, d \in Cte : Loads(c, p, s) /\ Loads(d, p, s) => c = d
      /\ pmp[p][s].on => \E c \in Cte : Loads(c, p, s)
  BY DEF PmpInv
<1>3. ASSUME NEW c \in Cte, Loads(c, p, s)'
      PROVE  pmp'[p][s] = Loading(cap'[c])
  <2>1. CASE c = dst
    BY <2>1, <1>1, <1>2, <1>3
  <2>2. CASE c # dst
    BY <2>2, <1>1, <1>2, <1>3
  <2>. QED BY <2>1, <2>2
<1>4. \A c, d \in Cte : Loads(c, p, s)' /\ Loads(d, p, s)' => c = d
  BY <1>1, <1>2
<1>5. ASSUME pmp'[p][s].on PROVE \E c \in Cte : Loads(c, p, s)'
  BY <1>1, <1>2, <1>5
<1>. QED BY <1>3, <1>4, <1>5

\* e is loaded into register t of its process q, which was off.
LEMMA LoadKeeps ==
    ASSUME TableInv, PmpInv, NEW e \in Cte, NEW q \in Pid, NEW t \in PmpSlot,
           q = cte_pid(e), ~pmp[q][t].on, ~IsLoaded(cap[e]),
           pmp' = [pmp EXCEPT ![q][t] = Loading(cap'[e])],
           IsLoaded(cap'[e]), cap'[e].slot = t,
           \A c \in Cte \ {e} : cap'[c] = cap[c]
    PROVE  PmpInv'
<1>1. ASSUME NEW p \in Pid, NEW s \in PmpSlot
      PROVE  /\ ~Loads(e, p, s)
             /\ Loads(e, p, s)' => p = q /\ s = t
             /\ \A c \in Cte \ {e} : /\ Loads(c, p, s)' <=> Loads(c, p, s)
                                     /\ cap'[c] = cap[c]
  BY DEF Loads
<1>2. ASSUME NEW p \in Pid, NEW s \in PmpSlot
      PROVE  pmp'[p][s] = IF p = q /\ s = t THEN Loading(cap'[e]) ELSE pmp[p][s]
  <2>1. PICK x : x = Loading(cap'[e])
    OBVIOUS
  <2>2. PICK g : g = pmp'
    OBVIOUS
  <2>3. g = [pmp EXCEPT ![q][t] = x]
    BY <2>1, <2>2
  <2>4. ResourceType
    BY DEF TableInv
  <2>5. g[p][s] = IF p = q /\ s = t THEN x ELSE pmp[p][s]
    BY <2>3, <2>4, PmpUpdate
  <2>. QED BY <2>1, <2>2, <2>5
<1>3. \A c \in Cte : ~Loads(c, q, t)
  <2>1. ASSUME NEW c \in Cte PROVE ~(Loads(c, q, t) /\ pmp[q][t] = Loading(cap[c]))
    BY DEF Loading
  <2>. QED BY <2>1 DEF PmpInv
<1>4. Loads(e, q, t)'
  BY DEF Loads
<1>. SUFFICES ASSUME NEW p \in Pid, NEW s \in PmpSlot
     PROVE  /\ \A c \in Cte : Loads(c, p, s)' => pmp'[p][s] = Loading(cap'[c])
            /\ \A c, d \in Cte : Loads(c, p, s)' /\ Loads(d, p, s)' => c = d
            /\ pmp'[p][s].on => \E c \in Cte : Loads(c, p, s)'
  BY DEF PmpInv
<1>5. /\ \A c \in Cte : Loads(c, p, s) => pmp[p][s] = Loading(cap[c])
      /\ \A c, d \in Cte : Loads(c, p, s) /\ Loads(d, p, s) => c = d
      /\ pmp[p][s].on => \E c \in Cte : Loads(c, p, s)
  BY DEF PmpInv
<1>6. CASE p = q /\ s = t
  <2>1. /\ \A c \in Cte : Loads(c, p, s)' => c = e
        /\ Loads(e, p, s)'
        /\ pmp'[p][s] = Loading(cap'[e])
    BY <1>1, <1>2, <1>3, <1>4, <1>6
  <2>. QED BY <2>1
<1>7. CASE ~(p = q /\ s = t)
  <2>1. /\ \A c \in Cte : Loads(c, p, s)' <=> Loads(c, p, s)
        /\ \A c \in Cte : Loads(c, p, s)' => cap'[c] = cap[c]
        /\ pmp'[p][s] = pmp[p][s]
    BY <1>1, <1>2, <1>7
  <2>. QED BY <2>1, <1>5
<1>. QED BY <1>6, <1>7

LEMMA MovePmp ==
    ASSUME TableInv, PmpInv, NEW src \in Cte, NEW dst \in Cte, cap_move(src, dst)
    PROVE  PmpInv'
<1>1. /\ cap \in [Cte -> Cap] /\ src # dst
      /\ cap'[src] = NoCap
      /\ \A c \in Cte \ {src, dst} : cap'[c] = cap[c]
      /\ ~IsLoaded(cap[dst]) /\ ~IsLoaded(NoCap)
  BY DEF cap_move, CanMove, cte_is_empty, TableInv, TableType, IsLoaded, NoCap
<1>2. CASE cte_pid(src) # cte_pid(dst)
  <2>1. cap'[dst] = Unloaded(cap[src])
    BY <1>1, <1>2 DEF cap_move
  <2>2. ~IsLoaded(Unloaded(cap[src]))
    <3>1. CASE cap[src].type = "pmp"
      <4>1. cap[src] \in PmpCap
        BY <1>1, <3>1, CapCases
      <4>2. ~Unloaded(cap[src]).used
        BY <3>1, <4>1 DEF Unloaded, PmpCap
      <4>. QED BY <4>2 DEF IsLoaded
    <3>2. CASE cap[src].type # "pmp"
      BY <3>2 DEF IsLoaded, Unloaded
    <3>. QED BY <3>1, <3>2
  <2>3. pmp' = IF IsLoaded(cap[src])
               THEN proc_pmp_unload(cte_pid(src), cap[src].slot)
               ELSE pmp
    BY <1>2 DEF cap_move, ipc_move_hook, IsLoaded
  <2>4. \A c \in Cte \ {src} : \/ cap'[c] = cap[c]
                               \/ ~IsLoaded(cap[c]) /\ ~IsLoaded(cap'[c])
    <3>1. ~IsLoaded(cap'[dst])
      BY <2>1, <2>2
    <3>2. \A c \in Cte \ {src, dst} : cap'[c] = cap[c]
      BY <1>1
    <3>3. ~IsLoaded(cap[dst])
      BY <1>1
    <3>. SUFFICES ASSUME NEW c \in Cte \ {src}
         PROVE  \/ cap'[c] = cap[c]
                \/ ~IsLoaded(cap[c]) /\ ~IsLoaded(cap'[c])
      OBVIOUS
    <3>4. CASE c = dst
      BY <3>1, <3>3, <3>4
    <3>5. CASE c # dst
      BY <3>2, <3>5
    <3>. QED BY <3>4, <3>5
  <2>. QED BY <1>1, <2>3, <2>4, ClearKeeps
<1>3. CASE cte_pid(src) = cte_pid(dst)
  <2>1. pmp' = pmp /\ cap'[dst] = cap[src]
    BY <1>1, <1>3 DEF cap_move, resourceVars
  <2>. QED BY <1>1, <1>3, <2>1, RelocateKeeps
<1>. QED BY <1>2, <1>3

LEMMA DeletePmp ==
    ASSUME TableInv, PmpInv, NEW c \in Cte, cap_delete(c)
    PROVE  PmpInv'
<1>1. /\ cap'[c] = NoCap /\ \A d \in Cte \ {c} : cap'[d] = cap[d]
      /\ ~IsLoaded(NoCap)
  BY DEF cap_delete, TableInv, TableType, IsLoaded, NoCap
<1>2. pmp' = IF IsLoaded(cap[c]) THEN proc_pmp_unload(cte_pid(c), cap[c].slot)
             ELSE pmp
  BY DEF cap_delete, delete_hook, IsLoaded
<1>. QED BY <1>1, <1>2, ClearKeeps

LEMMA DerivePmp ==
    ASSUME TableInv, PmpInv, NEW src \in Cte, NEW dst \in Cte, NEW n \in NewCaps,
           cap_derive(src, dst, n)
    PROVE  PmpInv'
<1>1. /\ dst \notin Occupied /\ cap'[dst] = n /\ cap_is_valid(n)
      /\ cap[src] \in Cap /\ n \in Cap /\ cap_is_derivable(cap[src], n)
      /\ cap'[src] = Derived(cap[src], n)
      /\ \A d \in Cte \ {src, dst} : cap'[d] = cap[d]
  BY DeriveEffect
<1>2. ~IsLoaded(cap[dst])
  BY <1>1 DEF Occupied, cte_is_empty, IsLoaded
<1>3. ~IsLoaded(n)
  BY <1>1 DEF cap_is_valid, IsLoaded, SliceType
<1>4. ~IsLoaded(cap[src]) /\ ~IsLoaded(cap'[src])
  <2>1. cap[src].type # "pmp" /\ cap'[src].type = cap[src].type
    BY <1>1, DerivedType DEF cap_is_derivable
  <2>. QED BY <2>1 DEF IsLoaded
<1>5. \A d \in Cte : \/ cap'[d] = cap[d]
                     \/ ~IsLoaded(cap[d]) /\ ~IsLoaded(cap'[d])
  BY <1>1, <1>2, <1>3, <1>4
<1>. QED BY <1>5, SameLoadsKeep DEF cap_derive

LEMMA RevokePmp ==
    ASSUME TableInv, PmpInv, NEW parent \in Cte, cap_revoke(parent)
    PROVE  PmpInv'
<1>. DEFINE child == next[parent]
<1>1. /\ child \in Cte /\ child # parent /\ cap'[child] = NoCap
      /\ \A d \in Cte \ {child, parent} : cap'[d] = cap[d]
      /\ cap[parent].type # "pmp"
      /\ \/ cap'[parent] = cap[parent]
         \/ Lowered(cap[parent], cap[child], cap'[parent])
  BY RevokeEffect DEF Occupied
<1>2. pmp' = IF IsLoaded(cap[child])
             THEN proc_pmp_unload(cte_pid(child), cap[child].slot)
             ELSE pmp
  BY DEF cap_revoke, cap_revoke_time, cap_revoke_memory, cap_revoke_monitor,
         cap_revoke_channel, cap_revoke_socket, time_revocable, mem_revocable,
         mem_pmp_revocable, mon_revocable, chan_revocable, chan_sock_revocable,
         sock_revocable, resourceVars, IsLoaded
<1>3. ~IsLoaded(cap[parent]) /\ ~IsLoaded(cap'[parent]) /\ ~IsLoaded(cap'[child])
  <2>1. cap'[parent].type = cap[parent].type
    BY <1>1 DEF Lowered, SameSlice
  <2>. QED BY <2>1, <1>1 DEF IsLoaded, NoCap
<1>4. \A c \in Cte \ {child} : \/ cap'[c] = cap[c]
                               \/ ~IsLoaded(cap[c]) /\ ~IsLoaded(cap'[c])
  <2>1. \A c \in Cte \ {child, parent} : cap'[c] = cap[c]
    BY <1>1
  <2>. SUFFICES ASSUME NEW c \in Cte \ {child}
       PROVE  \/ cap'[c] = cap[c]
              \/ ~IsLoaded(cap[c]) /\ ~IsLoaded(cap'[c])
    OBVIOUS
  <2>. HIDE DEF child
  <2>2. CASE c = parent
    BY <1>3, <2>2
  <2>3. CASE c # parent
    BY <2>1, <2>3
  <2>. QED BY <2>2, <2>3
<1>. HIDE DEF child
<1>. QED BY <1>1, <1>2, <1>3, <1>4, ClearKeeps

LEMMA ResetPmp ==
    ASSUME TableInv, PmpInv, NEW c \in Cte, cap_reset(c)
    PROVE  PmpInv'
<1>1. /\ cap[c] \in Cap /\ cap'[c] = ResetCap(cap[c])
      /\ \A d \in Cte \ {c} : cap'[d] = cap[d]
      /\ pmp' = pmp
  BY DEF cap_reset, TableInv, TableType
<1>2. cap'[c] = cap[c] \/ (~IsLoaded(cap[c]) /\ ~IsLoaded(cap'[c]))
  <2>1. CASE cap[c].type = "pmp"
    <3>1. cap[c].type \notin SliceType
      BY <2>1 DEF SliceType
    <3>2. ResetCap(cap[c]) = cap[c]
      BY <1>1, <3>1, ResetCapType
    <3>. QED BY <1>1, <3>2
  <2>2. CASE cap[c].type # "pmp"
    <3>1. cap'[c].type # "pmp"
      BY <2>2, <1>1, ResetCapType
    <3>. QED BY <2>2, <3>1 DEF IsLoaded
  <2>. QED BY <2>1, <2>2
<1>3. ASSUME NEW d \in Cte
      PROVE  cap'[d] = cap[d] \/ (~IsLoaded(cap[d]) /\ ~IsLoaded(cap'[d]))
  <2>1. CASE d = c
    BY <1>2, <2>1
  <2>2. CASE d # c
    BY <1>1, <2>2
  <2>. QED BY <2>1, <2>2
<1>. QED BY <1>1, <1>3, SameLoadsKeep

LEMMA LoadPmp ==
    ASSUME TableInv, PmpInv, NEW c \in Cte, NEW s \in PmpSlot, cap_pmp_load(c, s)
    PROVE  PmpInv'
<1>1. /\ cap \in [Cte -> Cap] /\ cap[c] \in PmpCap /\ cte_pid(c) \in Pid
      /\ cap[c].type = "pmp" /\ ~cap[c].used
  BY CapCases, CteBounds DEF cap_pmp_load, TableInv, TableType
<1>. DEFINE d == [cap[c] EXCEPT !.slot = s, !.used = TRUE]
<1>2. d.type = "pmp" /\ d.used /\ d.slot = s
      /\ d.rwx = cap[c].rwx /\ d.addr = cap[c].addr
  BY <1>1 DEF PmpCap
<1>3. cap'[c] = d /\ \A e \in Cte \ {c} : cap'[e] = cap[e]
  <2>1. cap' = [cap EXCEPT ![c] = d]
    BY DEF cap_pmp_load
  <2>. HIDE DEF d
  <2>. QED BY <2>1, <1>1
<1>4. ~IsLoaded(cap[c]) /\ IsLoaded(d)
  BY <1>1, <1>2 DEF IsLoaded
<1>. HIDE DEF d
<1>5. Loading(cap'[c]) = [on |-> TRUE, rwx |-> cap[c].rwx, addr |-> cap[c].addr]
  BY <1>2, <1>3 DEF Loading
<1>6. PICK q \in Pid : q = cte_pid(c)
  BY <1>1
<1>7. ~pmp[q][s].on /\ pmp' = [pmp EXCEPT ![q][s] = Loading(cap'[c])]
  BY <1>5, <1>6 DEF cap_pmp_load, proc_pmp_avail, proc_pmp_load
<1>8. IsLoaded(cap'[c]) /\ cap'[c].slot = s
  BY <1>2, <1>3, <1>4
<1>. QED BY <1>3, <1>4, <1>6, <1>7, <1>8, LoadKeeps

LEMMA UnloadPmp ==
    ASSUME TableInv, PmpInv, NEW c \in Cte, cap_pmp_unload(c)
    PROVE  PmpInv'
<1>1. /\ cap \in [Cte -> Cap] /\ cap[c] \in PmpCap
      /\ cap[c].type = "pmp" /\ cap[c].used
  BY CapCases DEF cap_pmp_unload, TableInv, TableType
<1>. DEFINE d == [cap[c] EXCEPT !.slot = 0, !.used = FALSE]
<1>2. ~d.used
  BY <1>1 DEF PmpCap
<1>3. cap'[c] = d /\ \A e \in Cte \ {c} : cap'[e] = cap[e]
  <2>1. cap' = [cap EXCEPT ![c] = d]
    BY DEF cap_pmp_unload
  <2>. HIDE DEF d
  <2>. QED BY <2>1, <1>1
<1>4. IsLoaded(cap[c]) /\ ~IsLoaded(d)
  BY <1>1, <1>2 DEF IsLoaded
<1>5. pmp' = proc_pmp_unload(cte_pid(c), cap[c].slot)
  BY DEF cap_pmp_unload
<1>. HIDE DEF d
<1>. QED BY <1>3, <1>4, <1>5, ClearKeeps

LEMMA InitPmp == Init => PmpInv
<1>. SUFFICES ASSUME Init PROVE PmpInv
  OBVIOUS
<1>1. PICK n \in Nat \ {0} : BootTable(n)
  BY BootLoads
<1>2. \A c \in Cte : IsLoaded(cap[c]) => c = 0
  <2>1. ASSUME NEW c \in Cte, c # 0, c \in Occupied PROVE ~IsLoaded(cap[c])
    <3>1. c \in DOMAIN InitCaps /\ cap[c] = InitCaps[c]
      BY <1>1, <2>1 DEF BootTable
    <3>. QED BY <3>1, InitResourcesAssumption DEF IsLoaded
  <2>2. ASSUME NEW c \in Cte, c \notin Occupied PROVE ~IsLoaded(cap[c])
    BY <2>2 DEF Occupied, cte_is_empty, IsLoaded
  <2>. QED BY <2>1, <2>2
<1>3. cte_pid(0) = 0 /\ 0 \in PmpSlot /\ 0 \in Cte /\ 0 \in Pid
  BY CteBounds, CapTypesAssumption DEF cte_pid, PmpSlot
<1>4. /\ cap[0] = BootCap
      /\ cap[0].slot = 0
      /\ IsLoaded(cap[0])
  BY <1>1, BootCapType DEF BootTable, IsLoaded
<1>5. Loading(BootCap) = [on |-> TRUE, rwx |-> InitCaps[0].rwx,
                          addr |-> InitCaps[0].addr]
  BY BootCapType DEF Loading
<1>6. \A p \in Pid, s \in PmpSlot :
          pmp[p][s] = IF p = 0 /\ s = 0 THEN Loading(BootCap) ELSE NoPmp
  BY <1>5 DEF Init, proc_init
<1>7. \A p \in Pid, s \in PmpSlot, c \in Cte :
          Loads(c, p, s) <=> c = 0 /\ p = 0 /\ s = 0
  BY <1>2, <1>3, <1>4 DEF Loads
<1>8. ~NoPmp.on
  BY DEF NoPmp
<1>. QED BY <1>3, <1>4, <1>6, <1>7, <1>8 DEF PmpInv

LEMMA NextPmp == IInv /\ PmpInv /\ [Next]_vars => PmpInv'
<1>. SUFFICES ASSUME IInv, PmpInv, [Next]_vars PROVE PmpInv'
  OBVIOUS
<1>1. TableInv
  BY DEF IInv
<1>2. CASE Operation
  BY <1>1, <1>2, MovePmp, DeletePmp, DerivePmp, RevokePmp, ResetPmp, LoadPmp,
     UnloadPmp DEF Operation
<1>3. CASE UNCHANGED <<tableVars, resourceVars>>
  BY <1>3, SameLoadsKeep DEF tableVars, resourceVars
<1>. QED BY <1>2, <1>3, Operations

(***************************************************************************)
(* At any time a PMP register of a process is on if and only if exactly one*)
(* loaded capability of that process names it, and it grants that frame    *)
(* with those permissions, through all the moves, deletions, revocations   *)
(* and loads of all the processes (cap_ops.c, cap_pmp.c, proc.c).          *)
(***************************************************************************)
THEOREM RegistersMatchCaps == Spec => []PmpMatchesCaps
<1>1. PmpInv => PmpMatchesCaps
  <2>. SUFFICES ASSUME PmpInv PROVE PmpMatchesCaps
    OBVIOUS
  <2>. DEFINE Loaded(p, s) == {c \in CapsOf("pmp") : /\ cte_pid(c) = p
                                                     /\ cap[c].used
                                                     /\ cap[c].slot = s}
              Match(p, s) ==
                  \/ /\ Loaded(p, s) = {}
                     /\ ~pmp[p][s].on
                  \/ \E c \in Cte :
                        /\ Loaded(p, s) = {c}
                        /\ pmp[p][s] = [on |-> TRUE, rwx |-> cap[c].rwx,
                                        addr |-> cap[c].addr]
  <2>. SUFFICES ASSUME NEW p \in Pid, NEW s \in PmpSlot PROVE Match(p, s)
    BY DEF PmpMatchesCaps
  <2>. DEFINE L == Loaded(p, s)
  <2>1. \A c : c \in L <=> c \in Cte /\ Loads(c, p, s)
    BY DEF Loads, IsLoaded, CapsOf
  <2>. HIDE DEF L
  <2>2. CASE \E c \in Cte : Loads(c, p, s)
    <3>1. PICK c \in Cte : Loads(c, p, s)
      BY <2>2
    <3>2. L = {c}
      BY <2>1, <3>1 DEF PmpInv
    <3>3. pmp[p][s] = [on |-> TRUE, rwx |-> cap[c].rwx, addr |-> cap[c].addr]
      BY <3>1 DEF PmpInv, Loading
    <3>. QED BY <3>2, <3>3 DEF L
  <2>3. CASE ~\E c \in Cte : Loads(c, p, s)
    <3>1. L = {} /\ ~pmp[p][s].on
      BY <2>1, <2>3 DEF PmpInv
    <3>. QED BY <3>1 DEF L
  <2>. QED BY <2>2, <2>3
<1>. QED BY <1>1, InitInv, NextInv, InitPmp, NextPmp, PTL DEF Spec

-----------------------------------------------------------------------------
(***************************************************************************)
(* Slices.  A slice has room left from Lo to Hi, a server socket stands for*)
(* its channel as a slice of one, and a client socket shares its server's. *)
(***************************************************************************)
Kind(c) == IF c.type = "socket" THEN "channel" ELSE c.type

SameKind(c, d) ==
    /\ Kind(c) = Kind(d)
    /\ Kind(c) \in SliceType
    /\ c.type = "time" => c.hart = d.hart
    /\ c.type = "memory" => c.tag = d.tag

Lo(c) == IF c.type = "socket" THEN c.chan ELSE c.mrk
Hi(c) == IF c.type = "socket" THEN c.chan + 1 ELSE c.end

\* d could be a client of the socket c.
ClientOf(d, c) ==
    c.type = "socket" /\ d.type = "socket" /\ d.chan = c.chan /\ d.tag # 0

\* What comes later in the list lies below the mark of what comes before it.
Descending(r) ==
    \A c, d \in Occupied :
        r[c] < r[d] /\ SameKind(cap[c], cap[d])
            => Hi(cap[d]) <= Lo(cap[c]) \/ ClientOf(cap[d], cap[c])

\* The clients of a socket follow it without a gap.
Together(r) ==
    \A c, x, d \in Occupied :
        r[c] < r[x] /\ r[x] < r[d] /\ ClientOf(cap[d], cap[c])
            => ClientOf(cap[x], cap[c])

(***************************************************************************)
(* The resources whose marks lie inside their slices at boot.  Channels are*)
(* among them only where no process derives one channel capability from    *)
(* another: revoking one then deletes siblings, and takes over their marks *)
(* (cap_revoke_channel).                                                   *)
(***************************************************************************)
Inside ==
    {t \in SliceType :
        /\ \A i \in DOMAIN InitCaps :
              LET c == InitCaps[i]
              IN  c.type = t => c.bgn <= c.mrk /\ c.mrk <= c.end
        /\ t = "channel" => \A n \in NewCaps : n.type # "channel"}

Inner == {c \in Cte : cap[c].type \in Inside}

LEMMA InsideTypes == \A t \in Inside : t \in SliceType
  BY DEF Inside

Marked == \A c \in Inner : cap[c].bgn <= cap[c].mrk /\ cap[c].mrk <= cap[c].end

\* A later slice lies inside an earlier one or below it.
Nested(r) ==
    \A c, d \in Inner :
        r[c] < r[d] /\ SameKind(cap[c], cap[d])
            => cap[d].end <= cap[c].bgn \/ cap[c].bgn <= cap[d].bgn

LEMMA Bounds ==
    ASSUME NEW c \in Cap, Kind(c) \in SliceType
    PROVE  /\ Lo(c) \in Nat /\ Hi(c) \in Nat
           /\ c.type \in SliceType =>
                /\ c.bgn \in Nat /\ c.mrk \in Nat /\ c.end \in Nat
                /\ Lo(c) = c.mrk /\ Hi(c) = c.end
  BY CapCases DEF Kind, Lo, Hi, SliceType, TimeCap, MemCap, MonCap, ChanCap, SockCap

LEMMA KindFacts ==
    ASSUME NEW c, NEW d
    PROVE  /\ SameKind(c, d) => SameKind(d, c)
           /\ \A e : SameKind(c, d) /\ SameKind(d, e) => SameKind(c, e)
           /\ SameKind(c, d) => Kind(c) \in SliceType /\ Kind(d) \in SliceType
           /\ c.type \in SliceType => Kind(c) = c.type
           /\ SameSlice(c, d) => SameKind(c, d) /\ Hi(c) = Hi(d)
           /\ ClientOf(d, c) => SameKind(c, d) /\ Lo(d) = Lo(c) /\ Hi(d) = Hi(c)
  BY DEF SameKind, Kind, SliceType, SameSlice, Hi, Lo, ClientOf

\* n is split off the slice s, of which d is left.
SplitOff(s, n, d) ==
    /\ s.type \in SliceType /\ SameSlice(s, d) /\ SameKind(s, n)
    /\ Lo(s) <= Lo(n) /\ Lo(n) < Hi(n) /\ Hi(n) <= Hi(s) /\ Lo(d) = Hi(n)
    /\ n.type = "socket" => n.tag = 0

\* n is a PMP frame of the memory slice s.
FrameOf(s, n, d) ==
    n.type = "pmp" /\ s.type = "memory" /\ SameSlice(s, d) /\ Lo(d) = Lo(s)

\* n is a client of the server socket s.
ClientFrom(s, n, d) ==
    s.type = "socket" /\ s.tag = 0 /\ d = s /\ ClientOf(n, s)

LEMMA DeriveCases ==
    ASSUME NEW s \in Cap, NEW n \in Cap, cap_is_valid(n), cap_is_derivable(s, n),
           NEW d, d = Derived(s, n)
    PROVE  SplitOff(s, n, d) \/ FrameOf(s, n, d) \/ ClientFrom(s, n, d)
<1>1. /\ s.type \in SliceType => SameSlice(s, d)
      /\ n.type \in SliceType => d.mrk = n.end
      /\ n.type = "pmp" => s.type = "memory" /\ d.mrk = s.mrk
      /\ n.type = "socket" /\ n.tag = 0
           => s.type = "channel" /\ d.mrk = n.chan + 1
      /\ n.type = "socket" /\ n.tag # 0 => s.type = "socket" /\ d = s
  BY DerivedType
<1>2. CASE n.type \in SliceType
  <2>1. n.bgn = n.mrk /\ n.bgn < n.end
    BY <1>2 DEF cap_is_valid, SliceType
  <2>2. /\ s.type = n.type
        /\ s.mrk <= n.bgn /\ n.end <= s.end
        /\ s.type = "time" => s.hart = n.hart
        /\ s.type = "memory" => s.tag = n.tag
    <3>1. CASE n.type = "time"
      BY <3>1, CapCases DEF cap_is_derivable, cap_time_derivable, cap_mem_derivable,
         cap_mon_derivable, cap_chan_derivable, cap_sock_derivable, is_range_prefix,
         TimeCap
    <3>2. CASE n.type # "time"
      BY <1>2, <3>2 DEF cap_is_derivable, cap_time_derivable, cap_mem_derivable,
         cap_mon_derivable, cap_chan_derivable, cap_sock_derivable, is_range_subset,
         SliceType
    <3>. QED BY <3>1, <3>2
  <2>3. SameSlice(s, d) /\ d.mrk = n.end
    BY <1>1, <1>2, <2>2
  <2>4. SplitOff(s, n, d)
    BY <1>2, <2>1, <2>2, <2>3 DEF SplitOff, SameKind, Kind, Lo, Hi, SliceType, SameSlice
  <2>. QED BY <2>4
<1>3. CASE n.type = "pmp"
  BY <1>1, <1>3 DEF FrameOf, SameSlice, Lo, SliceType
<1>4. CASE n.type = "socket" /\ n.tag = 0
  <2>1. s.type = "channel" /\ s \in ChanCap /\ n \in SockCap
        /\ SameSlice(s, d) /\ d.mrk = n.chan + 1
    BY <1>1, <1>4, CapCases DEF SliceType
  <2>2. s.mrk <= n.chan /\ n.chan + 1 <= s.end
    BY <1>4, <2>1 DEF cap_is_derivable, cap_chan_derivable, is_range_subset
  <2>3. n.chan \in Nat
    BY <2>1 DEF SockCap
  <2>. QED BY <1>4, <2>1, <2>2, <2>3
           DEF SplitOff, SameKind, Kind, Lo, Hi, SliceType, SameSlice
<1>5. CASE n.type = "socket" /\ n.tag # 0
  BY <1>1, <1>5 DEF ClientFrom, ClientOf, cap_is_derivable, cap_sock_derivable
<1>. QED BY <1>2, <1>3, <1>4, <1>5 DEF cap_is_valid

-----------------------------------------------------------------------------
(* The order of the slices, when entries move or go. *)

\* Equal, or both PMP frames.
Alike(c, d) == c = d \/ (c.type = "pmp" /\ d.type = "pmp")

LEMMA AlikeFacts ==
    ASSUME NEW a, NEW b, NEW c, NEW d, Alike(a, c), Alike(b, d)
    PROVE  /\ SameKind(a, b) => a = c /\ b = d
           /\ ClientOf(b, a) => a = c /\ b = d
           /\ ClientOf(d, c) => a = c /\ b = d
           /\ a.type = c.type
  BY DEF Alike, SameKind, Kind, ClientOf, SliceType

LEMMA Transfer ==
    ASSUME NEW r \in [Cte -> Int], NEW t \in [Cte -> Int],
           NEW m \in [Occupied' -> Occupied],
           \A x \in Occupied' : t[x] = r[m[x]] /\ Alike(cap'[x], cap[m[x]])
    PROVE  /\ Descending(r) => Descending(t)'
           /\ Together(r) => Together(t)'
           /\ Nested(r) => Nested(t)'
<1>1. \A x \in Occupied' : /\ m[x] \in Occupied /\ t[x] = r[m[x]]
                           /\ cap'[x].type = cap[m[x]].type
  BY AlikeFacts
<1>2. ASSUME NEW x \in Occupied', NEW y \in Occupied', SameKind(cap'[x], cap'[y])
      PROVE  cap'[x] = cap[m[x]] /\ cap'[y] = cap[m[y]]
  BY <1>2, AlikeFacts
<1>3. ASSUME Descending(r), NEW x \in Occupied', NEW y \in Occupied',
             t[x] < t[y], SameKind(cap'[x], cap'[y])
      PROVE  Hi(cap'[y]) <= Lo(cap'[x]) \/ ClientOf(cap'[y], cap'[x])
  <2>. DEFINE a == m[x]
              b == m[y]
  <2>1. /\ a \in Occupied /\ b \in Occupied /\ r[a] < r[b]
        /\ cap'[x] = cap[a] /\ cap'[y] = cap[b]
    BY <1>1, <1>2, <1>3
  <2>. HIDE DEF a, b
  <2>. QED BY <2>1, <1>3 DEF Descending
<1>4. ASSUME Together(r), NEW c \in Occupied', NEW x \in Occupied', NEW d \in Occupied',
             t[c] < t[x], t[x] < t[d], ClientOf(cap'[d], cap'[c])
      PROVE  ClientOf(cap'[x], cap'[c])
  <2>1. cap'[c] = cap[m[c]] /\ cap'[d] = cap[m[d]]
    BY <1>4, AlikeFacts
  <2>2. ClientOf(cap[m[x]], cap[m[c]])
    BY <1>1, <1>4, <2>1 DEF Together
  <2>. QED BY <1>4, <2>1, <2>2, AlikeFacts
<1>5. ASSUME Nested(r), NEW x \in Inner', NEW y \in Inner',
             t[x] < t[y], SameKind(cap'[x], cap'[y])
      PROVE  cap'[y].end <= cap'[x].bgn \/ cap'[x].bgn <= cap'[y].bgn
  <2>. DEFINE a == m[x]
              b == m[y]
  <2>1. x \in Occupied' /\ y \in Occupied'
    BY <1>5, InsideTypes DEF Inner, Occupied, cte_is_empty, SliceType
  <2>2. /\ a \in Occupied /\ b \in Occupied /\ r[a] < r[b]
        /\ cap'[x] = cap[a] /\ cap'[y] = cap[b]
    BY <1>1, <1>2, <1>5, <2>1
  <2>. HIDE DEF a, b
  <2>3. a \in Inner /\ b \in Inner
    BY <1>5, <2>2 DEF Inner, Occupied
  <2>. QED BY <2>2, <2>3, <1>5 DEF Nested
<1>. QED BY <1>3, <1>4, <1>5 DEF Descending, Together, Nested

\* Entries move, go, or change as PMP frames.
LEMMA RelocateOrder ==
    ASSUME TableInv, NEW r \in [Cte -> Int], NEW t \in [Cte -> Int],
           NEW src \in Occupied, NEW dst \in Occupied',
           t[dst] = r[src], Alike(cap'[dst], cap[src]),
           \A x \in Occupied' \ {dst} :
               x \in Occupied /\ t[x] = r[x] /\ Alike(cap'[x], cap[x])
    PROVE  /\ Descending(r) => Descending(t)'
           /\ Together(r) => Together(t)'
           /\ Nested(r) => Nested(t)'
<1>. DEFINE m == [x \in Occupied' |-> IF x = dst THEN src ELSE x]
<1>1. m \in [Occupied' -> Occupied]
  OBVIOUS
<1>2. \A x \in Occupied' : t[x] = r[m[x]] /\ Alike(cap'[x], cap[m[x]])
  OBVIOUS
<1>. HIDE DEF m
<1>. QED BY <1>1, <1>2, Transfer

-----------------------------------------------------------------------------
(***************************************************************************)
(* The order of the slices after a derivation: t places dst right after    *)
(* src, and s is what is left in src of cap[src] once n is in dst.         *)
(***************************************************************************)
Derives(r, t, src, dst) ==
    LET s == cap[src]
        n == cap'[dst]
        d == cap'[src] IN
    /\ src \in Occupied /\ dst \notin Occupied
    /\ Occupied' = Occupied \cup {dst}
    /\ s \in Cap /\ n \in Cap /\ d \in Cap
    /\ \A x \in Occupied \ {src} : cap'[x] = cap[x] /\ cap[x] \in Cap
    /\ SplitOff(s, n, d) \/ FrameOf(s, n, d) \/ ClientFrom(s, n, d)
    /\ \A x, y \in Occupied : t[x] < t[y] <=> r[x] < r[y]
    /\ \A x \in Occupied : /\ t[x] < t[dst] <=> x = src \/ r[x] < r[src]
                           /\ t[dst] < t[x] <=> r[src] < r[x]
    /\ ~(t[dst] < t[dst]) /\ ~(r[src] < r[src])

\* The capability left behind compares with others as the old one, and the new
\* one, if it is no frame, too.
LEMMA DeriveKinds ==
    ASSUME NEW s \in Cap, NEW n \in Cap, NEW d \in Cap,
           SplitOff(s, n, d) \/ FrameOf(s, n, d) \/ ClientFrom(s, n, d)
    PROVE  /\ Hi(d) = Hi(s) /\ s.type = d.type
           /\ \A x : /\ SameKind(d, x) => SameKind(s, x)
                     /\ SameKind(x, d) => SameKind(x, s)
                     /\ SameKind(n, x) => SameKind(s, x)
                     /\ SameKind(x, n) => SameKind(x, s)
                     /\ ClientOf(x, s) <=> ClientOf(x, d)
                     /\ ClientOf(s, x) <=> ClientOf(d, x)
                     /\ ~ClientOf(s, x)
<1>1. CASE s.type \in SliceType /\ SameSlice(s, d)
  <2>1. SameKind(s, d) /\ SameKind(d, s) /\ Hi(d) = Hi(s) /\ s.type = d.type
    BY <1>1, KindFacts DEF SameSlice
  <2>2. SameKind(s, n) \/ n.type = "pmp"
    BY <1>1 DEF SplitOff, FrameOf, ClientFrom, SliceType
  <2>3. ASSUME n.type = "pmp", NEW x PROVE ~SameKind(n, x) /\ ~SameKind(x, n)
    BY <2>3 DEF SameKind, Kind, SliceType
  <2>4. s.type # "socket"
    BY <1>1 DEF SliceType
  <2>5. ASSUME NEW x
        PROVE  /\ SameKind(d, x) => SameKind(s, x)
               /\ SameKind(x, d) => SameKind(x, s)
               /\ SameKind(n, x) => SameKind(s, x)
               /\ SameKind(x, n) => SameKind(x, s)
    <3>1. (SameKind(d, x) => SameKind(s, x)) /\ (SameKind(x, d) => SameKind(x, s))
      BY <2>1, KindFacts
    <3>2. (SameKind(n, x) => SameKind(s, x)) /\ (SameKind(x, n) => SameKind(x, s))
      BY <2>2, <2>3, KindFacts
    <3>. QED BY <3>1, <3>2
  <2>6. ASSUME NEW x
        PROVE  /\ ~ClientOf(s, x) /\ ~ClientOf(d, x)
               /\ ~ClientOf(x, s) /\ ~ClientOf(x, d)
    BY <2>1, <2>4 DEF ClientOf
  <2>. QED BY <2>1, <2>5, <2>6
<1>2. CASE ClientFrom(s, n, d)
  <2>1. SameKind(s, n) /\ d = s /\ s.tag = 0
    BY <1>2, KindFacts DEF ClientFrom
  <2>. QED BY <2>1, KindFacts DEF ClientOf
<1>. QED BY <1>1, <1>2 DEF SplitOff, FrameOf, SliceType

LEMMA DeriveDescending ==
    ASSUME NEW r, NEW t, NEW src, NEW dst, Derives(r, t, src, dst), Descending(r)
    PROVE  Descending(t)'
<1>. DEFINE s == cap[src]
            n == cap'[dst]
            d == cap'[src]
<1>1. /\ src \in Occupied /\ dst \notin Occupied
      /\ Occupied' = Occupied \cup {dst}
      /\ s \in Cap /\ n \in Cap /\ d \in Cap
      /\ \A x \in Occupied \ {src} : cap'[x] = cap[x] /\ cap[x] \in Cap
      /\ \A x, y \in Occupied : t[x] < t[y] <=> r[x] < r[y]
      /\ \A x \in Occupied : /\ t[x] < t[dst] <=> x = src \/ r[x] < r[src]
                             /\ t[dst] < t[x] <=> r[src] < r[x]
      /\ ~(t[dst] < t[dst]) /\ ~(r[src] < r[src])
  BY DEF Derives
<1>2. SplitOff(s, n, d) \/ FrameOf(s, n, d) \/ ClientFrom(s, n, d)
  BY DEF Derives
<1>3. \A x \in Occupied : cap[x] \in Cap
  BY <1>1
<1>. HIDE DEF s, n, d
<1>4. /\ Hi(d) = Hi(s) /\ s.type = d.type
      /\ \A x : /\ SameKind(d, x) => SameKind(s, x)
                /\ SameKind(x, d) => SameKind(x, s)
                /\ SameKind(n, x) => SameKind(s, x)
                /\ SameKind(x, n) => SameKind(x, s)
                /\ ClientOf(x, s) <=> ClientOf(x, d)
                /\ ~ClientOf(s, x)
  BY <1>1, <1>2, DeriveKinds
<1>. SUFFICES ASSUME NEW x \in Occupied', NEW y \in Occupied',
                     t[x] < t[y], SameKind(cap'[x], cap'[y])
     PROVE  Hi(cap'[y]) <= Lo(cap'[x]) \/ ClientOf(cap'[y], cap'[x])
  BY DEF Descending
<1>5. ASSUME NEW e \in Occupied, r[src] < r[e], SameKind(s, cap[e])
      PROVE  Hi(cap[e]) <= Lo(s) \/ ClientOf(cap[e], s)
  BY <1>5, <1>1 DEF Descending, s
<1>6. ASSUME NEW e \in Occupied, r[e] < r[src], SameKind(cap[e], s)
      PROVE  Hi(s) <= Lo(cap[e])
  BY <1>6, <1>1, <1>4 DEF Descending, s
<1>7. CASE x = src /\ y = dst
  <2>1. SplitOff(s, n, d) => Hi(n) <= Lo(d)
    <3>1. ASSUME SplitOff(s, n, d) PROVE Hi(n) \in Nat
      BY <3>1, <1>1, Bounds, KindFacts DEF SplitOff
    <3>. QED BY <3>1 DEF SplitOff
  <2>2. ~FrameOf(s, n, d)
    BY <1>7 DEF FrameOf, SameKind, Kind, SliceType, n
  <2>3. ClientFrom(s, n, d) => ClientOf(n, d)
    BY DEF ClientFrom
  <2>. QED BY <1>2, <1>7, <2>1, <2>2, <2>3 DEF n, d
<1>8. CASE x = src /\ y \in Occupied
  <2>1. cap'[y] = cap[y] /\ r[src] < r[y] /\ SameKind(s, cap[y])
    BY <1>8, <1>1, <1>4 DEF d
  <2>2. Hi(cap[y]) <= Lo(s) \/ ClientOf(cap[y], s)
    BY <1>5, <1>8, <2>1
  <2>3. ASSUME SplitOff(s, n, d) PROVE Lo(s) <= Lo(d) /\ s.type # "socket"
    <3>1. Lo(s) \in Nat /\ Lo(n) \in Nat /\ Hi(n) \in Nat
      BY <2>3, <1>1, Bounds, KindFacts DEF SplitOff
    <3>. QED BY <2>3, <3>1 DEF SplitOff, SliceType
  <2>4. Hi(cap[y]) \in Nat /\ Lo(s) \in Nat /\ Lo(d) \in Nat
    <3>1. SameKind(d, cap[y]) /\ cap[y] \in Cap
      BY <1>3, <1>8, <2>1 DEF d
    <3>. QED BY <2>1, <3>1, <1>1, Bounds, KindFacts
  <2>5. Hi(cap[y]) <= Lo(d) \/ ClientOf(cap[y], d)
    <3>1. CASE SplitOff(s, n, d)
      BY <3>1, <2>2, <2>3, <2>4 DEF ClientOf
    <3>2. CASE FrameOf(s, n, d)
      BY <3>2, <2>2, <1>4 DEF FrameOf
    <3>3. CASE ClientFrom(s, n, d)
      BY <3>3, <2>2 DEF ClientFrom
    <3>. QED BY <1>2, <3>1, <3>2, <3>3
  <2>. QED BY <1>8, <2>1, <2>5 DEF d
<1>9. CASE x = dst /\ y = src
  BY <1>9, <1>1
<1>10. CASE x = dst /\ y \in Occupied \ {src}
  <2>1. /\ cap'[y] = cap[y] /\ r[src] < r[y]
        /\ SameKind(n, cap[y]) /\ SameKind(s, cap[y])
    BY <1>10, <1>1, <1>4 DEF n
  <2>2. Hi(cap[y]) <= Lo(s) \/ ClientOf(cap[y], s)
    BY <1>5, <1>10, <2>1
  <2>3. Hi(cap[y]) \in Nat /\ Lo(s) \in Nat /\ Lo(n) \in Nat
    BY <2>1, <1>1, <1>10, Bounds, KindFacts
  <2>4. Hi(cap[y]) <= Lo(n) \/ ClientOf(cap[y], n)
    <3>1. CASE SplitOff(s, n, d)
      BY <3>1, <2>2, <2>3 DEF SplitOff, ClientOf, SliceType
    <3>2. CASE FrameOf(s, n, d)
      BY <3>2, <2>1 DEF FrameOf, SameKind, Kind, SliceType
    <3>3. CASE ClientFrom(s, n, d)
      BY <3>3, <2>2 DEF ClientFrom, ClientOf, Lo
    <3>. QED BY <1>2, <3>1, <3>2, <3>3
  <2>. QED BY <1>10, <2>1, <2>4 DEF n
<1>11. CASE x \in Occupied \ {src} /\ y = dst
  <2>1. cap'[x] = cap[x] /\ r[x] < r[src] /\ SameKind(cap[x], n)
        /\ SameKind(cap[x], s)
    BY <1>11, <1>1, <1>4 DEF n
  <2>2. Hi(s) <= Lo(cap[x])
    BY <1>6, <1>11, <2>1
  <2>3. Hi(n) \in Nat /\ Hi(s) \in Nat /\ Lo(cap[x]) \in Nat
    BY <2>1, <1>1, <1>11, Bounds, KindFacts
  <2>4. Hi(n) <= Hi(s)
    <3>1. CASE SplitOff(s, n, d)
      BY <3>1 DEF SplitOff
    <3>2. CASE FrameOf(s, n, d)
      BY <3>2, <2>1 DEF FrameOf, SameKind, Kind, SliceType
    <3>3. CASE ClientFrom(s, n, d)
      BY <3>3, <2>3 DEF ClientFrom, ClientOf, Hi
    <3>. QED BY <1>2, <3>1, <3>2, <3>3
  <2>. QED BY <1>11, <2>1, <2>2, <2>3, <2>4 DEF n
<1>12. CASE x \in Occupied \ {src} /\ y = src
  <2>1. cap'[x] = cap[x] /\ r[x] < r[src] /\ SameKind(cap[x], s)
    BY <1>12, <1>1, <1>4 DEF d
  <2>. QED BY <1>4, <1>6, <1>12, <2>1 DEF d
<1>13. CASE x \in Occupied \ {src} /\ y \in Occupied \ {src}
  <2>1. cap'[x] = cap[x] /\ cap'[y] = cap[y] /\ r[x] < r[y]
    BY <1>13, <1>1
  <2>. QED BY <1>13, <2>1 DEF Descending
<1>14. CASE x = dst /\ y = dst
  BY <1>14, <1>1
<1>15. CASE x = src /\ y = src
  BY <1>15, <1>1
<1>. QED BY <1>1, <1>7, <1>8, <1>9, <1>10, <1>11, <1>12, <1>13, <1>14, <1>15

LEMMA DeriveTogether ==
    ASSUME NEW r \in [Cte -> Int], NEW t \in [Cte -> Int], NEW src, NEW dst \in Cte,
           Derives(r, t, src, dst), Descending(r), Together(r)
    PROVE  Together(t)'
<1>. DEFINE s == cap[src]
            n == cap'[dst]
            d == cap'[src]
<1>1. /\ src \in Occupied /\ dst \notin Occupied /\ src \in Cte
      /\ Occupied' = Occupied \cup {dst}
      /\ s \in Cap /\ n \in Cap /\ d \in Cap
      /\ \A x \in Occupied \ {src} : cap'[x] = cap[x] /\ cap[x] \in Cap
      /\ \A x, y \in Occupied : t[x] < t[y] <=> r[x] < r[y]
      /\ \A x \in Occupied : /\ t[x] < t[dst] <=> x = src \/ r[x] < r[src]
                             /\ t[dst] < t[x] <=> r[src] < r[x]
  BY DEF Derives, Occupied
<1>2. SplitOff(s, n, d) \/ FrameOf(s, n, d) \/ ClientFrom(s, n, d)
  BY DEF Derives
<1>3. \A x \in Occupied : x \in Cte /\ cap[x] \in Cap /\ r[x] \in Int /\ t[x] \in Int
  BY <1>1 DEF Occupied
<1>. HIDE DEF s, n, d
<1>4. \A x : /\ SameKind(n, x) => SameKind(s, x)
             /\ ClientOf(x, s) <=> ClientOf(x, d)
             /\ ClientOf(s, x) <=> ClientOf(d, x)
             /\ ~ClientOf(s, x)
  BY <1>1, <1>2, DeriveKinds
<1>5. ASSUME NEW e \in Occupied, r[src] < r[e], SameKind(s, cap[e])
      PROVE  Hi(cap[e]) <= Lo(s) \/ ClientOf(cap[e], s)
  BY <1>5, <1>1 DEF Descending, s
<1>6. ASSUME NEW e \in Occupied, r[e] < r[src], SameKind(cap[e], s)
      PROVE  Hi(s) <= Lo(cap[e])
  BY <1>6, <1>1, <1>4 DEF Descending, s
<1>. SUFFICES ASSUME NEW a \in Occupied', NEW x \in Occupied', NEW z \in Occupied',
                     t[a] < t[x], t[x] < t[z], ClientOf(cap'[z], cap'[a])
     PROVE  ClientOf(cap'[x], cap'[a])
  BY DEF Together
<1>7. CASE z = dst
  <2>1. a \in Occupied /\ x \in Occupied /\ r[a] < r[src] /\ a # src
    BY <1>1, <1>3, <1>7
  <2>2. ClientOf(n, cap[a])
    BY <1>1, <1>7, <2>1 DEF n
  <2>3. ClientFrom(s, n, d)
    BY <1>2, <2>2 DEF SplitOff, FrameOf, ClientOf
  <2>4. SameKind(cap[a], s) /\ Lo(cap[a]) = s.chan /\ Hi(s) = s.chan + 1 /\ s \in SockCap
    BY <2>2, <2>3, <1>1, CapCases
       DEF ClientFrom, ClientOf, SameKind, Kind, SliceType, Lo, Hi
  <2>5. FALSE
    <3>1. s.chan \in Nat
      BY <2>4 DEF SockCap
    <3>. QED BY <1>6, <2>1, <2>4, <3>1
  <2>. QED BY <2>5
<1>8. CASE z # dst /\ x = dst
  <2>1. z \in Occupied /\ z # src /\ r[src] < r[z] /\ cap'[z] = cap[z]
    BY <1>1, <1>3, <1>8
  <2>2. a \in Occupied /\ (a = src \/ r[a] < r[src])
    BY <1>1, <1>3, <1>8
  <2>3. CASE a = src
    <3>1. ClientOf(cap[z], d)
      BY <2>1, <2>3 DEF d
    <3>2. ClientFrom(s, n, d)
      BY <3>1, <1>2, <1>4 DEF SplitOff, FrameOf, ClientOf, SliceType
    <3>3. ClientOf(n, d)
      BY <3>2 DEF ClientFrom
    <3>. QED BY <3>3, <2>3, <1>8 DEF n, d
  <2>4. CASE a # src
    <3>1. r[a] < r[src] /\ cap'[a] = cap[a]
      BY <1>1, <2>2, <2>4
    <3>2. ClientOf(cap[src], cap[a])
      BY <2>1, <2>2, <3>1, <1>1 DEF Together
    <3>. QED BY <3>2, <1>4 DEF s
  <2>. QED BY <2>3, <2>4
<1>9. CASE z # dst /\ x # dst /\ a = dst
  <2>1. /\ x \in Occupied /\ z \in Occupied /\ r[src] < r[x] /\ r[x] < r[z]
        /\ x # src /\ z # src
    BY <1>1, <1>3, <1>9
  <2>2. cap'[x] = cap[x] /\ cap'[z] = cap[z] /\ ClientOf(cap[z], n)
    BY <2>1, <1>1, <1>9 DEF n
  <2>3. ~FrameOf(s, n, d)
    BY <2>2 DEF FrameOf, ClientOf
  <2>4. ASSUME SplitOff(s, n, d) PROVE FALSE
    <3>1. /\ SameKind(s, cap[z]) /\ Hi(cap[z]) = Hi(n) /\ SameKind(s, n)
      <4>1. SameKind(n, cap[z]) /\ Hi(cap[z]) = Hi(n)
        BY <2>2, KindFacts
      <4>. QED BY <4>1, <2>4, <1>4 DEF SplitOff
    <3>2. Hi(n) <= Lo(s) \/ ClientOf(cap[z], s)
      BY <3>1, <1>1, <1>5, <1>3, <2>1
    <3>3. Hi(n) \in Nat /\ Lo(n) \in Nat /\ Lo(s) \in Nat
      BY <3>1, <1>1, Bounds, KindFacts
    <3>. QED BY <3>2, <3>3, <2>4 DEF SplitOff, ClientOf, SliceType
  <2>5. ClientFrom(s, n, d)
    BY <1>2, <2>3, <2>4
  <2>6. ClientOf(cap[z], cap[src])
    BY <2>2, <2>5 DEF ClientFrom, ClientOf, s
  <2>7. ClientOf(cap[x], cap[src])
    BY <2>1, <2>6, <1>1 DEF Together
  <2>8. ClientOf(cap[x], n)
    BY <2>5, <2>7 DEF ClientFrom, ClientOf, s
  <2>. QED BY <2>2, <2>8, <1>9 DEF n
<1>10. CASE z # dst /\ x # dst /\ a # dst
  <2>1. /\ a \in Occupied /\ x \in Occupied /\ z \in Occupied
        /\ r[a] < r[x] /\ r[x] < r[z] /\ a # x /\ a # z
    BY <1>1, <1>3, <1>10
  <2>2. ClientOf(cap[z], cap[a]) /\ z # src
    <3>1. z # src
      BY <1>1, <1>4, <2>1 DEF s, d
    <3>2. CASE a = src
      BY <3>1, <3>2, <2>1, <1>1, <1>4 DEF s, d
    <3>3. CASE a # src
      BY <3>1, <3>3, <2>1, <1>1
    <3>. QED BY <3>1, <3>2, <3>3
  <2>3. ClientOf(cap[x], cap[a])
    BY <2>1, <2>2 DEF Together
  <2>4. x # src
    BY <2>3, <1>4 DEF s
  <2>5. CASE a = src
    BY <2>1, <2>3, <2>4, <2>5, <1>1, <1>4 DEF s, d
  <2>6. CASE a # src
    BY <2>1, <2>3, <2>4, <2>6, <1>1
  <2>. QED BY <2>5, <2>6
<1>. QED BY <1>7, <1>8, <1>9, <1>10

\* The slice x lies inside the slice y or below it.
Within(x, y) == x.end <= y.bgn \/ y.bgn <= x.bgn

LEMMA DeriveNested ==
    ASSUME NEW r \in [Cte -> Int], NEW t \in [Cte -> Int], NEW src, NEW dst \in Cte,
           Derives(r, t, src, dst), Descending(r), Nested(r), Marked,
           cap'[dst].type \in SliceType =>
               cap'[dst].bgn = cap'[dst].mrk /\ cap'[dst].bgn < cap'[dst].end
    PROVE  Nested(t)' /\ Marked'
<1>. DEFINE s == cap[src]
            n == cap'[dst]
            d == cap'[src]
<1>1. /\ src \in Occupied /\ dst \notin Occupied /\ src \in Cte
      /\ Occupied' = Occupied \cup {dst}
      /\ s \in Cap /\ n \in Cap /\ d \in Cap
      /\ \A x \in Occupied \ {src} : cap'[x] = cap[x] /\ cap[x] \in Cap
      /\ \A x, y \in Occupied : t[x] < t[y] <=> r[x] < r[y]
      /\ \A x \in Occupied : /\ t[x] < t[dst] <=> x = src \/ r[x] < r[src]
                             /\ t[dst] < t[x] <=> r[src] < r[x]
  BY DEF Derives, Occupied
<1>2. SplitOff(s, n, d) \/ FrameOf(s, n, d) \/ ClientFrom(s, n, d)
  BY DEF Derives
<1>3. \A x \in Inner' : \/ x = dst
                        \/ x \in Inner /\ x \in Occupied
  BY <1>1, <1>2, InsideTypes DEF Inner, Occupied, cte_is_empty, SliceType,
     SplitOff, FrameOf, ClientFrom, SameSlice
<1>4. n.type \in SliceType => n.bgn = n.mrk /\ n.bgn < n.end
  OBVIOUS
<1>5. \A x \in Occupied : x \in Cte /\ cap[x] \in Cap /\ r[x] \in Int /\ t[x] \in Int
  BY <1>1 DEF Occupied
<1>6. \A x \in Occupied : cap[x].type \in Inside => x \in Inner
  BY <1>5 DEF Inner
<1>7. s.type \in Inside => s.bgn <= s.mrk /\ s.mrk <= s.end
  BY <1>1, <1>6 DEF Marked
<1>. HIDE DEF s, n, d
<1>8. /\ d.type = s.type
      /\ s.type \in SliceType => d.bgn = s.bgn /\ d.end = s.end
      /\ \A x : /\ SameKind(d, x) => SameKind(s, x)
                /\ SameKind(x, d) => SameKind(x, s)
                /\ SameKind(n, x) => SameKind(s, x)
                /\ SameKind(x, n) => SameKind(x, s)
  <2>1. s.type \in SliceType => d.bgn = s.bgn /\ d.end = s.end
    BY <1>2 DEF SplitOff, FrameOf, ClientFrom, SameSlice, SliceType
  <2>. QED BY <2>1, <1>1, <1>2, DeriveKinds
\* The new slice and what is left of the source.
<1>9. ASSUME n.type \in SliceType
      PROVE  /\ s.type \in SliceType /\ s.type = n.type
             /\ s.bgn \in Nat /\ s.mrk \in Nat /\ s.end \in Nat
             /\ n.bgn \in Nat /\ n.end \in Nat
             /\ s.mrk <= n.bgn /\ n.end <= s.end /\ d.mrk = n.end
  <2>1. SplitOff(s, n, d)
    BY <1>2, <1>9 DEF FrameOf, ClientFrom, ClientOf, SliceType
  <2>2. /\ s.type \in SliceType /\ d.type \in SliceType
        /\ Kind(s) \in SliceType /\ Kind(n) \in SliceType /\ Kind(d) \in SliceType
        /\ s.type = n.type
    BY <2>1, <1>8, <1>9, KindFacts DEF SplitOff, SameKind
  <2>3. /\ s.bgn \in Nat /\ Lo(s) = s.mrk /\ s.mrk \in Nat
        /\ s.end \in Nat /\ Hi(s) = s.end
        /\ n.bgn \in Nat /\ Lo(n) = n.mrk /\ n.end \in Nat /\ Hi(n) = n.end
        /\ Lo(d) = d.mrk
    BY <2>2, <1>1, <1>9, Bounds
  <2>. QED BY <2>1, <2>2, <2>3, <1>4, <1>9 DEF SplitOff
<1>10. ASSUME NEW x \in Inner', NEW y \in Inner',
              t[y] < t[x], SameKind(cap'[y], cap'[x])
       PROVE  Within(cap'[x], cap'[y])
  <2>1. ASSUME NEW e \in Occupied, e \in Inner, r[src] < r[e], SameKind(s, cap[e]),
               n.type \in SliceType
        PROVE  cap[e].end <= s.mrk /\ cap[e].end \in Nat
    <3>1. Hi(cap[e]) <= Lo(s) \/ ClientOf(cap[e], s)
      BY <2>1, <1>1 DEF Descending, s
    <3>2. ~ClientOf(cap[e], s)
      BY <2>1, <1>9 DEF ClientOf, SliceType
    <3>3. /\ cap[e] \in Cap /\ cap[e].type \in SliceType
          /\ Kind(cap[e]) \in SliceType /\ Kind(s) \in SliceType
      BY <2>1, <1>5, KindFacts, InsideTypes DEF Inner
    <3>4. Hi(cap[e]) = cap[e].end /\ cap[e].end \in Nat /\ Lo(s) = s.mrk
      BY <2>1, <3>3, <1>1, <1>9, Bounds
    <3>. QED BY <3>1, <3>2, <3>4
  <2>2. ASSUME NEW e \in Occupied, e \in Inner, r[e] < r[src], SameKind(cap[e], s),
               s.type \in Inside
        PROVE  /\ Within(s, cap[e])
               /\ cap[e].bgn \in Nat /\ cap[e].end \in Nat
    <3>1. src \in Inner
      BY <2>2, <1>1 DEF Inner, s
    <3>2. Within(s, cap[e])
      BY <2>2, <3>1 DEF Nested, Within, s
    <3>3. cap[e].bgn \in Nat /\ cap[e].end \in Nat
      BY <2>2, <1>5, Bounds, KindFacts, InsideTypes DEF Inner
    <3>. QED BY <3>2, <3>3
  <2>3. CASE x = dst /\ y = src
    <3>1. n.type \in Inside /\ n.type \in SliceType
      BY <1>10, <2>3, InsideTypes DEF Inner, n
    <3>. QED BY <2>3, <3>1, <1>7, <1>8, <1>9 DEF Within, n, d
  <2>4. CASE x = dst /\ y # dst /\ y # src
    <3>1. n.type \in Inside /\ n.type \in SliceType
      BY <1>10, <2>4, InsideTypes DEF Inner, n
    <3>2. y \in Inner /\ y \in Occupied /\ cap'[y] = cap[y]
      BY <1>1, <1>3, <1>10, <2>4
    <3>3. r[y] < r[src] /\ SameKind(cap[y], s)
      BY <1>1, <1>8, <1>10, <2>4, <3>2 DEF n
    <3>4. Within(s, cap[y]) /\ cap[y].bgn \in Nat
      BY <2>2, <3>2, <3>3, <3>1, <1>9
    <3>. QED BY <2>4, <3>1, <3>2, <3>4, <1>7, <1>9 DEF Within, n
  <2>5. CASE y = dst /\ x # dst
    <3>1. n.type \in Inside /\ n.type \in SliceType
      BY <1>10, <2>5, InsideTypes DEF Inner, n
    <3>2. x \in Inner /\ x \in Occupied /\ r[src] < r[x] /\ x # src
      BY <1>1, <1>3, <1>5, <1>10, <2>5
    <3>3. cap'[x] = cap[x] /\ SameKind(s, cap[x])
      BY <1>1, <1>8, <1>10, <2>5, <3>2 DEF n
    <3>4. cap[x].end <= s.mrk /\ cap[x].end \in Nat
      BY <2>1, <3>1, <3>2, <3>3
    <3>. QED BY <2>5, <3>1, <3>3, <3>4, <1>9 DEF Within, n
  <2>6. CASE y = dst /\ x = dst
    <3>1. t[dst] \in Int
      OBVIOUS
    <3>. QED BY <1>10, <2>6, <3>1
  <2>7. CASE y # dst /\ x # dst
    <3>1. y \in Inner /\ x \in Inner /\ x \in Occupied /\ y \in Occupied /\ r[y] < r[x]
      BY <1>1, <1>3, <1>10, <2>7
    <3>2. x # y
      BY <3>1, <1>5
    <3>3. SameKind(cap[y], cap[x])
      BY <3>1, <3>2, <1>1, <1>8, <1>10 DEF s, d
    <3>4. Within(cap[x], cap[y])
      BY <3>1, <3>3 DEF Nested, Within
    <3>5. /\ cap'[x].bgn = cap[x].bgn /\ cap'[x].end = cap[x].end
          /\ cap'[y].bgn = cap[y].bgn
      BY <3>1, <1>1, <1>8, InsideTypes DEF Inner, s, d
    <3>. QED BY <3>4, <3>5 DEF Within
  <2>. QED BY <2>3, <2>4, <2>5, <2>6, <2>7
<1>11. ASSUME NEW x \in Inner'
       PROVE  cap'[x].bgn <= cap'[x].mrk /\ cap'[x].mrk <= cap'[x].end
  <2>1. CASE x = dst
    <3>1. n.type \in Inside /\ n.type \in SliceType
      BY <1>11, <2>1, InsideTypes DEF Inner, n
    <3>. QED BY <2>1, <3>1, <1>4, <1>9 DEF n
  <2>2. CASE x = src
    <3>1. s.type \in Inside /\ d.type \in SliceType /\ s.type \in SliceType
      BY <1>11, <1>8, <2>2, InsideTypes DEF Inner, d
    <3>2. Lo(s) = s.mrk /\ Hi(s) = s.end /\ Lo(d) = d.mrk /\ Kind(s) \in SliceType
          /\ s.bgn \in Nat /\ s.mrk \in Nat /\ s.end \in Nat /\ d.mrk \in Nat
      BY <3>1, <1>1, Bounds, KindFacts
    <3>3. CASE SplitOff(s, n, d)
      <4>1. Lo(n) \in Nat /\ Hi(n) \in Nat
        BY <3>3, <1>1, Bounds, KindFacts DEF SplitOff
      <4>2. s.mrk <= d.mrk /\ d.mrk <= s.end
        BY <3>2, <3>3, <4>1 DEF SplitOff
      <4>. QED BY <2>2, <3>1, <3>2, <4>2, <1>7, <1>8 DEF d
    <3>4. CASE FrameOf(s, n, d) \/ ClientFrom(s, n, d)
      <4>1. d.mrk = s.mrk
        BY <3>2, <3>4 DEF FrameOf, ClientFrom
      <4>. QED BY <2>2, <3>1, <4>1, <1>7, <1>8 DEF d
    <3>. QED BY <1>2, <3>3, <3>4
  <2>3. CASE x \notin {src, dst}
    <3>1. x \in Inner /\ cap'[x] = cap[x]
      BY <1>1, <1>3, <1>11, <2>3
    <3>. QED BY <3>1 DEF Marked
  <2>. QED BY <2>1, <2>2, <2>3
<1>. QED BY <1>10, <1>11 DEF Nested, Within, Marked

\* What a step of a revocation does to the order of the slices.
LEMMA RevokeOrder ==
    ASSUME TableInv, NEW r \in [Cte -> Int], Ranked(r), Descending(r), Together(r),
           NEW parent \in Cte, cap_revoke(parent)
    PROVE  Ranked(r)' /\ Descending(r)' /\ Together(r)'
<1>. DEFINE child == next[parent]
            p == cap[parent]
            c == cap[child]
            q == cap'[parent]
<1>1. /\ parent \in Occupied
      /\ child \in Occupied /\ child # 0 /\ child # parent
      /\ LinkDelete(child)
      /\ cap' \in [Cte -> Cap]
      /\ cap'[child] = NoCap
      /\ \A d \in Cte \ {child, parent} : cap'[d] = cap[d]
      /\ p.type # "pmp"
      /\ q = p \/ Lowered(p, c, q)
  BY RevokeEffect
<1>2. Occupied' = Occupied \ {child}
  <2>1. p.type # "none"
    BY <1>1 DEF Occupied, cte_is_empty
  <2>2. q.type # "none"
    BY <1>1, <2>1 DEF Lowered, SameSlice
  <2>. QED BY <1>1, <2>2 DEF Occupied, cte_is_empty, NoCap
<1>3. Ranked(r)'
  BY <1>1, <1>2, RankDelete
<1>4. r[parent] < r[child] /\ \A d \in Occupied : r[parent] < r[d] => r[child] <= r[d]
  BY <1>1 DEF Ranked
<1>5. \A x \in Occupied : x \in Cte /\ cap[x] \in Cap /\ r[x] \in Int
  BY DEF Occupied, TableInv, TableType
<1>6. \A d \in Occupied \ {child} : /\ r[parent] < r[d] => r[child] < r[d]
                                    /\ d # parent => cap'[d] = cap[d]
  BY <1>1, <1>4, <1>5 DEF Ranked
<1>. HIDE DEF child, p, c, q
<1>7. /\ Hi(q) = Hi(p)
      /\ \A x : /\ SameKind(q, x) => SameKind(p, x)
                /\ SameKind(x, q) => SameKind(x, p)
                /\ ClientOf(x, q) <=> ClientOf(x, p)
                /\ ClientOf(q, x) <=> ClientOf(p, x)
  <2>1. CASE q = p
    BY <2>1
  <2>2. CASE Lowered(p, c, q)
    <3>1. SameKind(p, q) /\ SameKind(q, p) /\ Hi(q) = Hi(p)
      BY <2>2, KindFacts DEF Lowered
    <3>2. p.type # "socket" /\ q.type # "socket"
      BY <2>2 DEF Lowered, SameSlice, SliceType
    <3>3. ASSUME NEW x
          PROVE  /\ SameKind(q, x) => SameKind(p, x)
                 /\ SameKind(x, q) => SameKind(x, p)
      BY <3>1, KindFacts
    <3>. QED BY <3>1, <3>2, <3>3 DEF ClientOf
  <2>. QED BY <1>1, <2>1, <2>2
<1>8. ASSUME NEW x \in Occupied', NEW y \in Occupied',
             r[x] < r[y], SameKind(cap'[x], cap'[y])
      PROVE  Hi(cap'[y]) <= Lo(cap'[x]) \/ ClientOf(cap'[y], cap'[x])
  <2>1. /\ x \in Occupied /\ y \in Occupied /\ x # child /\ y # child /\ x # y
    BY <1>2, <1>5, <1>8
  <2>2. CASE x # parent
    <3>1. cap'[x] = cap[x] /\ SameKind(cap[x], cap[y]) /\ Hi(cap'[y]) = Hi(cap[y])
          /\ (ClientOf(cap[y], cap[x]) <=> ClientOf(cap'[y], cap[x]))
      <4>1. CASE y = parent
        BY <4>1, <2>1, <2>2, <1>6, <1>7, <1>8 DEF p, q
      <4>2. CASE y # parent
        BY <4>2, <2>1, <2>2, <1>6, <1>8
      <4>. QED BY <4>1, <4>2
    <3>. QED BY <3>1, <2>1, <1>8 DEF Descending
  <2>3. CASE x = parent
    <3>1. /\ cap'[y] = cap[y] /\ SameKind(p, cap[y]) /\ SameKind(q, cap[y])
          /\ r[child] < r[y] /\ r[parent] < r[y]
      BY <2>1, <2>3, <1>6, <1>7, <1>8 DEF q
    <3>2. CASE q = p
      <4>1. Hi(cap[y]) <= Lo(p) \/ ClientOf(cap[y], p)
        BY <3>1, <2>1, <1>1 DEF Descending, p
      <4>. QED BY <4>1, <3>1, <3>2, <2>3 DEF q
    <3>3. CASE Lowered(p, c, q)
      <4>1. SameKind(c, p) /\ c.type # "socket" /\ Lo(c) = c.mrk /\ Lo(q) = q.mrk
        BY <3>3 DEF Lowered, SameSlice, SameKind, Kind, SliceType, Lo
      <4>2. SameKind(c, cap[y])
        BY <4>1, <3>1, KindFacts
      <4>3. Hi(cap[y]) <= Lo(c) \/ ClientOf(cap[y], c)
        BY <4>2, <3>1, <2>1, <1>1 DEF Descending, c
      <4>4. Lo(c) = Lo(q) /\ ~ClientOf(cap[y], c)
        BY <4>1, <3>3 DEF Lowered, ClientOf
      <4>. QED BY <4>3, <4>4, <3>1, <2>3 DEF q
    <3>. QED BY <3>2, <3>3, <1>1
  <2>. QED BY <2>2, <2>3
<1>9. ASSUME NEW a \in Occupied', NEW x \in Occupied', NEW z \in Occupied',
             r[a] < r[x], r[x] < r[z], ClientOf(cap'[z], cap'[a])
      PROVE  ClientOf(cap'[x], cap'[a])
  <2>1. /\ a \in Occupied \ {child} /\ x \in Occupied \ {child} /\ z \in Occupied \ {child}
        /\ a # x /\ x # z /\ a # z
    BY <1>2, <1>5, <1>9
  <2>2. \A u, v \in Occupied \ {child} : u # v =>
            (ClientOf(cap'[u], cap'[v]) <=> ClientOf(cap[u], cap[v]))
    <3>. SUFFICES ASSUME NEW u \in Occupied \ {child}, NEW v \in Occupied \ {child},
                         u # v
         PROVE  ClientOf(cap'[u], cap'[v]) <=> ClientOf(cap[u], cap[v])
      OBVIOUS
    <3>1. CASE u = parent
      BY <3>1, <1>6, <1>7 DEF p, q
    <3>2. CASE v = parent
      BY <3>2, <1>6, <1>7 DEF p, q
    <3>3. CASE u # parent /\ v # parent
      BY <3>3, <1>6
    <3>. QED BY <3>1, <3>2, <3>3
  <2>3. ClientOf(cap[z], cap[a])
    BY <1>9, <2>1, <2>2
  <2>4. ClientOf(cap[x], cap[a])
    BY <1>9, <2>1, <2>3 DEF Together
  <2>. QED BY <2>1, <2>2, <2>4
<1>10. Descending(r)' /\ Together(r)'
  BY <1>8, <1>9 DEF Descending, Together
<1>. QED BY <1>3, <1>10

\* The same with the slices' beginnings and marks, but for two channels.
LEMMA RevokeNested ==
    ASSUME TableInv, NEW r \in [Cte -> Int], Ranked(r), Descending(r), Nested(r),
           Marked, NEW parent \in Cte, cap_revoke(parent),
           "channel" \in Inside =>
               ~(cap[parent].type = "channel" /\ cap[next[parent]].type = "channel")
    PROVE  Nested(r)' /\ Marked'
<1>. DEFINE child == next[parent]
            p == cap[parent]
            c == cap[child]
            q == cap'[parent]
<1>1. /\ parent \in Occupied
      /\ child \in Occupied /\ child # 0 /\ child # parent
      /\ cap'[child] = NoCap
      /\ \A d \in Cte \ {child, parent} : cap'[d] = cap[d]
      /\ q = p \/ Lowered(p, c, q)
  BY RevokeEffect
<1>2. r[parent] < r[child] /\ parent \in Cte /\ child \in Cte /\ p \in Cap /\ c \in Cap
  BY <1>1 DEF Ranked, Occupied, TableInv, TableType
<1>3. "channel" \in Inside => ~(p.type = "channel" /\ c.type = "channel")
  OBVIOUS
<1>. HIDE DEF child, p, c, q
<1>4. /\ q.type = p.type
      /\ p.type \in SliceType => q.bgn = p.bgn /\ q.end = p.end
      /\ \A x : /\ SameKind(q, x) => SameKind(p, x)
                /\ SameKind(x, q) => SameKind(x, p)
  <2>1. CASE q = p
    BY <2>1
  <2>2. CASE Lowered(p, c, q)
    <3>1. SameKind(p, q) /\ SameKind(q, p)
      BY <2>2, KindFacts DEF Lowered
    <3>2. ASSUME NEW x
          PROVE  /\ SameKind(q, x) => SameKind(p, x)
                 /\ SameKind(x, q) => SameKind(x, p)
      BY <3>1, KindFacts
    <3>. QED BY <2>2, <3>2 DEF Lowered, SameSlice
  <2>. QED BY <1>1, <2>1, <2>2
<1>5. \A x \in Inner' : x \in Inner /\ x # child /\ (x # parent => cap'[x] = cap[x])
  BY <1>1, <1>2, <1>4, InsideTypes DEF Inner, NoCap, SliceType, p, q
<1>6. ASSUME NEW x \in Inner', NEW y \in Inner', r[x] < r[y],
             SameKind(cap'[x], cap'[y])
      PROVE  cap'[y].end <= cap'[x].bgn \/ cap'[x].bgn <= cap'[y].bgn
  <2>1. x # y
    BY <1>6 DEF Inner
  <2>2. SameKind(cap[x], cap[y])
    <3>1. CASE x = parent
      BY <3>1, <2>1, <1>4, <1>5, <1>6 DEF p, q
    <3>2. CASE y = parent
      BY <3>2, <2>1, <1>4, <1>5, <1>6 DEF p, q
    <3>3. CASE x # parent /\ y # parent
      BY <3>3, <1>5, <1>6
    <3>. QED BY <3>1, <3>2, <3>3
  <2>3. \A z \in {x, y} : cap'[z].bgn = cap[z].bgn /\ cap'[z].end = cap[z].end
    BY <1>4, <1>5, InsideTypes DEF Inner, p, q
  <2>4. cap[y].end <= cap[x].bgn \/ cap[x].bgn <= cap[y].bgn
    BY <2>2, <1>5, <1>6 DEF Nested
  <2>. QED BY <2>3, <2>4
<1>7. ASSUME NEW x \in Inner'
      PROVE  cap'[x].bgn <= cap'[x].mrk /\ cap'[x].mrk <= cap'[x].end
  <2>1. CASE x # parent
    BY <2>1, <1>5, <1>7 DEF Marked
  <2>2. CASE x = parent /\ q = p
    BY <2>2, <1>5, <1>7 DEF Marked, p, q
  <2>3. CASE x = parent /\ Lowered(p, c, q)
    <3>1. /\ parent \in Inner /\ child \in Inner
          /\ p.type \in SliceType /\ c.type \in SliceType
          /\ p.type # "channel"
      BY <1>7, <2>3, <1>2, <1>3, <1>4, InsideTypes DEF Lowered, SameSlice, Inner, p, c, q
    <3>2. SameKind(p, c)
      BY <2>3, <3>1 DEF Lowered, SameKind, Kind, SliceType
    <3>3. /\ Lo(p) = p.mrk /\ Hi(c) = c.end
          /\ p.bgn \in Nat /\ p.mrk \in Nat /\ p.end \in Nat
          /\ c.bgn \in Nat /\ c.mrk \in Nat /\ c.end \in Nat
      <4>1. Kind(p) \in SliceType /\ Kind(c) \in SliceType
        BY <3>2, KindFacts
      <4>2. Lo(p) = p.mrk /\ p.bgn \in Nat /\ p.mrk \in Nat /\ p.end \in Nat
        BY <3>1, <4>1, <1>2, Bounds
      <4>3. Hi(c) = c.end /\ c.bgn \in Nat /\ c.mrk \in Nat /\ c.end \in Nat
        BY <3>1, <4>1, <1>2, Bounds
      <4>. QED BY <4>2, <4>3
    <3>4. c.end <= p.mrk
      <4>1. Hi(c) <= Lo(p) \/ ClientOf(c, p)
        BY <3>2, <1>1, <1>2 DEF Descending, p, c
      <4>. QED BY <4>1, <3>1, <3>3 DEF ClientOf, SliceType
    <3>5. c.end <= p.bgn \/ p.bgn <= c.bgn
      BY <3>1, <3>2, <1>2 DEF Nested, p, c
    <3>6. c.end > p.bgn
      BY <2>3, <3>1 DEF Lowered
    <3>7. /\ p.mrk <= p.end /\ c.bgn <= c.mrk /\ c.mrk <= c.end
      BY <3>1 DEF Marked, p, c
    <3>8. p.bgn <= c.mrk /\ c.mrk <= p.end
      BY <3>3, <3>4, <3>5, <3>6, <3>7
    <3>9. q.mrk = c.mrk /\ q.bgn = p.bgn /\ q.end = p.end
      BY <2>3 DEF Lowered, SameSlice
    <3>. QED BY <2>3, <3>8, <3>9 DEF q
  <2>. QED BY <2>1, <2>2, <2>3, <1>1
<1>. QED BY <1>6, <1>7 DEF Nested, Marked

-----------------------------------------------------------------------------
(***************************************************************************)
(* The invariant of the slices.                                            *)
(***************************************************************************)
AsBuilt == ~ErrSigned /\ ErrRange > 1

OneChannel == \A c, d \in CapsOf("channel") : c = d

InOrder(r) == Ranked(r) /\ Descending(r) /\ Together(r) /\ Nested(r)

SliceInv ==
    /\ \E r \in [Cte -> Int] : InOrder(r)
    /\ Marked
    /\ "channel" \in Inside => OneChannel

LEMMA RelocateSlices ==
    ASSUME TableInv, NEW r \in [Cte -> Int], NEW t \in [Cte -> Int],
           SliceInv, InOrder(r), Ranked(t)',
           NEW src \in Occupied, NEW dst \in Occupied',
           dst \in Occupied => dst = src,
           t[dst] = r[src], Alike(cap'[dst], cap[src]),
           \A x \in Occupied' \ {dst} :
               x \in Occupied /\ x # src /\ t[x] = r[x] /\ Alike(cap'[x], cap[x])
    PROVE  SliceInv'
<1>1. InOrder(t)'
  BY RelocateOrder DEF InOrder
<1>2. \A x \in Occupied' \ {dst} :
          x \in Occupied /\ x # src /\ Alike(cap'[x], cap[x])
  OBVIOUS
<1>3. \A x \in Slices' : /\ x = dst => src \in Slices /\ cap'[x] = cap[src]
                         /\ x # dst => x \in Slices /\ x # src /\ cap'[x] = cap[x]
  BY <1>2 DEF Slices, Occupied, cte_is_empty, SliceType, Alike
<1>4. Marked'
  <2>. SUFFICES ASSUME NEW x \in Inner'
       PROVE  cap'[x].bgn <= cap'[x].mrk /\ cap'[x].mrk <= cap'[x].end
    BY DEF Marked
  <2>1. x \in Slices'
    BY InsideTypes DEF Inner, Slices
  <2>. QED BY <2>1, <1>3 DEF Inner, SliceInv, Marked, Slices
<1>5. OneChannel => OneChannel'
  <2>. SUFFICES ASSUME OneChannel, NEW c \in CapsOf("channel")',
                       NEW d \in CapsOf("channel")'
       PROVE  c = d
    BY DEF OneChannel
  <2>1. c \in Slices' /\ d \in Slices'
    BY DEF CapsOf, Slices, SliceType
  <2>2. /\ c = dst => src \in CapsOf("channel")
        /\ c # dst => c \in CapsOf("channel") /\ c # src
        /\ d = dst => src \in CapsOf("channel")
        /\ d # dst => d \in CapsOf("channel") /\ d # src
    BY <2>1, <1>3 DEF CapsOf, Slices
  <2>. QED BY <2>2 DEF OneChannel
<1>. QED BY <1>1, <1>4, <1>5 DEF SliceInv

LEMMA MoveEffect ==
    ASSUME TableInv, NEW src \in Cte, NEW dst \in Cte, cap_move(src, dst)
    PROVE  /\ src \in Occupied /\ cte_is_empty(dst) /\ src # dst
           /\ LinkMove(src, dst)
           /\ Occupied' = (Occupied \ {src}) \cup {dst}
           /\ Alike(cap'[dst], cap[src])
           /\ cap'[dst] = cap[src] \/ cap'[dst] = Unloaded(cap[src])
           /\ \A c \in Cte \ {src, dst} : cap'[c] = cap[c]
<1>1. /\ src \in Occupied /\ cte_is_empty(dst) /\ src # dst
      /\ LinkMove(src, dst) /\ cap[src] \in Cap
  BY DEF cap_move, CanMove, Occupied, TableInv, TableType
<1>2. PICK moved \in Cap :
          /\ cap' = [cap EXCEPT ![dst] = moved, ![src] = NoCap]
          /\ moved.type = cap[src].type
          /\ Alike(moved, cap[src])
          /\ moved = cap[src] \/ moved = Unloaded(cap[src])
  <2>1. /\ Unloaded(cap[src]) \in Cap /\ Unloaded(cap[src]).type = cap[src].type
        /\ Alike(Unloaded(cap[src]), cap[src])
    BY <1>1, UnloadedType DEF Alike, Unloaded
  <2>2. Alike(cap[src], cap[src])
    BY DEF Alike
  <2>. QED BY <2>1, <2>2, <1>1 DEF cap_move
<1>3. /\ cap'[dst] = moved /\ cap'[src] = NoCap
      /\ \A c \in Cte \ {src, dst} : cap'[c] = cap[c]
  <2>1. cap \in [Cte -> Cap] /\ NoCap \in Cap
    BY DEF TableInv, TableType, Cap
  <2>. QED BY <2>1, <1>1, <1>2, TwoUpdates
<1>4. Occupied' = (Occupied \ {src}) \cup {dst}
  <2>1. moved.type # "none"
    BY <1>1, <1>2 DEF Occupied, cte_is_empty
  <2>. QED BY <2>1, <1>1, <1>3 DEF Occupied, cte_is_empty, NoCap
<1>. QED BY <1>1, <1>2, <1>3, <1>4

LEMMA MoveSlices ==
    ASSUME TableInv, SliceInv, NEW src \in Cte, NEW dst \in Cte, src # 0,
           cap_move(src, dst)
    PROVE  SliceInv'
<1>1. /\ src \in Occupied /\ cte_is_empty(dst) /\ dst \notin Occupied
      /\ LinkMove(src, dst)
      /\ Occupied' = (Occupied \ {src}) \cup {dst}
      /\ Alike(cap'[dst], cap[src])
      /\ \A c \in Cte \ {src, dst} : cap'[c] = cap[c]
  BY MoveEffect DEF Occupied
<1>2. PICK r \in [Cte -> Int] : InOrder(r)
  BY DEF SliceInv
<1>3. PICK t \in [Cte -> Int] : /\ Ranked(t)'
                                /\ t[dst] = r[src]
                                /\ \A x \in Occupied \ {src} : t[x] = r[x]
  BY <1>1, <1>2, RankMove DEF InOrder
<1>4. dst \in Occupied' /\ (dst \in Occupied => dst = src)
  BY <1>1
<1>5. \A x \in Occupied' \ {dst} :
          x \in Occupied /\ x # src /\ t[x] = r[x] /\ Alike(cap'[x], cap[x])
  BY <1>1, <1>3 DEF Occupied, Alike
<1>. QED BY <1>1, <1>2, <1>3, <1>4, <1>5, RelocateSlices

LEMMA DeleteSlices ==
    ASSUME TableInv, SliceInv, NEW c \in Cte, c # 0, cap_delete(c)
    PROVE  SliceInv'
<1>1. /\ c \in Occupied /\ LinkDelete(c)
      /\ cap'[c] = NoCap
      /\ \A d \in Cte \ {c} : cap'[d] = cap[d]
  BY DEF cap_delete, TableInv, TableType, Occupied
<1>2. Occupied' = Occupied \ {c}
  BY <1>1 DEF Occupied, cte_is_empty, NoCap
<1>3. PICK r \in [Cte -> Int] : InOrder(r)
  BY DEF SliceInv
<1>4. Ranked(r)'
  BY <1>1, <1>2, <1>3, RankDelete DEF InOrder
<1>5. 0 \in Occupied /\ 0 \in Occupied' /\ 0 \in Cte
  BY <1>2, ListFacts
<1>6. Alike(cap'[0], cap[0])
  BY <1>1, <1>5 DEF Alike
<1>7. \A x \in Occupied' \ {0} :
          x \in Occupied /\ x # 0 /\ r[x] = r[x] /\ Alike(cap'[x], cap[x])
  BY <1>1, <1>2 DEF Occupied, Alike
<1>. QED BY <1>3, <1>4, <1>5, <1>6, <1>7, RelocateSlices

\* Loading and unloading change two fields of one frame.
LEMMA PmpEffect ==
    ASSUME TableInv, NEW c \in Cte, NEW s,
           cap_pmp_load(c, s) \/ cap_pmp_unload(c)
    PROVE  \E u, v : cap' = [cap EXCEPT ![c] = [cap[c] EXCEPT !.slot = u, !.used = v]]
<1>1. cap \in [Cte -> Cap] /\ cap[c] \in PmpCap
  BY CapCases DEF cap_pmp_load, cap_pmp_unload, TableInv, TableType
<1>2. ASSUME NEW u, NEW v
      PROVE  [cap EXCEPT ![c].slot = u, ![c].used = v]
             = [cap EXCEPT ![c] = [cap[c] EXCEPT !.slot = u, !.used = v]]
  BY <1>1 DEF PmpCap
<1>3. CASE cap_pmp_load(c, s)
  <2>1. cap' = [cap EXCEPT ![c].slot = s, ![c].used = TRUE]
    BY <1>3 DEF cap_pmp_load
  <2>2. cap' = [cap EXCEPT ![c] = [cap[c] EXCEPT !.slot = s, !.used = TRUE]]
    BY <1>2, <2>1
  <2>. QED BY <2>2
<1>4. CASE cap_pmp_unload(c)
  <2>1. cap' = [cap EXCEPT ![c].slot = 0, ![c].used = FALSE]
    BY <1>4 DEF cap_pmp_unload
  <2>2. cap' = [cap EXCEPT ![c] = [cap[c] EXCEPT !.slot = 0, !.used = FALSE]]
    BY <1>2, <2>1
  <2>. QED BY <2>2
<1>. QED BY <1>3, <1>4

LEMMA PmpSlices ==
    ASSUME TableInv, SliceInv, NEW c \in Cte, NEW s,
           cap_pmp_load(c, s) \/ cap_pmp_unload(c)
    PROVE  SliceInv'
<1>1. /\ cap \in [Cte -> Cap] /\ cap[c] \in PmpCap /\ next' = next
  BY CapCases DEF cap_pmp_load, cap_pmp_unload, TableInv, TableType
<1>2. PICK u, v : cap' = [cap EXCEPT ![c] = [cap[c] EXCEPT !.slot = u, !.used = v]]
  BY PmpEffect
<1>. DEFINE d == [cap[c] EXCEPT !.slot = u, !.used = v]
<1>3. d.type = "pmp" /\ cap[c].type = "pmp"
  BY <1>1 DEF PmpCap
<1>. HIDE DEF d
<1>4. cap'[c] = d /\ \A e \in Cte \ {c} : cap'[e] = cap[e]
  BY <1>1, <1>2 DEF d
<1>5. \A e \in Cte : Alike(cap'[e], cap[e])
  BY <1>3, <1>4 DEF Alike
<1>6. Occupied' = Occupied
  BY <1>3, <1>4 DEF Occupied, cte_is_empty
<1>7. PICK r \in [Cte -> Int] : InOrder(r)
  BY DEF SliceInv
<1>8. Ranked(r)'
  BY <1>1, <1>6, <1>7 DEF Ranked, InOrder
<1>9. 0 \in Occupied /\ 0 \in Occupied' /\ Alike(cap'[0], cap[0])
  BY <1>5, <1>6, ListFacts
<1>10. \A x \in Occupied' \ {0} :
          x \in Occupied /\ x # 0 /\ r[x] = r[x] /\ Alike(cap'[x], cap[x])
  BY <1>5, <1>6 DEF Occupied
<1>. QED BY <1>7, <1>8, <1>9, <1>10, RelocateSlices

LEMMA DeriveSlices ==
    ASSUME TableInv, SliceInv, NEW src \in Cte, NEW dst \in Cte, NEW n \in NewCaps,
           cap_derive(src, dst, n)
    PROVE  SliceInv'
<1>1. /\ src \in Occupied /\ dst \notin Occupied
      /\ n \in Cap /\ cap_is_valid(n) /\ cap_is_derivable(cap[src], n)
      /\ cap[src] \in Cap
      /\ LinkInsert(dst, src) /\ Occupied' = Occupied \cup {dst}
      /\ cap'[dst] = n /\ cap'[src] = Derived(cap[src], n)
      /\ \A d \in Cte \ {src, dst} : cap'[d] = cap[d]
  BY DeriveEffect
<1>2. PICK r \in [Cte -> Int] : InOrder(r)
  BY DEF SliceInv
<1>3. cte_is_empty(dst)
  BY <1>1 DEF Occupied
<1>4. PICK t \in [Cte -> Int] :
          /\ Ranked(t)'
          /\ \A x, y \in Occupied : t[x] < t[y] <=> r[x] < r[y]
          /\ \A x \in Occupied : /\ t[x] < t[dst] <=> x = src \/ r[x] < r[src]
                                 /\ t[dst] < t[x] <=> r[src] < r[x]
  BY <1>1, <1>2, <1>3, RankInsert DEF InOrder
<1>5. /\ cap'[src] \in Cap /\ cap'[src].type = cap[src].type
      /\ \/ SplitOff(cap[src], cap'[dst], cap'[src])
         \/ FrameOf(cap[src], cap'[dst], cap'[src])
         \/ ClientFrom(cap[src], cap'[dst], cap'[src])
  <2>1. PICK s \in Cap : s = cap[src]
    BY <1>1
  <2>2. PICK d : d = cap'[src]
    OBVIOUS
  <2>3. d = Derived(s, n) /\ cap_is_derivable(s, n)
    BY <1>1, <2>1, <2>2
  <2>4. d \in Cap /\ d.type = s.type
    BY <2>3, <1>1, DerivedType
  <2>5. SplitOff(s, n, d) \/ FrameOf(s, n, d) \/ ClientFrom(s, n, d)
    BY <2>3, <1>1, DeriveCases
  <2>. QED BY <2>1, <2>2, <2>4, <2>5, <1>1
<1>6. /\ \A x \in Occupied \ {src} : cap'[x] = cap[x] /\ cap[x] \in Cap
      /\ ~(t[dst] < t[dst]) /\ ~(r[src] < r[src])
  <2>1. t[dst] \in Int /\ r[src] \in Int
    OBVIOUS
  <2>. QED BY <2>1, <1>1 DEF Occupied, TableInv, TableType
<1>7. Derives(r, t, src, dst)
  <2>1. cap'[dst] \in Cap
    BY <1>1
  <2>. QED BY <2>1, <1>1, <1>4, <1>5, <1>6 DEF Derives
<1>8. Descending(t)' /\ Together(t)'
  BY <1>2, <1>7, DeriveDescending, DeriveTogether DEF InOrder
<1>9. cap'[dst].type \in SliceType =>
          cap'[dst].bgn = cap'[dst].mrk /\ cap'[dst].bgn < cap'[dst].end
  BY <1>1 DEF cap_is_valid, SliceType
<1>10. Nested(t)' /\ Marked'
  BY <1>2, <1>7, <1>9, DeriveNested DEF InOrder, SliceInv
<1>11. "channel" \in Inside => OneChannel'
  <2>. SUFFICES ASSUME "channel" \in Inside, NEW c \in CapsOf("channel")',
                       NEW d \in CapsOf("channel")'
       PROVE  c = d
    BY DEF OneChannel
  <2>1. n.type # "channel"
    BY DEF Inside
  <2>2. c \in CapsOf("channel") /\ d \in CapsOf("channel")
    BY <2>1, <1>1, <1>5 DEF CapsOf
  <2>. QED BY <2>2 DEF OneChannel, SliceInv
<1>. QED BY <1>4, <1>8, <1>10, <1>11 DEF SliceInv, InOrder

LEMMA RevokeSlices ==
    ASSUME TableInv, SliceInv, NEW parent \in Cte, cap_revoke(parent)
    PROVE  SliceInv'
<1>1. PICK r \in [Cte -> Int] : InOrder(r)
  BY DEF SliceInv
<1>2. Ranked(r)' /\ Descending(r)' /\ Together(r)'
  BY <1>1, RevokeOrder DEF InOrder
<1>. DEFINE child == next[parent]
<1>3. /\ parent \in Occupied /\ child \in Occupied /\ child # parent
      /\ cap'[child] = NoCap
      /\ \A d \in Cte \ {child, parent} : cap'[d] = cap[d]
      /\ cap'[parent].type = cap[parent].type
  BY RevokeEffect DEF Lowered, SameSlice
<1>. HIDE DEF child
<1>4. Nested(r)' /\ Marked'
  <2>1. ASSUME OneChannel PROVE ~(cap[parent].type = "channel" /\ cap[child].type = "channel")
    BY <2>1, <1>3 DEF OneChannel, CapsOf, Occupied
  <2>. QED BY <2>1, <1>1, RevokeNested DEF InOrder, SliceInv, child
<1>5. OneChannel => OneChannel'
  <2>1. CapsOf("channel")' \subseteq CapsOf("channel")
    BY <1>3 DEF CapsOf, NoCap
  <2>. QED BY <2>1 DEF OneChannel
<1>. QED BY <1>2, <1>4, <1>5 DEF SliceInv, InOrder

LEMMA InitSlices == Init => SliceInv
<1>. SUFFICES ASSUME Init PROVE SliceInv
  OBVIOUS
<1>1. PICK n \in Nat \ {0} : BootTable(n)
  BY BootLoads
<1>2. /\ Occupied = 0 .. n - 1
      /\ \A c \in 0 .. n - 1 : next[c] = IF c = 0 THEN n - 1 ELSE c - 1
      /\ DOMAIN InitCaps = 0 .. n - 1
      /\ cap[0] = BootCap /\ BootCap.type = "pmp"
      /\ \A c \in Occupied : c # 0 => c \in DOMAIN InitCaps /\ cap[c] = InitCaps[c]
  BY <1>1, BootCapType DEF BootTable
<1>. DEFINE r == [c \in Cte |-> IF c = 0 THEN - n ELSE - c]
<1>3. /\ r \in [Cte -> Int]
      /\ \A c \in Occupied : r[c] = IF c = 0 THEN - n ELSE - c
  BY <1>2 DEF Cte, Occupied
<1>. HIDE DEF r
<1>4. Ranked(r)
  <2>1. \A c, d \in Occupied : r[c] = r[d] => c = d
    BY <1>2, <1>3
  <2>2. ASSUME NEW c \in Occupied
        PROVE  IF next[c] = 0 THEN \A d \in Occupied : r[d] <= r[c]
               ELSE /\ r[c] < r[next[c]]
                    /\ \A d \in Occupied : r[c] < r[d] => r[next[c]] <= r[d]
    <3>1. \A d \in Occupied : /\ d \in Int /\ 0 <= d /\ d <= n - 1
                             /\ r[d] = IF d = 0 THEN - n ELSE - d
      BY <1>2, <1>3
    <3>2. n - 1 \in Occupied /\ (c # 0 => c - 1 \in Occupied)
      BY <1>2
    <3>3. next[c] = IF c = 0 THEN n - 1 ELSE c - 1
      BY <1>2
    <3>4. CASE c = 0 /\ n = 1
      BY <3>1, <3>3, <3>4
    <3>5. CASE c = 0 /\ n # 1
      <4>1. r[c] = - n /\ next[c] = n - 1 /\ r[next[c]] = - (n - 1) /\ next[c] # 0
        BY <3>1, <3>2, <3>3, <3>5
      <4>2. \A d \in Occupied : r[c] < r[d] => r[next[c]] <= r[d]
        BY <3>1, <4>1
      <4>. QED BY <4>1, <4>2
    <3>6. CASE c = 1
      BY <3>1, <3>3, <3>6
    <3>7. CASE c # 0 /\ c # 1
      <4>1. r[c] = - c /\ next[c] = c - 1 /\ r[next[c]] = - (c - 1) /\ next[c] # 0
        BY <3>1, <3>2, <3>3, <3>7
      <4>2. \A d \in Occupied : r[c] < r[d] => r[next[c]] <= r[d]
        BY <3>1, <4>1
      <4>. QED BY <3>1, <4>1, <4>2
    <3>. QED BY <3>4, <3>5, <3>6, <3>7
  <2>. QED BY <2>1, <2>2 DEF Ranked
<1>5. \A c \in Occupied : cap[c].type # "socket"
  BY <1>2, InitResourcesAssumption
<1>6. ASSUME NEW c \in Occupied, NEW d \in Occupied, c # d,
             SameKind(cap[c], cap[d])
      PROVE  FALSE
  <2>1. cap[c].type = cap[d].type /\ cap[c].type \in SliceType
    BY <1>5, <1>6 DEF SameKind, Kind
  <2>2. c # 0 /\ d # 0
    BY <2>1, <1>2 DEF SliceType
  <2>3. /\ c \in DOMAIN InitCaps /\ d \in DOMAIN InitCaps \ {c}
        /\ cap[c] = InitCaps[c] /\ cap[d] = InitCaps[d]
    BY <1>2, <1>6, <2>2
  <2>. QED BY <2>1, <2>3, <1>6, InitResourcesAssumption DEF SameKind
<1>7. \A c, d \in Occupied : r[c] < r[d] => c # d
  BY <1>2, <1>3
<1>8. Descending(r)
  BY <1>6, <1>7 DEF Descending
<1>9. Together(r)
  BY <1>5 DEF Together, ClientOf
<1>10. \A c \in Slices : c \in Occupied
  BY DEF Slices, Occupied, cte_is_empty, SliceType
<1>11. Nested(r)
  <2>1. \A c \in Inner : c \in Slices /\ c \in Occupied
    BY <1>10, InsideTypes DEF Inner, Slices
  <2>. QED BY <2>1, <1>6, <1>7 DEF Nested
<1>12. OneChannel
  <2>. SUFFICES ASSUME NEW c \in CapsOf("channel"), NEW d \in CapsOf("channel"), c # d
       PROVE  FALSE
    BY DEF OneChannel
  <2>1. SameKind(cap[c], cap[d]) /\ c \in Slices /\ d \in Slices
    BY DEF CapsOf, SameKind, Kind, SliceType, Slices
  <2>. QED BY <2>1, <1>6, <1>10
<1>13. ASSUME NEW c \in Inner
       PROVE  cap[c].bgn <= cap[c].mrk /\ cap[c].mrk <= cap[c].end
  <2>1. c \in Occupied /\ c # 0 /\ cap[c].type \in SliceType
    BY <1>2, <1>10, <1>13, InsideTypes DEF Inner, Slices, SliceType
  <2>2. c \in DOMAIN InitCaps /\ cap[c] = InitCaps[c]
    BY <2>1, <1>2
  <2>. QED BY <2>1, <2>2, <1>13 DEF Inner, Inside
<1>. QED BY <1>3, <1>4, <1>8, <1>9, <1>11, <1>12, <1>13
         DEF SliceInv, InOrder, Marked

-----------------------------------------------------------------------------
(* The kernel as it is built never resets a capability. *)

NoReset == \A p \in Pid : call[p].op # "reset"

LEMMA NeverNegative ==
    ASSUME AsBuilt, NEW p
    PROVE  ~RevokeToReset(p)
<1>1. ErrRange \in Int /\ ErrRange > 1
  BY NewCapsAssumption DEF AsBuilt
<1>2. (-1) % ErrRange >= 0 /\ 1 % ErrRange >= 0 /\ 14 % ErrRange >= 0
  BY <1>1
<1>3. LoopError(p) >= 0
  <2>1. PICK e : e = revoke_error(cap[call[p].cte], cap[next[call[p].cte]])
    OBVIOUS
  <2>2. e \in {-1, 1, 14}
    BY <2>1 DEF revoke_error, ERR_EMPTY, ERR_INVALID_CAPABILITY
  <2>3. ErrT(e) = e % ErrRange
    BY DEF ErrT, AsBuilt
  <2>. QED BY <2>1, <2>2, <2>3, <1>2 DEF LoopError
<1>4. LoopError(p) \in Int
  <2>1. PICK e : e = revoke_error(cap[call[p].cte], cap[next[call[p].cte]])
    OBVIOUS
  <2>2. e \in {-1, 1, 14}
    BY <2>1 DEF revoke_error, ERR_EMPTY, ERR_INVALID_CAPABILITY
  <2>3. ErrT(e) = e % ErrRange
    BY DEF ErrT, AsBuilt
  <2>. QED BY <2>1, <2>2, <2>3, <1>1 DEF LoopError
<1>. QED BY <1>3, <1>4 DEF RevokeToReset

LEMMA NoResetStep ==
    ASSUME AsBuilt, IInv, NoReset, [Next]_vars
    PROVE  NoReset'
<1>. USE DEF NoReset
<1>1. call \in [Pid -> [op : {"idle", "revoke", "reset"}, cte : Cte]]
  BY DEF IInv, ProcType
<1>2. CASE UNCHANGED call
  BY <1>2
<1>3. ASSUME NEW p \in Pid, NEW v, call' = [call EXCEPT ![p] = v], v.op # "reset"
      PROVE  NoReset'
  BY <1>1, <1>3
<1>4. ASSUME NEW p \in Pid, Dispatch(p) PROVE NoReset'
  BY <1>2, <1>4 DEF Dispatch
<1>5. ASSUME NEW p \in Pid, Preempt(p) PROVE NoReset'
  BY <1>3, <1>5 DEF Preempt, Idle
<1>6. ASSUME NEW p \in Pid, CapCall(p) PROVE NoReset'
  <2>1. ASSUME NEW c, sys_cap_revoke(p, c) PROVE NoReset'
    BY <1>3, <2>1 DEF sys_cap_revoke
  <2>. QED BY <2>1, <1>2, <1>6
       DEF CapCall, sys_cap_move, sys_cap_delete, sys_cap_derive, sys_pmp_load,
           sys_pmp_unload, procVars
<1>7. ASSUME NEW p \in Pid, MonCall(p) PROVE NoReset'
  BY <1>2, <1>7
     DEF MonCall, sys_mon_suspend, sys_mon_resume, sys_mon_yield,
         sys_mon_cap_move, sys_mon_pmp_load, sys_mon_pmp_unload, procVars
<1>8. ASSUME NEW p \in Pid, Revoking(p) PROVE NoReset'
  <2>1. CASE RevokeStep(p)
    BY <1>2, <2>1 DEF RevokeStep, procVars
  <2>2. CASE RevokeReturn(p) \/ RevokeReset(p)
    BY <1>3, <2>2 DEF RevokeReturn, RevokeReset, Idle
  <2>. QED BY <1>8, <2>1, <2>2, NeverNegative DEF Revoking
<1>9. CASE UNCHANGED vars
  BY <1>2, <1>9 DEF vars
<1>. QED BY <1>4, <1>5, <1>6, <1>7, <1>8, <1>9 DEF Next

\* Without cap_reset.
LEMMA BuiltOperations ==
    ASSUME IInv, NoReset, [Next]_vars
    PROVE  \/ \E src, dst \in Cte : src # 0 /\ cap_move(src, dst)
           \/ \E c \in Cte : c # 0 /\ cap_delete(c)
           \/ \E src, dst \in Cte, n \in NewCaps : cap_derive(src, dst, n)
           \/ \E c \in Cte : cap_revoke(c)
           \/ \E c \in Cte, s \in PmpSlot : cap_pmp_load(c, s)
           \/ \E c \in Cte : cap_pmp_unload(c)
           \/ UNCHANGED <<tableVars, resourceVars>>
  BY Operations DEF Operation, NoReset

LEMMA NextSlices ==
    ASSUME IInv, NoReset, SliceInv, [Next]_vars
    PROVE  SliceInv'
<1>1. TableInv
  BY DEF IInv
<1>2. CASE UNCHANGED <<tableVars, resourceVars>>
  <2>1. cap' = cap /\ next' = next /\ Occupied' = Occupied
    BY <1>2 DEF tableVars, Occupied, cte_is_empty
  <2>2. PICK r \in [Cte -> Int] : InOrder(r)
    BY DEF SliceInv
  <2>3. Ranked(r)' /\ Descending(r)' /\ Together(r)'
    BY <2>1, <2>2 DEF InOrder, Ranked, Descending, Together
  <2>4. Nested(r)' /\ Marked' /\ ("channel" \in Inside => OneChannel')
    BY <2>1, <2>2 DEF SliceInv, InOrder, Nested, Inner, Marked, OneChannel, CapsOf
  <2>. QED BY <2>3, <2>4 DEF SliceInv, InOrder
<1>. QED BY <1>1, <1>2, BuiltOperations, MoveSlices, DeleteSlices, DeriveSlices,
            RevokeSlices, PmpSlices

BuiltInv == IInv /\ NoReset /\ SliceInv

LEMMA BuiltAlways ==
    ASSUME AsBuilt
    PROVE  Spec => []BuiltInv
<1>1. Init => NoReset
  BY DEF Init, NoReset, Idle
<1>2. Init => BuiltInv
  BY <1>1, InitInv, InitSlices DEF BuiltInv
<1>3. BuiltInv /\ [Next]_vars => BuiltInv'
  BY NextInv, NoResetStep, NextSlices DEF BuiltInv
<1>. QED BY <1>2, <1>3, PTL DEF Spec

\* Of two slices of the same resource, the later one ends below the other's mark.
LEMMA SlicesApart ==
    ASSUME TableInv, SliceInv
    PROVE  FreeDisjoint
<1>1. PICK r \in [Cte -> Int] : InOrder(r)
  BY DEF SliceInv
<1>2. ASSUME NEW c \in Slices, NEW d \in Slices, r[c] < r[d], SameResource(c, d)
      PROVE  Free(c) \cap Free(d) = {}
  <2>1. /\ c \in Occupied /\ d \in Occupied /\ cap[c] \in Cap /\ cap[d] \in Cap
        /\ cap[c].type \in SliceType /\ cap[d].type \in SliceType
    BY DEF Slices, Occupied, cte_is_empty, SliceType, TableInv, TableType
  <2>2. SameKind(cap[c], cap[d])
    BY <1>2, <2>1 DEF SameResource, SameKind, Kind, SliceType
  <2>3. Hi(cap[d]) <= Lo(cap[c])
    BY <1>1, <1>2, <2>1, <2>2 DEF InOrder, Descending, ClientOf, SliceType
  <2>4. Kind(cap[c]) \in SliceType /\ Kind(cap[d]) \in SliceType
    BY <2>2, KindFacts
  <2>5. Lo(cap[c]) = cap[c].mrk /\ cap[c].mrk \in Nat /\ cap[c].end \in Nat
    BY <2>1, <2>4, Bounds
  <2>6. Hi(cap[d]) = cap[d].end /\ cap[d].mrk \in Nat /\ cap[d].end \in Nat
    BY <2>1, <2>4, Bounds
  <2>. QED BY <2>3, <2>5, <2>6 DEF Free
<1>3. ASSUME NEW c \in Slices, NEW d \in Slices, c # d
      PROVE  r[c] < r[d] \/ r[d] < r[c]
  <2>1. /\ c \in Occupied /\ d \in Occupied /\ r[c] \in Int /\ r[d] \in Int
    BY DEF Slices, Occupied, cte_is_empty, SliceType
  <2>. QED BY <1>1, <1>3, <2>1 DEF InOrder, Ranked
<1>4. \A c, d : SameResource(c, d) => SameResource(d, c)
  BY DEF SameResource
<1>. QED BY <1>2, <1>3, <1>4 DEF FreeDisjoint

(***************************************************************************)
(* Nothing is ever free in two capabilities: no sequence of derivations,   *)
(* moves, deletions and revocations of any processes hands out a unit of   *)
(* time, a memory block, a process or a channel twice (cap_ops.c).         *)
(***************************************************************************)
THEOREM NothingFreeTwice ==
    ASSUME AsBuilt
    PROVE  Spec => []FreeDisjoint
<1>1. BuiltInv => FreeDisjoint
  BY SlicesApart DEF BuiltInv, IInv
<1>. QED BY <1>1, BuiltAlways, PTL

(***************************************************************************)
(* The mark of a time, monitor or channel slice stays inside the slice, and*)
(* so does that of a memory slice if it is there at boot (Inside): the mark*)
(* a revocation gives back, that of the deleted child, is never below the  *)
(* beginning of the parent nor above its end (cap_revoke_time and the      *)
(* like).                                                                  *)
(***************************************************************************)
THEOREM MarksStayInside ==
    ASSUME AsBuilt
    PROVE  Spec => [](\A c \in Slices : cap[c].type \in Inside =>
                         cap[c].bgn <= cap[c].mrk /\ cap[c].mrk <= cap[c].end)
<1>1. BuiltInv => \A c \in Slices : cap[c].type \in Inside =>
                      cap[c].bgn <= cap[c].mrk /\ cap[c].mrk <= cap[c].end
  BY DEF BuiltInv, SliceInv, Marked, Inner, Slices
<1>. QED BY <1>1, BuiltAlways, PTL

\* Of two slices or server sockets of a channel, the later one ends below the other.
LEMMA OneServer ==
    ASSUME TableInv, SliceInv
    PROVE  UniqueServer
<1>1. PICK r \in [Cte -> Int] : InOrder(r)
  BY DEF SliceInv
<1>. SUFFICES ASSUME NEW s \in CapsOf("socket"), cap[s].tag = 0
     PROVE  /\ \A t \in CapsOf("socket") \ {s} :
                  ~(cap[t].tag = 0 /\ cap[t].chan = cap[s].chan)
            /\ \A c \in CapsOf("channel") : cap[s].chan \notin Free(c)
  BY DEF UniqueServer
<1>2. /\ s \in Occupied /\ cap[s].type = "socket" /\ r[s] \in Int
      /\ cap[s].chan \in Nat
      /\ Lo(cap[s]) = cap[s].chan /\ Hi(cap[s]) = cap[s].chan + 1
  BY CapCases
     DEF CapsOf, Occupied, cte_is_empty, Lo, Hi, TableInv, TableType, SockCap
<1>3. \A t \in Occupied : t # s => r[t] < r[s] \/ r[s] < r[t]
  BY <1>1, <1>2 DEF InOrder, Ranked, Occupied
<1>4. ASSUME NEW t \in CapsOf("socket") \ {s},
             cap[t].tag = 0, cap[t].chan = cap[s].chan
      PROVE  FALSE
  <2>1. /\ t \in Occupied /\ cap[t].type = "socket"
        /\ Lo(cap[t]) = cap[s].chan /\ Hi(cap[t]) = cap[s].chan + 1
        /\ SameKind(cap[s], cap[t]) /\ SameKind(cap[t], cap[s])
        /\ ~ClientOf(cap[s], cap[t]) /\ ~ClientOf(cap[t], cap[s])
    BY <1>2, <1>4 DEF CapsOf, Occupied, cte_is_empty, Lo, Hi, SameKind, Kind,
       SliceType, ClientOf
  <2>2. cap[s].chan + 1 <= cap[s].chan
    BY <1>1, <1>2, <1>3, <1>4, <2>1 DEF InOrder, Descending
  <2>. QED BY <1>2, <2>2
<1>5. ASSUME NEW c \in CapsOf("channel") PROVE cap[s].chan \notin Free(c)
  <2>1. /\ c \in Occupied /\ c # s /\ cap[c] \in ChanCap
        /\ Lo(cap[c]) = cap[c].mrk /\ Hi(cap[c]) = cap[c].end
        /\ SameKind(cap[s], cap[c]) /\ SameKind(cap[c], cap[s])
        /\ ~ClientOf(cap[s], cap[c]) /\ ~ClientOf(cap[c], cap[s])
    BY <1>2, CapCases DEF CapsOf, Occupied, cte_is_empty, Lo, Hi, SameKind,
       Kind, SliceType, ClientOf, TableInv, TableType
  <2>2. cap[s].chan + 1 <= cap[c].mrk \/ cap[c].end <= cap[s].chan
    BY <1>1, <1>2, <1>3, <2>1 DEF InOrder, Descending
  <2>3. cap[c].mrk \in Nat /\ cap[c].end \in Nat
    BY <2>1 DEF ChanCap
  <2>. QED BY <1>2, <2>2, <2>3 DEF Free
<1>. QED BY <1>4, <1>5

(***************************************************************************)
(* A channel never has two server sockets, nor a server socket while some  *)
(* channel capability can still derive one (cap_derive_channel).           *)
(***************************************************************************)
THEOREM ServerIsUnique ==
    ASSUME AsBuilt
    PROVE  Spec => []UniqueServer
<1>1. BuiltInv => UniqueServer
  BY OneServer DEF BuiltInv, IInv
<1>. QED BY <1>1, BuiltAlways, PTL

(***************************************************************************)
(* The revocation of a server socket stops at the first entry that is no   *)
(* client of it, and by then there is none anywhere: the clients stay next *)
(* to their server in the list (cap_revoke_socket, sys_cap_revoke).        *)
(***************************************************************************)
THEOREM ClientsAreTaken ==
    ASSUME AsBuilt
    PROVE  Spec => RevokeTakesClients
<1>1. ASSUME BuiltInv, [Next]_vars, NEW p \in Pid, NEW s \in CapsOf("socket"),
             RevokeEnds(p), cap[call[p].cte].type = "socket",
             cap[call[p].cte].tag = 0,
             s # call[p].cte, cap[s].chan = cap[call[p].cte].chan
      PROVE  FALSE
  <2>1. PICK e \in Cte : e = call[p].cte
    BY <1>1 DEF BuiltInv, IInv, ProcType
  <2>2. RevokeReturn(p)
    <3>1. Preempt(p) \/ RevokeReturn(p) \/ RevokeReset(p)
      BY <1>1, EndCases DEF RevokeEnds, BuiltInv
    <3>2. ~Preempt(p)
      BY <1>1 DEF Preempt, RevokeEnds, BuiltInv, IInv, ProcType
    <3>. QED BY <3>1, <3>2, <1>1 DEF RevokeReset, BuiltInv, NoReset
  <2>3. ~sock_revocable(cap[e], cap[next[e]])
    BY <1>1, <2>1, <2>2 DEF RevokeReturn, LoopEnds, revocable
  <2>4. TableInv /\ \E r \in [Cte -> Int] : InOrder(r)
    BY <1>1 DEF BuiltInv, IInv, SliceInv
  <2>5. PICK r \in [Cte -> Int] : InOrder(r)
    BY <2>4
  <2>6. /\ e \in Occupied /\ s \in Occupied /\ e # s
        /\ cap[e] \in SockCap /\ cap[s] \in SockCap
        /\ cap[e].type = "socket" /\ cap[s].type = "socket"
        /\ cap[e].tag = 0 /\ cap[s].chan = cap[e].chan
    BY <1>1, <2>1, <2>4, CapCases
       DEF CapsOf, Occupied, cte_is_empty, TableInv, TableType
  <2>7. /\ SameKind(cap[e], cap[s]) /\ SameKind(cap[s], cap[e])
        /\ Lo(cap[e]) = cap[e].chan /\ Hi(cap[e]) = cap[e].chan + 1
        /\ Lo(cap[s]) = cap[e].chan /\ Hi(cap[s]) = cap[e].chan + 1
        /\ cap[e].chan \in Nat
        /\ ~ClientOf(cap[e], cap[s])
    BY <2>6 DEF SameKind, Kind, SliceType, Lo, Hi, ClientOf, SockCap
  <2>8. r[e] < r[s]
    <3>1. r[e] < r[s] \/ r[s] < r[e]
      BY <2>5, <2>6 DEF InOrder, Ranked, Occupied
    <3>2. ~(r[s] < r[e])
      BY <2>5, <2>6, <2>7 DEF InOrder, Descending
    <3>. QED BY <3>1, <3>2
  <2>9. ClientOf(cap[s], cap[e])
    BY <2>5, <2>6, <2>7, <2>8 DEF InOrder, Descending
  <2>10. ClientOf(cap[next[e]], cap[e])
    <3>1. next[e] \in Occupied /\ r[e] < r[next[e]] /\ r[next[e]] <= r[s]
      BY <2>4, <2>5, <2>6, <2>8, ListFacts DEF InOrder, Ranked, Occupied
    <3>2. CASE next[e] = s
      BY <2>9, <3>2
    <3>3. CASE next[e] # s
      <4>1. r[next[e]] < r[s]
        BY <2>5, <2>6, <3>1, <3>3 DEF InOrder, Ranked, Occupied
      <4>. QED BY <2>5, <2>6, <2>9, <3>1, <4>1 DEF InOrder, Together
    <3>. QED BY <3>2, <3>3
  <2>. QED BY <2>3, <2>6, <2>10 DEF ClientOf, sock_revocable
<1>2. BuiltInv /\ [Next]_vars =>
        [\A p \in Pid, s \in CapsOf("socket") :
            LET server == cap[call[p].cte]
            IN  RevokeEnds(p) /\ server.type = "socket" /\ server.tag = 0
                  => s = call[p].cte \/ cap[s].chan # server.chan]_vars
  BY <1>1
<1>. QED BY <1>2, BuiltAlways, PTL DEF Spec, RevokeTakesClients

-----------------------------------------------------------------------------
(***************************************************************************)
(* The slot table.  At boot every hart's period is one time capability.    *)
(***************************************************************************)
WholePeriod ==
    \A h \in Hart : \E i \in DOMAIN InitCaps :
        InitCaps[i] = cap_mk_time(h, 0, SlotCnt)

\* Slot i of hart h is free in the time capability of entry c.
Owns(c, h, i) ==
    cap[c].type = "time" /\ cap[c].hart = h /\ cap[c].mrk <= i /\ i < cap[c].end

SlotOf(c, h, i) ==
    Owns(c, h, i) /\ slots[h][i] = [pid |-> cte_pid(c), length |-> cap[c].end - i]

SlotInv ==
    \A h \in Hart, i \in Slot :
        \/ \E c \in Cte : SlotOf(c, h, i)
        \/ (\A c \in Cte : ~Owns(c, h, i)) /\ slots[h][i].length = 0

TimeInside ==
    \A c \in CapsOf("time") : cap[c].mrk <= cap[c].end /\ cap[c].end <= SlotCnt

TimeInv == SlotInv /\ TimeInside

LEMMA OneOwnerOfSlot ==
    ASSUME TableInv, SliceInv, NEW c \in Cte, NEW d \in Cte, NEW h, NEW i \in Slot,
           Owns(c, h, i), Owns(d, h, i)
    PROVE  c = d
<1>1. /\ c \in Slices /\ d \in Slices /\ SameResource(c, d)
      /\ cap[c] \in TimeCap /\ cap[d] \in TimeCap
  BY CapCases DEF Owns, Slices, SliceType, SameResource, TableInv, TableType
<1>2. i \in Free(c) /\ i \in Free(d)
  BY <1>1 DEF Owns, Free, Slot, TimeCap
<1>. QED BY <1>1, <1>2, SlicesApart DEF FreeDisjoint

LEMMA UpdateAt ==
    ASSUME ResourceType, NEW p \in Pid, NEW hart \in Hart, NEW from \in Nat,
           NEW end \in Nat, end <= SlotCnt,
           NEW g, g = sched_update(p, end, hart, from, end)
    PROVE  \A h \in Hart, i \in Slot :
               g[h][i] = IF h = hart /\ from <= i /\ i < end
                         THEN [pid |-> p, length |-> end - i]
                         ELSE slots[h][i]
<1>. SUFFICES ASSUME NEW h \in Hart, NEW i \in Slot
     PROVE  g[h][i] = IF h = hart /\ from <= i /\ i < end
                      THEN [pid |-> p, length |-> end - i]
                      ELSE slots[h][i]
  OBVIOUS
<1>1. slots \in [Hart -> [Slot -> [pid : Pid, length : Nat]]] /\ i \in Nat
  BY DEF ResourceType, Slot
<1>2. i \in from .. end - 1 <=> from <= i /\ i < end
  BY <1>1
<1>3. g[h][i] = IF h = hart /\ i \in from .. end - 1
                THEN [pid |-> p, length |-> (end - i) % LengthRange]
                ELSE slots[h][i]
  BY <1>1 DEF sched_update
<1>4. ASSUME i < end PROVE (end - i) % LengthRange = end - i
  BY <1>1, <1>4, LengthRangeAssumption, CapTypesAssumption
<1>. QED BY <1>2, <1>3, <1>4

LEMMA DeleteAt ==
    ASSUME ResourceType, NEW hart \in Hart, NEW from \in Nat, NEW end \in Nat,
           NEW g, g = sched_delete(hart, from, end)
    PROVE  \A h \in Hart, i \in Slot :
               g[h][i] = IF h = hart /\ from <= i /\ i < end
                         THEN NoSlot ELSE slots[h][i]
<1>1. slots \in [Hart -> [Slot -> [pid : Pid, length : Nat]]]
  BY DEF ResourceType
<1>2. \A i \in Slot : i \in from .. end - 1 <=> from <= i /\ i < end
  BY DEF Slot
<1>. QED BY <1>1, <1>2 DEF sched_delete

LEMMA TimeFields ==
    ASSUME TableInv, NEW c \in Cte, cap[c].type = "time"
    PROVE  /\ cap[c] \in TimeCap /\ cap[c].hart \in Hart
           /\ cap[c].bgn \in Nat /\ cap[c].mrk \in Nat /\ cap[c].end \in Nat
  BY CapCases DEF TableInv, TableType, TimeCap

\* The slots and the time capabilities stay.
LEMMA SameTime ==
    ASSUME TimeInv, slots' = slots,
           \A c \in Cte : \/ cap'[c] = cap[c]
                          \/ cap[c].type # "time" /\ cap'[c].type # "time"
    PROVE  TimeInv'
<1>1. \A c \in Cte, h \in Hart, i \in Slot :
          /\ Owns(c, h, i)' <=> Owns(c, h, i)
          /\ SlotOf(c, h, i)' <=> SlotOf(c, h, i)
  BY DEF Owns, SlotOf
<1>2. SlotInv'
  BY <1>1 DEF TimeInv, SlotInv
<1>3. TimeInside'
  BY DEF TimeInv, TimeInside, CapsOf
<1>. QED BY <1>2, <1>3 DEF TimeInv

LEMMA MoveTime ==
    ASSUME TableInv, SliceInv, TimeInv, NEW src \in Cte, NEW dst \in Cte,
           cap_move(src, dst)
    PROVE  TimeInv'
<1>1. /\ src \in Occupied /\ cap[dst].type = "none" /\ src # dst
      /\ Alike(cap'[dst], cap[src])
      /\ \A c \in Cte \ {src, dst} : cap'[c] = cap[c]
  BY MoveEffect DEF cte_is_empty
<1>2. cap'[src].type = "none"
  BY <1>1 DEF cap_move, TableInv, TableType, NoCap
<1>3. CASE cap[src].type # "time"
  <2>1. cap'[dst].type # "time"
    BY <1>1, <1>3, AlikeFacts DEF Alike
  <2>2. slots' = slots
    BY <1>3 DEF cap_move, ipc_move_hook, resourceVars
  <2>3. ASSUME NEW c \in Cte
        PROVE  \/ cap'[c] = cap[c]
               \/ cap[c].type # "time" /\ cap'[c].type # "time"
    BY <1>1, <1>2, <1>3, <2>1
  <2>. QED BY <2>2, <2>3, SameTime
<1>4. CASE cap[src].type = "time"
  <2>1. cap'[dst] = cap[src]
    BY <1>1, <1>4 DEF Alike
  <2>2. /\ cap[src].hart \in Hart /\ cap[src].mrk \in Nat /\ cap[src].end \in Nat
        /\ cap[src].mrk <= cap[src].end /\ cap[src].end <= SlotCnt
    BY <1>4, TimeFields DEF TimeInv, TimeInside, CapsOf
  <2>3. ASSUME NEW h \in Hart, NEW i \in Slot
        PROVE  slots'[h][i] = IF Owns(src, h, i)
                              THEN [pid |-> cte_pid(dst), length |-> cap[src].end - i]
                              ELSE slots[h][i]
    <3>1. CASE cte_pid(src) # cte_pid(dst)
      <4>1. slots' = sched_update(cte_pid(dst), cap[src].end, cap[src].hart,
                                  cap[src].mrk, cap[src].end)
        BY <3>1, <1>4 DEF cap_move, ipc_move_hook
      <4>2. PICK p \in Pid, hart \in Hart, from \in Nat, end \in Nat :
                p = cte_pid(dst) /\ hart = cap[src].hart /\ from = cap[src].mrk
                /\ end = cap[src].end
        BY <2>2, CteBounds
      <4>3. PICK g : g = slots'
        OBVIOUS
      <4>4. /\ g = sched_update(p, end, hart, from, end) /\ end <= SlotCnt
            /\ ResourceType
        BY <2>2, <4>1, <4>2, <4>3 DEF TableInv
      <4>5. g[h][i] = IF h = hart /\ from <= i /\ i < end
                      THEN [pid |-> p, length |-> end - i] ELSE slots[h][i]
        BY <4>4, UpdateAt
      <4>. QED BY <4>2, <4>3, <4>5, <1>4 DEF Owns
    <3>2. CASE cte_pid(src) = cte_pid(dst)
      <4>1. slots' = slots
        BY <3>2 DEF cap_move, resourceVars
      <4>2. Owns(src, h, i) =>
                slots[h][i] = [pid |-> cte_pid(src), length |-> cap[src].end - i]
        BY OneOwnerOfSlot DEF TimeInv, SlotInv, SlotOf
      <4>. QED BY <3>2, <4>1, <4>2
    <3>. QED BY <3>1, <3>2
  <2>4. ASSUME NEW h \in Hart, NEW i \in Slot
        PROVE  /\ Owns(dst, h, i)' <=> Owns(src, h, i)
               /\ ~Owns(src, h, i)' /\ ~Owns(dst, h, i)
               /\ \A c \in Cte \ {src, dst} : Owns(c, h, i)' <=> Owns(c, h, i)
    BY <1>1, <1>2, <2>1 DEF Owns
  <2>5. ASSUME NEW h \in Hart, NEW i \in Slot
        PROVE  \/ \E c \in Cte : SlotOf(c, h, i)'
               \/ (\A c \in Cte : ~Owns(c, h, i)') /\ slots'[h][i].length = 0
    <3>1. CASE Owns(src, h, i)
      <4>1. SlotOf(dst, h, i)'
        BY <2>1, <2>3, <2>4, <3>1 DEF SlotOf
      <4>. QED BY <4>1
    <3>2. CASE ~Owns(src, h, i)
      <4>1. CASE \E c \in Cte : SlotOf(c, h, i)
        <5>1. PICK c \in Cte : SlotOf(c, h, i)
          BY <4>1
        <5>2. c \notin {src, dst} /\ cap'[c] = cap[c]
          BY <5>1, <1>1, <2>4, <3>2 DEF SlotOf
        <5>3. SlotOf(c, h, i)'
          BY <5>1, <5>2, <2>3, <2>4, <3>2 DEF SlotOf
        <5>. QED BY <5>3
      <4>2. CASE (\A c \in Cte : ~Owns(c, h, i)) /\ slots[h][i].length = 0
        BY <4>2, <2>3, <2>4, <3>2
      <4>. QED BY <4>1, <4>2 DEF TimeInv, SlotInv
    <3>. QED BY <3>1, <3>2
  <2>6. TimeInside'
    <3>1. ASSUME NEW c \in CapsOf("time")'
          PROVE  cap'[c].mrk <= cap'[c].end /\ cap'[c].end <= SlotCnt
      <4>1. CASE c = dst
        BY <4>1, <2>1, <2>2
      <4>2. CASE c # dst
        <5>1. c # src /\ c \in Cte
          BY <3>1, <1>2 DEF CapsOf
        <5>2. cap'[c] = cap[c] /\ c \in CapsOf("time")
          BY <3>1, <4>2, <5>1, <1>1 DEF CapsOf
        <5>. QED BY <5>2 DEF TimeInv, TimeInside
      <4>. QED BY <4>1, <4>2
    <3>. QED BY <3>1 DEF TimeInside
  <2>7. SlotInv'
    BY <2>5 DEF SlotInv
  <2>. QED BY <2>6, <2>7 DEF TimeInv
<1>. QED BY <1>3, <1>4

LEMMA DeleteTime ==
    ASSUME TableInv, SliceInv, TimeInv, NEW e \in Cte, cap_delete(e)
    PROVE  TimeInv'
<1>1. /\ cap'[e] = NoCap /\ cap'[e].type = "none"
      /\ \A c \in Cte \ {e} : cap'[c] = cap[c]
  BY DEF cap_delete, TableInv, TableType, NoCap
<1>2. CASE cap[e].type # "time"
  <2>1. slots' = slots
    BY <1>2 DEF cap_delete, delete_hook
  <2>2. ASSUME NEW c \in Cte
        PROVE  \/ cap'[c] = cap[c]
               \/ cap[c].type # "time" /\ cap'[c].type # "time"
    BY <1>1, <1>2
  <2>. QED BY <2>1, <2>2, SameTime
<1>3. CASE cap[e].type = "time"
  <2>1. ASSUME NEW h \in Hart, NEW i \in Slot
        PROVE  slots'[h][i] = IF Owns(e, h, i) THEN NoSlot ELSE slots[h][i]
    <3>1. slots' = sched_delete(cap[e].hart, cap[e].mrk, cap[e].end)
      BY <1>3 DEF cap_delete, delete_hook
    <3>2. PICK hart \in Hart, from \in Nat, end \in Nat :
              hart = cap[e].hart /\ from = cap[e].mrk /\ end = cap[e].end
      BY <1>3, TimeFields
    <3>3. PICK g : g = slots'
      OBVIOUS
    <3>4. g = sched_delete(hart, from, end) /\ ResourceType
      BY <3>1, <3>2, <3>3 DEF TableInv
    <3>5. g[h][i] = IF h = hart /\ from <= i /\ i < end THEN NoSlot ELSE slots[h][i]
      BY <3>4, DeleteAt
    <3>. QED BY <3>2, <3>3, <3>5, <1>3 DEF Owns
  <2>2. ASSUME NEW h \in Hart, NEW i \in Slot
        PROVE  /\ ~Owns(e, h, i)'
               /\ \A c \in Cte \ {e} : Owns(c, h, i)' <=> Owns(c, h, i)
    BY <1>1 DEF Owns
  <2>3. ASSUME NEW h \in Hart, NEW i \in Slot
        PROVE  \/ \E c \in Cte : SlotOf(c, h, i)'
               \/ (\A c \in Cte : ~Owns(c, h, i)') /\ slots'[h][i].length = 0
    <3>1. CASE Owns(e, h, i)
      <4>1. \A c \in Cte : ~Owns(c, h, i)'
        BY <2>2, <3>1, OneOwnerOfSlot
      <4>2. slots'[h][i].length = 0
        BY <2>1, <3>1 DEF NoSlot
      <4>. QED BY <4>1, <4>2
    <3>2. CASE ~Owns(e, h, i)
      <4>1. CASE \E c \in Cte : SlotOf(c, h, i)
        <5>1. PICK c \in Cte : SlotOf(c, h, i)
          BY <4>1
        <5>2. c # e /\ cap'[c] = cap[c]
          BY <5>1, <1>1, <3>2 DEF SlotOf
        <5>3. SlotOf(c, h, i)'
          BY <5>1, <5>2, <2>1, <2>2, <3>2 DEF SlotOf
        <5>. QED BY <5>3
      <4>2. CASE (\A c \in Cte : ~Owns(c, h, i)) /\ slots[h][i].length = 0
        BY <4>2, <2>1, <2>2, <3>2
      <4>. QED BY <4>1, <4>2 DEF TimeInv, SlotInv
    <3>. QED BY <3>1, <3>2
  <2>4. TimeInside'
    BY <1>1 DEF TimeInv, TimeInside, CapsOf
  <2>5. SlotInv'
    BY <2>3 DEF SlotInv
  <2>. QED BY <2>4, <2>5 DEF TimeInv
<1>. QED BY <1>2, <1>3

LEMMA DeriveTime ==
    ASSUME TableInv, SliceInv, TimeInv, NEW src \in Cte, NEW dst \in Cte,
           NEW n \in NewCaps, cap_derive(src, dst, n)
    PROVE  TimeInv'
<1>1. /\ src \in Occupied /\ dst \notin Occupied
      /\ n \in Cap /\ cap_is_valid(n) /\ cap_is_derivable(cap[src], n)
      /\ cap[src] \in Cap
      /\ cap'[dst] = n /\ cap'[src] = Derived(cap[src], n)
      /\ \A d \in Cte \ {src, dst} : cap'[d] = cap[d]
  BY DeriveEffect
<1>2. PICK s \in Cap, d \in {cap'[src]} :
          s = cap[src] /\ d = cap'[src] /\ d = Derived(s, n)
  BY <1>1
<1>3. /\ cap_is_derivable(s, n)
      /\ d.type = s.type
      /\ s.type \in SliceType => SameSlice(s, d)
      /\ n.type \in SliceType => d.mrk = n.end
  BY <1>1, <1>2, DerivedType
<1>4. cap[dst].type = "none"
  BY <1>1 DEF Occupied, cte_is_empty
<1>5. s.type = "time" <=> n.type = "time"
  BY <1>3 DEF cap_is_derivable, cap_time_derivable, cap_mem_derivable,
     cap_mon_derivable, cap_chan_derivable, cap_sock_derivable
<1>6. CASE n.type # "time"
  <2>1. slots' = slots
    BY <1>6 DEF cap_derive
  <2>2. ASSUME NEW c \in Cte
        PROVE  \/ cap'[c] = cap[c]
               \/ cap[c].type # "time" /\ cap'[c].type # "time"
    BY <1>1, <1>2, <1>3, <1>4, <1>5, <1>6
  <2>. QED BY <2>1, <2>2, SameTime
<1>7. CASE n.type = "time"
  <2>1. /\ s.type = "time" /\ d.type = "time"
        /\ s.hart = n.hart /\ d.hart = n.hart
        /\ s.mrk = n.mrk /\ n.end <= s.end /\ n.mrk < n.end
        /\ d.mrk = n.end /\ d.end = s.end
    BY <1>1, <1>3, <1>5, <1>7
       DEF cap_is_derivable, cap_time_derivable, is_range_prefix, cap_is_valid,
           SameSlice, SliceType
  <2>2. n.hart \in Hart /\ n.mrk \in Nat /\ n.end \in Nat /\ s.end \in Nat
    BY <2>1, <1>1, <1>7, CapCases DEF TimeCap
  <2>3. s.mrk <= s.end /\ s.end <= SlotCnt
    BY <2>1, <1>2 DEF TimeInv, TimeInside, CapsOf
  <2>4. SlotCnt \in Nat
    BY CapTypesAssumption
  <2>5. n.end <= SlotCnt
    BY <2>1, <2>2, <2>3, <2>4
  <2>6. ASSUME NEW h \in Hart, NEW i \in Slot
        PROVE  slots'[h][i] = IF Owns(dst, h, i)'
                              THEN [pid |-> cte_pid(dst), length |-> n.end - i]
                              ELSE slots[h][i]
    <3>1. slots' = sched_update(cte_pid(dst), n.end, n.hart, n.mrk, n.end)
      BY <1>7 DEF cap_derive
    <3>2. PICK p \in Pid, hart \in Hart, from \in Nat, end \in Nat :
              p = cte_pid(dst) /\ hart = n.hart /\ from = n.mrk /\ end = n.end
      BY <2>2, CteBounds
    <3>3. PICK g : g = slots'
      OBVIOUS
    <3>4. g = sched_update(p, end, hart, from, end) /\ end <= SlotCnt /\ ResourceType
      BY <2>5, <3>1, <3>2, <3>3 DEF TableInv
    <3>5. g[h][i] = IF h = hart /\ from <= i /\ i < end
                    THEN [pid |-> p, length |-> end - i] ELSE slots[h][i]
      BY <3>4, UpdateAt
    <3>6. Owns(dst, h, i)' <=> h = n.hart /\ n.mrk <= i /\ i < n.end
      BY <1>1, <1>7 DEF Owns
    <3>. QED BY <3>2, <3>3, <3>5, <3>6
  <2>7. ASSUME NEW h \in Hart, NEW i \in Slot
        PROVE  /\ Owns(src, h, i)' \/ Owns(dst, h, i)' <=> Owns(src, h, i)
               /\ ~(Owns(src, h, i)' /\ Owns(dst, h, i)')
               /\ ~Owns(dst, h, i)
               /\ \A c \in Cte \ {src, dst} : Owns(c, h, i)' <=> Owns(c, h, i)
    <3>1. i \in Int
      BY DEF Slot
    <3>2. Owns(dst, h, i)' <=> h = n.hart /\ n.mrk <= i /\ i < n.end
      BY <1>1, <1>7 DEF Owns
    <3>3. Owns(src, h, i)' <=> h = n.hart /\ n.end <= i /\ i < s.end
      BY <1>2, <2>1 DEF Owns
    <3>4. Owns(src, h, i) <=> h = n.hart /\ n.mrk <= i /\ i < s.end
      BY <1>2, <2>1 DEF Owns
    <3>5. ~Owns(dst, h, i) /\ \A c \in Cte \ {src, dst} : Owns(c, h, i)' <=> Owns(c, h, i)
      BY <1>1, <1>4 DEF Owns
    <3>. QED BY <3>1, <3>2, <3>3, <3>4, <3>5, <2>1, <2>2
  <2>8. ASSUME NEW h \in Hart, NEW i \in Slot
        PROVE  \/ \E c \in Cte : SlotOf(c, h, i)'
               \/ (\A c \in Cte : ~Owns(c, h, i)') /\ slots'[h][i].length = 0
    <3>1. CASE Owns(dst, h, i)'
      <4>1. SlotOf(dst, h, i)'
        BY <1>1, <2>6, <3>1 DEF SlotOf
      <4>. QED BY <4>1
    <3>2. CASE ~Owns(dst, h, i)'
      <4>1. CASE \E c \in Cte : SlotOf(c, h, i)
        <5>1. PICK c \in Cte : SlotOf(c, h, i)
          BY <4>1
        <5>2. CASE c = src
          <6>1. Owns(src, h, i)'
            BY <5>1, <5>2, <2>7, <3>2 DEF SlotOf
          <6>2. cap'[src].end = cap[src].end
            BY <1>2, <2>1
          <6>3. SlotOf(src, h, i)'
            BY <5>1, <5>2, <6>1, <6>2, <2>6, <3>2 DEF SlotOf
          <6>. QED BY <6>3
        <5>3. CASE c # src
          <6>1. c \notin {src, dst} /\ cap'[c] = cap[c]
            BY <5>1, <5>3, <1>1, <2>7 DEF SlotOf
          <6>2. SlotOf(c, h, i)'
            BY <5>1, <6>1, <2>6, <2>7, <3>2 DEF SlotOf
          <6>. QED BY <6>2
        <5>. QED BY <5>2, <5>3
      <4>2. CASE (\A c \in Cte : ~Owns(c, h, i)) /\ slots[h][i].length = 0
        BY <4>2, <2>6, <2>7, <3>2
      <4>. QED BY <4>1, <4>2 DEF TimeInv, SlotInv
    <3>. QED BY <3>1, <3>2
  <2>9. ASSUME NEW c \in CapsOf("time")'
        PROVE  cap'[c].mrk <= cap'[c].end /\ cap'[c].end <= SlotCnt
    <3>1. CASE c = dst
      BY <3>1, <1>1, <2>1, <2>2, <2>5
    <3>2. CASE c = src
      BY <3>2, <1>2, <2>1, <2>3
    <3>3. CASE c \notin {src, dst}
      <4>1. cap'[c] = cap[c] /\ c \in CapsOf("time")
        BY <2>9, <3>3, <1>1 DEF CapsOf
      <4>. QED BY <4>1 DEF TimeInv, TimeInside
    <3>. QED BY <3>1, <3>2, <3>3
  <2>. QED BY <2>8, <2>9 DEF TimeInv, SlotInv, TimeInside
<1>. QED BY <1>6, <1>7

LEMMA RevokeTime ==
    ASSUME TableInv, SliceInv, TimeInv, NEW parent \in Cte, cap_revoke(parent)
    PROVE  TimeInv'
<1>0. PICK child \in {next[parent]} : child = next[parent]
  OBVIOUS
<1>. DEFINE p == cap[parent]
            c == cap[child]
            q == cap'[parent]
<1>1. /\ parent \in Occupied
      /\ child \in Occupied /\ child # 0 /\ child # parent /\ child \in Cte
      /\ cap'[child] = NoCap /\ cap'[child].type = "none"
      /\ \A d \in Cte \ {child, parent} : cap'[d] = cap[d]
      /\ q = p \/ Lowered(p, c, q)
  BY <1>0, RevokeEffect DEF Occupied, NoCap
<1>2. CASE p.type # "time"
  <2>1. slots' = slots /\ c.type # "time"
    BY <1>0, <1>2 DEF cap_revoke, cap_revoke_time, cap_revoke_memory, cap_revoke_monitor,
       cap_revoke_channel, cap_revoke_socket, resourceVars, mem_revocable,
       mem_pmp_revocable, mon_revocable, chan_revocable, chan_sock_revocable,
       sock_revocable
  <2>2. q.type # "time"
    BY <1>1, <1>2 DEF Lowered, SameSlice
  <2>3. ASSUME NEW e \in Cte
        PROVE  \/ cap'[e] = cap[e]
               \/ cap[e].type # "time" /\ cap'[e].type # "time"
    BY <1>1, <1>2, <2>1, <2>2
  <2>. QED BY <2>1, <2>3, SameTime
<1>3. CASE p.type = "time"
  <2>1. cap_revoke_time(parent, child)
    BY <1>0, <1>3 DEF cap_revoke, cap_revoke_memory, cap_revoke_monitor,
       cap_revoke_channel, cap_revoke_socket
  <2>2. /\ c.type = "time" /\ c.hart = p.hart
        /\ slots' = sched_update(cte_pid(parent), p.end, p.hart, c.mrk, p.end)
    BY <2>1 DEF cap_revoke_time, time_revocable
  <2>3. /\ p \in TimeCap /\ p.hart \in Hart /\ p.mrk \in Nat /\ p.end \in Nat
        /\ c \in TimeCap /\ c.mrk \in Nat /\ c.end \in Nat
    BY <1>1, <1>3, <2>2, TimeFields
  <2>4. /\ p.mrk <= p.end /\ p.end <= SlotCnt /\ c.mrk <= c.end
    BY <1>1, <1>3, <2>2 DEF TimeInv, TimeInside, CapsOf
  <2>5. c.end <= p.mrk
    <3>1. PICK r \in [Cte -> Int] : InOrder(r)
      BY DEF SliceInv
    <3>2. r[parent] < r[child]
      BY <1>1, <3>1 DEF InOrder, Ranked
    <3>3. SameKind(p, c) /\ ~ClientOf(c, p)
      BY <1>3, <2>2 DEF SameKind, Kind, SliceType, ClientOf
    <3>4. Hi(c) <= Lo(p)
      BY <1>1, <3>1, <3>2, <3>3 DEF InOrder, Descending
    <3>. QED BY <3>4, <1>3, <2>2 DEF Hi, Lo
  <2>6. q.type = "time" /\ q.hart = p.hart /\ q.mrk = c.mrk /\ q.end = p.end
    <3>1. cap' = [cap EXCEPT ![child] = NoCap, ![parent] = [p EXCEPT !.mrk = c.mrk]]
      BY <2>1 DEF cap_revoke_time
    <3>2. q = [p EXCEPT !.mrk = c.mrk]
      BY <3>1, <1>1 DEF TableInv, TableType
    <3>. QED BY <3>2, <1>3, <2>3 DEF TimeCap
  <2>7. ASSUME NEW h \in Hart, NEW i \in Slot
        PROVE  /\ Owns(parent, h, i)' <=> h = p.hart /\ c.mrk <= i /\ i < p.end
               /\ Owns(parent, h, i) \/ Owns(child, h, i) => Owns(parent, h, i)'
               /\ ~Owns(child, h, i)'
               /\ \A e \in Cte \ {child, parent} : Owns(e, h, i)' <=> Owns(e, h, i)
    <3>1. i \in Int
      BY DEF Slot
    <3>2. Owns(parent, h, i)' <=> h = p.hart /\ c.mrk <= i /\ i < p.end
      BY <2>6 DEF Owns
    <3>3. Owns(parent, h, i) <=> h = p.hart /\ p.mrk <= i /\ i < p.end
      BY <1>3 DEF Owns
    <3>4. Owns(child, h, i) <=> h = p.hart /\ c.mrk <= i /\ i < c.end
      BY <2>2 DEF Owns
    <3>5. /\ ~Owns(child, h, i)'
          /\ \A e \in Cte \ {child, parent} : Owns(e, h, i)' <=> Owns(e, h, i)
      BY <1>1 DEF Owns
    <3>6. Owns(parent, h, i) \/ Owns(child, h, i) => Owns(parent, h, i)'
      <4>. HIDE DEF p, c
      <4>. QED BY <3>1, <3>2, <3>3, <3>4, <2>3, <2>4, <2>5
    <3>. QED BY <3>2, <3>5, <3>6
  <2>8. ASSUME NEW h \in Hart, NEW i \in Slot
        PROVE  slots'[h][i] = IF Owns(parent, h, i)'
                              THEN [pid |-> cte_pid(parent), length |-> p.end - i]
                              ELSE slots[h][i]
    <3>1. PICK x \in Pid, hart \in Hart, from \in Nat, end \in Nat :
              x = cte_pid(parent) /\ hart = p.hart /\ from = c.mrk /\ end = p.end
      BY <2>3, CteBounds
    <3>2. PICK g : g = slots'
      OBVIOUS
    <3>3. g = sched_update(x, end, hart, from, end) /\ end <= SlotCnt /\ ResourceType
      BY <2>2, <2>4, <3>1, <3>2 DEF TableInv
    <3>4. g[h][i] = IF h = hart /\ from <= i /\ i < end
                    THEN [pid |-> x, length |-> end - i] ELSE slots[h][i]
      BY <3>3, UpdateAt
    <3>. QED BY <2>7, <3>1, <3>2, <3>4
  <2>. HIDE DEF p, c, q
  <2>9. ASSUME NEW h \in Hart, NEW i \in Slot
        PROVE  \/ \E e \in Cte : SlotOf(e, h, i)'
               \/ (\A e \in Cte : ~Owns(e, h, i)') /\ slots'[h][i].length = 0
    <3>1. CASE Owns(parent, h, i)'
      <4>1. SlotOf(parent, h, i)'
        BY <2>6, <2>8, <3>1 DEF SlotOf, q
      <4>. QED BY <4>1
    <3>2. CASE ~Owns(parent, h, i)'
      <4>1. CASE \E e \in Cte : SlotOf(e, h, i)
        <5>1. PICK e \in Cte : SlotOf(e, h, i)
          BY <4>1
        <5>2. e \notin {child, parent} /\ cap'[e] = cap[e]
          BY <5>1, <1>1, <2>7, <3>2 DEF SlotOf
        <5>3. SlotOf(e, h, i)'
          BY <5>1, <5>2, <2>7, <2>8, <3>2 DEF SlotOf
        <5>. QED BY <5>3
      <4>2. CASE (\A e \in Cte : ~Owns(e, h, i)) /\ slots[h][i].length = 0
        <5>1. ASSUME NEW e \in Cte PROVE ~Owns(e, h, i)'
          <6>1. CASE e = parent
            BY <6>1, <3>2
          <6>2. CASE e = child
            BY <6>2, <2>7
          <6>3. CASE e \notin {child, parent}
            BY <6>3, <4>2, <2>7
          <6>. QED BY <6>1, <6>2, <6>3
        <5>. QED BY <5>1, <4>2, <2>8, <3>2
      <4>. QED BY <4>1, <4>2 DEF TimeInv, SlotInv
    <3>. QED BY <3>1, <3>2
  <2>10. ASSUME NEW e \in CapsOf("time")'
         PROVE  cap'[e].mrk <= cap'[e].end /\ cap'[e].end <= SlotCnt
    <3>1. CASE e = parent
      <4>1. c.mrk <= p.end
        BY <2>3, <2>4, <2>5
      <4>. QED BY <3>1, <4>1, <2>4, <2>6 DEF q
    <3>2. CASE e # parent
      <4>1. cap'[e] = cap[e] /\ e \in CapsOf("time")
        BY <2>10, <3>2, <1>1 DEF CapsOf
      <4>. QED BY <4>1 DEF TimeInv, TimeInside
    <3>. QED BY <3>1, <3>2
  <2>. QED BY <2>9, <2>10 DEF TimeInv, SlotInv, TimeInside
<1>. QED BY <1>2, <1>3


LEMMA PmpTime ==
    ASSUME TableInv, TimeInv, NEW c \in Cte, NEW s,
           cap_pmp_load(c, s) \/ cap_pmp_unload(c)
    PROVE  TimeInv'
<1>1. cap[c].type = "pmp" /\ slots' = slots
  BY DEF cap_pmp_load, cap_pmp_unload
<1>2. cap'[c].type # "time" /\ \A e \in Cte \ {c} : cap'[e] = cap[e]
  <2>1. cap \in [Cte -> Cap] /\ cap[c] \in PmpCap
    BY CapCases DEF cap_pmp_load, cap_pmp_unload, TableInv, TableType
  <2>2. PICK u, v : cap' = [cap EXCEPT ![c] = [cap[c] EXCEPT !.slot = u, !.used = v]]
    BY PmpEffect
  <2>3. [cap[c] EXCEPT !.slot = u, !.used = v].type = "pmp"
    BY <2>1 DEF PmpCap
  <2>. QED BY <2>1, <2>2, <2>3
<1>3. ASSUME NEW e \in Cte
      PROVE  \/ cap'[e] = cap[e]
             \/ cap[e].type # "time" /\ cap'[e].type # "time"
  BY <1>1, <1>2
<1>. QED BY <1>1, <1>3, SameTime

LEMMA InitTime ==
    ASSUME WholePeriod, Init
    PROVE  TimeInv
<1>1. PICK n \in Nat \ {0} : BootTable(n)
  BY BootLoads
<1>2. /\ Occupied = 0 .. n - 1 /\ n <= CapCnt
      /\ DOMAIN InitCaps = 0 .. n - 1
      /\ cap[0] = BootCap /\ BootCap.type = "pmp" /\ InitCaps[0].type = "pmp"
      /\ \A c \in Occupied : c # 0 => c \in DOMAIN InitCaps /\ cap[c] = InitCaps[c]
  BY <1>1, BootCapType, InitCapsAssumption DEF BootTable, PmpCap
<1>3. ASSUME NEW c \in Cte, cap[c].type = "time"
      PROVE  /\ c \in DOMAIN InitCaps /\ cap[c] = InitCaps[c]
             /\ cap[c].mrk = 0 /\ cap[c].end = SlotCnt
  <2>1. c \in Occupied /\ c # 0
    BY <1>2, <1>3 DEF Occupied, cte_is_empty
  <2>2. c \in DOMAIN InitCaps /\ cap[c] = InitCaps[c]
    BY <1>2, <2>1
  <2>3. cap[c].hart \in Hart
    BY <1>1, <1>3, TimeFields, InitInv DEF IInv
  <2>4. PICK i \in DOMAIN InitCaps : InitCaps[i] = cap_mk_time(cap[c].hart, 0, SlotCnt)
    BY <2>3 DEF WholePeriod
  <2>5. InitCaps[i].type = "time" /\ InitCaps[i].hart = cap[c].hart
    BY <2>4 DEF cap_mk_time
  <2>6. i = c
    <3>1. CASE i # c
      <4>1. i \in DOMAIN InitCaps \ {c} /\ InitCaps[c].type = "time"
        BY <1>3, <2>2, <2>4, <3>1
      <4>2. \/ InitCaps[c].hart # InitCaps[i].hart
            \/ InitCaps[c].type = "memory"
        BY <2>2, <2>5, <4>1, InitResourcesAssumption DEF SliceType
      <4>. QED BY <2>2, <2>5, <4>1, <4>2
    <3>. QED BY <3>1
  <2>7. PICK h : cap[c] = cap_mk_time(h, 0, SlotCnt)
    BY <2>2, <2>4, <2>6
  <2>8. cap[c].mrk = 0 /\ cap[c].end = SlotCnt
    BY <2>7 DEF cap_mk_time
  <2>. QED BY <2>2, <2>8
<1>4. SlotCnt \in Nat /\ SlotCnt < LengthRange /\ LengthRange \in Nat
  BY CapTypesAssumption, LengthRangeAssumption
<1>5. TimeInside
  BY <1>3, <1>4 DEF TimeInside, CapsOf
<1>6. ASSUME NEW h \in Hart, NEW i \in Slot
      PROVE  \E c \in Cte : SlotOf(c, h, i)
  <2>1. PICK c \in DOMAIN InitCaps : InitCaps[c] = cap_mk_time(h, 0, SlotCnt)
    BY DEF WholePeriod
  <2>2. c # 0 /\ c \in Occupied /\ c \in Cte
    BY <1>2, <2>1 DEF cap_mk_time, Occupied
  <2>3. cap[c] = cap_mk_time(h, 0, SlotCnt)
    BY <1>2, <2>1, <2>2
  <2>4. cte_pid(c) = 0
    BY <1>2, <2>1, CapTypesAssumption DEF cte_pid
  <2>5. i \in Nat /\ i < SlotCnt
    BY <1>4 DEF Slot
  <2>6. slots[h][i] = [pid |-> 0, length |-> (SlotCnt - i) % LengthRange]
    BY DEF Init, sched_init
  <2>7. (SlotCnt - i) % LengthRange = SlotCnt - i
    BY <1>4, <2>5
  <2>8. Owns(c, h, i)
    BY <2>3, <2>5 DEF Owns, cap_mk_time
  <2>9. cap[c].end = SlotCnt
    BY <2>3 DEF cap_mk_time
  <2>. QED BY <2>2, <2>4, <2>6, <2>7, <2>8, <2>9 DEF SlotOf
<1>. QED BY <1>5, <1>6 DEF TimeInv, SlotInv

LEMMA NextTime ==
    ASSUME BuiltInv, TimeInv, [Next]_vars
    PROVE  TimeInv'
<1>1. TableInv /\ SliceInv /\ IInv /\ NoReset
  BY DEF BuiltInv, IInv
<1>2. CASE UNCHANGED <<tableVars, resourceVars>>
  BY <1>2, SameTime DEF tableVars, resourceVars
<1>. QED BY <1>1, <1>2, BuiltOperations, MoveTime, DeleteTime, DeriveTime,
            RevokeTime, PmpTime

(***************************************************************************)
(* The slot table is what the time capabilities say, after every system    *)
(* call: a slot is served to the process that holds it free, for the time  *)
(* to the end of that capability, and to nobody otherwise (sched_update    *)
(* and sched_delete, called by cap_move, cap_delete, cap_derive and        *)
(* cap_revoke).                                                            *)
(***************************************************************************)
THEOREM ScheduleFollowsCaps ==
    ASSUME AsBuilt, WholePeriod
    PROVE  Spec => []ScheduleMatchesCaps
<1>1. Init => TimeInv
  BY InitTime
<1>2. BuiltInv /\ TimeInv /\ [Next]_vars => TimeInv'
  BY NextTime
<1>3. ASSUME TableInv, TimeInv PROVE ScheduleMatchesCaps
  <2>. SUFFICES ASSUME NEW h \in Hart, NEW i \in Slot
       PROVE  LET Owners == {c \in CapsOf("time") : cap[c].hart = h /\ i \in Free(c)}
              IN  \/ Owners = {} /\ slots[h][i].length = 0
                  \/ \E c \in Owners :
                        slots[h][i] = [pid |-> cte_pid(c), length |-> cap[c].end - i]
    BY DEF ScheduleMatchesCaps
  <2>1. i \in Int
    BY DEF Slot
  <2>2. ASSUME NEW c \in CapsOf("time")
        PROVE  c \in Cte /\ (cap[c].hart = h /\ i \in Free(c) <=> Owns(c, h, i))
    BY <1>3, <2>1, TimeFields DEF CapsOf, Owns, Free
  <2>3. \A c \in Cte : Owns(c, h, i) => c \in CapsOf("time")
    BY DEF Owns, CapsOf
  <2>. QED BY <1>3, <2>2, <2>3 DEF TimeInv, SlotInv, SlotOf
<1>4. BuiltInv /\ TimeInv => ScheduleMatchesCaps
  BY <1>3 DEF BuiltInv, IInv
<1>. QED BY <1>1, <1>2, <1>4, BuiltAlways, PTL DEF Spec


-----------------------------------------------------------------------------
(* What a revocation deletes. *)

\* A step of a revocation of a slice whose mark is inside.
LEMMA RevokesGivenAway ==
    ASSUME TableInv, SliceInv, NEW parent \in Cte, cap_revoke(parent),
           cap[parent].type \in Inside, cap[next[parent]].type # "pmp"
    PROVE  GivenAway(cap[parent], cap[next[parent]])
<1>1. PICK child \in {next[parent]} : child = next[parent]
  OBVIOUS
<1>2. PICK p \in Cap, c \in Cap : p = cap[parent] /\ c = cap[child]
  <2>1. child \in Cte /\ cap \in [Cte -> Cap]
    BY <1>1 DEF TableInv, TableType
  <2>. QED BY <2>1
<1>3. /\ parent \in Occupied /\ child \in Occupied /\ child # 0
      /\ \/ p.type = "time" /\ time_revocable(p, c)
         \/ p.type = "memory" /\ mem_revocable(p, c)
         \/ p.type = "monitor" /\ mon_revocable(p, c)
         \/ p.type = "channel" /\ (chan_revocable(p, c) \/ chan_sock_revocable(p, c))
  <2>1. parent \in Occupied /\ child \in Occupied /\ child # 0
    BY <1>1, RevokeEffect
  <2>2. p.type \in SliceType /\ ~mem_pmp_revocable(p, c)
    BY <1>1, <1>2, InsideTypes DEF mem_pmp_revocable
  <2>3. p.type # "socket"
    BY <2>2 DEF SliceType
  <2>4. \/ cap_revoke_time(parent, child) \/ cap_revoke_memory(parent, child)
        \/ cap_revoke_monitor(parent, child) \/ cap_revoke_channel(parent, child)
        \/ cap_revoke_socket(parent, child)
    BY <1>1 DEF cap_revoke
  <2>5. CASE cap_revoke_time(parent, child)
    BY <2>1, <2>5, <1>2 DEF cap_revoke_time
  <2>6. CASE cap_revoke_memory(parent, child)
    BY <2>1, <2>2, <2>6, <1>2 DEF cap_revoke_memory
  <2>7. CASE cap_revoke_monitor(parent, child)
    BY <2>1, <2>7, <1>2 DEF cap_revoke_monitor
  <2>8. CASE cap_revoke_channel(parent, child)
    BY <2>1, <2>8, <1>2 DEF cap_revoke_channel
  <2>9. CASE cap_revoke_socket(parent, child)
    BY <2>3, <2>9, <1>2 DEF cap_revoke_socket
  <2>. QED BY <2>4, <2>5, <2>6, <2>7, <2>8, <2>9
<1>4. PICK r \in [Cte -> Int] : InOrder(r)
  BY DEF SliceInv
<1>5. r[parent] < r[child]
  BY <1>1, <1>3, <1>4 DEF InOrder, Ranked
<1>6. parent \in Inner /\ p.type \in SliceType /\ p.type \in Inside
  BY <1>2, InsideTypes DEF Inner
<1>7. CASE c.type = p.type
  <2>1. ~(p.type = "channel" /\ c.type = "channel")
    <3>1. parent # child
      BY <1>4, <1>5
    <3>. QED BY <3>1, <1>2, <1>3, <1>6 DEF SliceInv, OneChannel, CapsOf, Occupied
  <2>2. /\ SameKind(p, c) /\ c.end > p.bgn
        /\ c.type \in SliceType /\ ~ClientOf(c, p)
    BY <1>3, <1>6, <1>7, <2>1
       DEF SameKind, Kind, time_revocable, mem_revocable, mon_revocable, ClientOf,
           SliceType
  <2>3. Hi(c) <= Lo(p)
    BY <1>2, <1>3, <1>4, <1>5, <2>2 DEF InOrder, Descending
  <2>4. child \in Inner
    BY <1>2, <1>3, <1>6, <1>7 DEF Inner, Occupied
  <2>5. c.end <= p.bgn \/ p.bgn <= c.bgn
    BY <1>2, <1>4, <1>5, <1>6, <2>2, <2>4 DEF InOrder, Nested
  <2>6. Kind(p) \in SliceType /\ Kind(c) \in SliceType
    BY <2>2, KindFacts
  <2>7. Lo(p) = p.mrk /\ p.bgn \in Nat
    BY <1>6, <2>6, Bounds
  <2>8. Hi(c) = c.end /\ c.end \in Nat
    BY <2>2, <2>6, Bounds
  <2>9. p.bgn <= c.bgn /\ c.end <= p.mrk
    BY <2>2, <2>3, <2>5, <2>7, <2>8
  <2>. QED BY <2>9, <1>1, <1>2, <1>7 DEF GivenAway
<1>8. CASE c.type # p.type
  <2>1. p.type = "channel" /\ c.type = "socket" /\ p.bgn <= c.chan
    BY <1>3, <1>8 DEF time_revocable, mem_revocable, mon_revocable, chan_revocable,
       chan_sock_revocable
  <2>2. SameKind(p, c) /\ ~ClientOf(c, p)
    BY <2>1 DEF SameKind, Kind, ClientOf, SliceType
  <2>3. Hi(c) <= Lo(p)
    BY <1>2, <1>3, <1>4, <1>5, <2>2 DEF InOrder, Descending
  <2>4. p \in ChanCap /\ c \in SockCap
    BY <2>1, CapCases
  <2>5. Hi(c) = c.chan + 1 /\ Lo(p) = p.mrk /\ c.chan \in Nat /\ p.mrk \in Nat
    BY <2>1, <2>4 DEF Hi, Lo, SockCap, ChanCap
  <2>6. c.chan < p.mrk
    BY <2>3, <2>5
  <2>. QED BY <2>1, <2>6, <1>1, <1>2 DEF GivenAway
<1>. QED BY <1>7, <1>8

(***************************************************************************)
(* A step of a revocation of a time, monitor, channel or memory slice      *)
(* deletes a slice or socket that the revoked one has given away, although *)
(* cap_revoke looks at nothing but the next list entry and other harts     *)
(* change the list between two steps (Inside: not where a process derives  *)
(* channels from channels, nor a resource with its mark outside at boot).  *)
(***************************************************************************)
THEOREM OnlyGivenAwayGoes ==
    ASSUME AsBuilt
    PROVE  Spec => [][\A p \in Pid :
                        LET parent == cap[call[p].cte]
                            child == cap[next[call[p].cte]]
                        IN  RevokeStep(p) /\ parent.type \in Inside
                              /\ child.type # "pmp" => GivenAway(parent, child)]_vars
<1>1. ASSUME BuiltInv, NEW p \in Pid, RevokeStep(p),
             cap[call[p].cte].type \in Inside,
             cap[next[call[p].cte]].type # "pmp"
      PROVE  GivenAway(cap[call[p].cte], cap[next[call[p].cte]])
  <2>1. PICK e \in Cte : e = call[p].cte
    BY <1>1 DEF BuiltInv, IInv, ProcType
  <2>2. TableInv /\ SliceInv /\ cap_revoke(e)
    BY <1>1, <2>1 DEF BuiltInv, IInv, RevokeStep
  <2>. QED BY <1>1, <2>1, <2>2, RevokesGivenAway
<1>2. BuiltInv /\ [Next]_vars =>
        [\A p \in Pid :
            LET parent == cap[call[p].cte]
                child == cap[next[call[p].cte]]
            IN  RevokeStep(p) /\ parent.type \in Inside
                  /\ child.type # "pmp" => GivenAway(parent, child)]_vars
  BY <1>1
<1>. QED BY <1>2, BuiltAlways, PTL DEF Spec

=============================================================================
