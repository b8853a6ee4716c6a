------------------------------ MODULE CapProofs ------------------------------
(***************************************************************************)
(* For every platform and whatever the processes ask for, the capability   *)
(* table keeps its type and its list, across all the system calls of       *)
(* CapSys and all their interleavings.                                     *)
(*                                                                         *)
(* The list is not inductive by itself.  cte_move would corrupt a list of  *)
(* one entry, so some entry must always be there besides the one that      *)
(* moves: the boot frame in entry 0, which no process moves or deletes     *)
(* (Pinned).  And no revocation may take it for a child, which is where    *)
(* BootFrameAssumption comes in, for it is the successor of the last entry.*)
(***************************************************************************)
EXTENDS CapSafety, FiniteSetTheorems, WellFoundedInduction, TLAPS

-----------------------------------------------------------------------------
(***************************************************************************)
(* The list of capability table entries stays one circular doubly linked   *)
(* list of exactly the occupied ones under each of the three link updates. *)
(* For OneCycle, a set closed under the new next is turned into one closed *)
(* under the old next, which is the whole old list.                        *)
(***************************************************************************)
LinkType == next \in [Cte -> Cte] /\ prev \in [Cte -> Cte]

(***************************************************************************)
(* cte_insert: a free entry c goes right after p.                          *)
(***************************************************************************)
LEMMA LinkInsertKeepsList ==
    ASSUME LinkType, ListOK,
           NEW c \in Cte, NEW p \in Occupied,
           cte_is_empty(c),
           LinkInsert(c, p),
           Occupied' = Occupied \cup {c}
    PROVE  ListOK'
<1>. DEFINE q == next[p]
<1>1. /\ \A x \in Occupied : /\ x \in Cte /\ x # c
                             /\ next[x] \in Occupied /\ prev[next[x]] = x
                             /\ prev[x] \in Occupied /\ next[prev[x]] = x
      /\ q \in Occupied /\ q # c /\ p # c
  BY DEF ListOK, Linked, LinkType, Occupied
<1>2. /\ next'[c] = q /\ next'[p] = c
      /\ \A x \in Occupied \ {p} : next'[x] = next[x]
      /\ prev'[c] = p /\ prev'[q] = c
      /\ \A x \in Occupied \ {q} : prev'[x] = prev[x]
  BY <1>1 DEF LinkInsert, LinkType
<1>3. \A x \in Occupied' : /\ next'[x] \in Occupied' /\ prev'[next'[x]] = x
                           /\ prev'[x] \in Occupied' /\ next'[prev'[x]] = x
  <2>. SUFFICES ASSUME NEW x \in Occupied'
                PROVE  /\ next'[x] \in Occupied' /\ prev'[next'[x]] = x
                       /\ prev'[x] \in Occupied' /\ next'[prev'[x]] = x
    OBVIOUS
  <2>1. CASE x = c
    BY <2>1, <1>1, <1>2
  <2>2. CASE x \in Occupied
    <3>1. next'[x] \in Occupied' /\ prev'[next'[x]] = x
      <4>1. CASE x = p
        BY <4>1, <1>1, <1>2
      <4>2. CASE x # p
        BY <4>2, <2>2, <1>1, <1>2
      <4>. QED BY <4>1, <4>2
    <3>2. prev'[x] \in Occupied' /\ next'[prev'[x]] = x
      <4>1. CASE x = q
        BY <4>1, <1>1, <1>2
      <4>2. CASE x # q
        BY <4>2, <2>2, <1>1, <1>2
      <4>. QED BY <4>1, <4>2
    <3>. QED BY <3>1, <3>2
  <2>. QED BY <2>1, <2>2
<1>4. Linked'
  BY <1>3 DEF Linked, Occupied
<1>5. ASSUME NEW S \in SUBSET Occupied', S # {}, \A x \in S : next'[x] \in S
      PROVE  S = Occupied'
  <2>. DEFINE T == S \ {c}
  <2>1. T \in SUBSET Occupied
    OBVIOUS
  <2>2. T # {}
    BY <1>1, <1>2, <1>5
  <2>3. \A x \in T : next[x] \in T
    <3>. SUFFICES ASSUME NEW x \in T PROVE next[x] \in T
      OBVIOUS
    <3>1. CASE x = p
      BY <3>1, <1>1, <1>2, <1>5
    <3>2. CASE x # p
      BY <3>2, <2>1, <1>1, <1>2, <1>5
    <3>. QED BY <3>1, <3>2
  <2>4. T = Occupied
    BY <2>1, <2>2, <2>3 DEF ListOK, OneCycle
  <2>5. c \in S
    BY <2>4, <1>2, <1>5
  <2>. QED BY <2>4, <2>5
<1>6. OneCycle'
  BY <1>5 DEF OneCycle
<1>. QED BY <1>4, <1>6 DEF ListOK

(***************************************************************************)
(* cte_move: the free entry dst takes the place of src in a list of at     *)
(* least two entries.                                                      *)
(***************************************************************************)
LEMMA LinkMoveKeepsList ==
    ASSUME LinkType, ListOK,
           NEW src \in Occupied, NEW dst \in Cte,
           cte_is_empty(dst),
           next[src] # src,
           LinkMove(src, dst),
           Occupied' = (Occupied \ {src}) \cup {dst}
    PROVE  ListOK'
<1>. DEFINE a == prev[src]
            b == next[src]
<1>1. /\ \A x \in Occupied : /\ x \in Cte /\ x # dst
                             /\ next[x] \in Occupied /\ prev[next[x]] = x
                             /\ prev[x] \in Occupied /\ next[prev[x]] = x
      /\ a \in Occupied \ {src} /\ b \in Occupied \ {src}
  BY DEF ListOK, Linked, LinkType, Occupied
<1>2. /\ next'[dst] = b /\ next'[a] = dst
      /\ \A x \in Occupied \ {a} : next'[x] = next[x]
      /\ prev'[dst] = a /\ prev'[b] = dst
      /\ \A x \in Occupied \ {b} : prev'[x] = prev[x]
  BY <1>1 DEF LinkMove, LinkType
<1>3. \A x \in Occupied' : /\ next'[x] \in Occupied' /\ prev'[next'[x]] = x
                           /\ prev'[x] \in Occupied' /\ next'[prev'[x]] = x
  <2>. SUFFICES ASSUME NEW x \in Occupied'
                PROVE  /\ next'[x] \in Occupied' /\ prev'[next'[x]] = x
                       /\ prev'[x] \in Occupied' /\ next'[prev'[x]] = x
    OBVIOUS
  <2>1. CASE x = dst
    BY <2>1, <1>1, <1>2
  <2>2. CASE x \in Occupied \ {src}
    <3>1. next'[x] \in Occupied' /\ prev'[next'[x]] = x
      <4>1. CASE x = a
        BY <4>1, <1>1, <1>2
      <4>2. CASE x # a
        BY <4>2, <2>2, <1>1, <1>2
      <4>. QED BY <4>1, <4>2
    <3>2. prev'[x] \in Occupied' /\ next'[prev'[x]] = x
      <4>1. CASE x = b
        BY <4>1, <1>1, <1>2
      <4>2. CASE x # b
        BY <4>2, <2>2, <1>1, <1>2
      <4>. QED BY <4>1, <4>2
    <3>. QED BY <3>1, <3>2
  <2>. QED BY <2>1, <2>2
<1>4. Linked'
  BY <1>3 DEF Linked, Occupied
<1>5. ASSUME NEW S \in SUBSET Occupied', S # {}, \A x \in S : next'[x] \in S
      PROVE  S = Occupied'
  <2>. DEFINE T == IF dst \in S THEN (S \ {dst}) \cup {src} ELSE S
  <2>1. T \in SUBSET Occupied /\ T # {}
    BY <1>1, <1>5
  <2>2. \A x \in T : next[x] \in T
    <3>. SUFFICES ASSUME NEW x \in T PROVE next[x] \in T
      OBVIOUS
    <3>1. CASE x = src
      BY <3>1, <1>1, <1>2, <1>5
    <3>2. CASE x # src /\ x = a
      BY <3>2, <1>1, <1>2, <1>5
    <3>3. CASE x # src /\ x # a
      BY <3>3, <2>1, <1>1, <1>2, <1>5
    <3>. QED BY <3>1, <3>2, <3>3
  <2>3. T = Occupied
    BY <2>1, <2>2 DEF ListOK, OneCycle
  <2>. QED BY <2>3, <1>1, <1>5
<1>6. OneCycle'
  BY <1>5 DEF OneCycle
<1>. QED BY <1>4, <1>6 DEF ListOK

(***************************************************************************)
(* cte_delete: c leaves the list.                                          *)
(***************************************************************************)
LEMMA LinkDeleteKeepsList ==
    ASSUME LinkType, ListOK,
           NEW c \in Occupied,
           LinkDelete(c),
           Occupied' = Occupied \ {c}
    PROVE  ListOK'
<1>. DEFINE a == prev[c]
            b == next[c]
<1>1. /\ \A x \in Occupied : /\ x \in Cte
                             /\ next[x] \in Occupied /\ prev[next[x]] = x
                             /\ prev[x] \in Occupied /\ next[prev[x]] = x
      /\ a \in Occupied /\ b \in Occupied
  BY DEF ListOK, Linked, LinkType, Occupied
<1>2. /\ next'[a] = b /\ \A x \in Occupied \ {a} : next'[x] = next[x]
      /\ prev'[b] = a /\ \A x \in Occupied \ {b} : prev'[x] = prev[x]
  BY <1>1 DEF LinkDelete, LinkType
<1>3. \A x \in Occupied' : /\ next'[x] \in Occupied' /\ prev'[next'[x]] = x
                           /\ prev'[x] \in Occupied' /\ next'[prev'[x]] = x
  <2>. SUFFICES ASSUME NEW x \in Occupied'
                PROVE  /\ next'[x] \in Occupied' /\ prev'[next'[x]] = x
                       /\ prev'[x] \in Occupied' /\ next'[prev'[x]] = x
    OBVIOUS
  <2>1. next'[x] \in Occupied' /\ prev'[next'[x]] = x
    <3>1. CASE x = a
      BY <3>1, <1>1, <1>2
    <3>2. CASE x # a
      BY <3>2, <1>1, <1>2
    <3>. QED BY <3>1, <3>2
  <2>2. prev'[x] \in Occupied' /\ next'[prev'[x]] = x
    <3>1. CASE x = b
      BY <3>1, <1>1, <1>2
    <3>2. CASE x # b
      BY <3>2, <1>1, <1>2
    <3>. QED BY <3>1, <3>2
  <2>. QED BY <2>1, <2>2
<1>4. Linked'
  BY <1>3 DEF Linked, Occupied
<1>5. ASSUME NEW S \in SUBSET Occupied', S # {}, \A x \in S : next'[x] \in S
      PROVE  S = Occupied'
  <2>1. CASE a \in S
    <3>. DEFINE T == S \cup {c}
    <3>1. \A x \in T : next[x] \in T
      <4>. SUFFICES ASSUME NEW x \in T PROVE next[x] \in T
        OBVIOUS
      <4>1. CASE x = c
        BY <4>1, <2>1, <1>2, <1>5
      <4>2. CASE x # c /\ x = a
        BY <4>2, <1>1
      <4>3. CASE x # c /\ x # a
        BY <4>3, <1>2, <1>5
      <4>. QED BY <4>1, <4>2, <4>3
    <3>2. T \in SUBSET Occupied /\ T # {}
      OBVIOUS
    <3>3. T = Occupied
      BY <3>1, <3>2 DEF ListOK, OneCycle
    <3>. QED BY <3>3
  <2>2. CASE a \notin S
    <3>1. \A x \in S : next[x] \in S
      BY <2>2, <1>2, <1>5
    <3>2. S = Occupied
      BY <3>1, <1>5 DEF ListOK, OneCycle
    <3>. QED BY <3>2
  <2>. QED BY <2>1, <2>2
<1>6. OneCycle'
  BY <1>5 DEF OneCycle
<1>. QED BY <1>4, <1>6 DEF ListOK

-----------------------------------------------------------------------------
(* What the initial list needs: induction on a bounded interval, as a least *)
(* counterexample. *)
LEMMA NatWellFounded ==
    IsWellFoundedOn({ss \in Nat \X Nat : ss[1] < ss[2]}, Nat)
  BY NatLessThanWellFounded DEF OpToRel

LEMMA LeastElement ==
    ASSUME NEW T \in SUBSET Nat, T # {}
    PROVE  \E m \in T : \A k \in T : m <= k
<1>1. PICK m \in T : \A k \in T :
                    ~(<<k, m>> \in {ss \in Nat \X Nat : ss[1] < ss[2]})
  BY NatWellFounded, WFMin
<1>2. ASSUME NEW k \in T PROVE m <= k
  <2>1. /\ <<k, m>> \in Nat \X Nat
        /\ <<k, m>>[1] = k /\ <<k, m>>[2] = m
    OBVIOUS
  <2>2. ~(k < m)
    BY <1>1, <2>1
  <2>. QED BY <2>2
<1>. QED BY <1>2

\* A nonempty set of numbers below n that contains n - 1 with 0 and k - 1 with
\* k > 0 is all of 0 .. n - 1.
LEMMA CountdownCycle ==
    ASSUME NEW n \in Nat, NEW S \in SUBSET (0 .. n - 1), S # {},
           0 \in S => n - 1 \in S,
           \A k \in S : k > 0 => k - 1 \in S
    PROVE  S = 0 .. n - 1
<1>1. PICK m \in S : \A k \in S : m <= k
  BY LeastElement
<1>2. 0 \in S
  BY <1>1
<1>. DEFINE Gap == {i \in Nat : i < n /\ n - 1 - i \notin S}
<1>3. ASSUME Gap # {} PROVE FALSE
  <2>1. PICK i \in Gap : \A k \in Gap : i <= k
    BY <1>3, LeastElement
  <2>2. i > 0
    BY <1>2, <2>1
  <2>3. i - 1 \notin Gap
    BY <2>1, <2>2
  <2>4. n - 1 - (i - 1) \in S
    BY <2>1, <2>2, <2>3
  <2>. QED BY <2>1, <2>2, <2>4
<1>4. ASSUME NEW k \in 0 .. n - 1 PROVE k \in S
  <2>1. n - 1 - k \notin Gap
    BY <1>3
  <2>2. n - 1 - k \in Nat /\ n - 1 - k < n /\ n - 1 - (n - 1 - k) = k
    OBVIOUS
  <2>. QED BY <2>1, <2>2
<1>. QED BY <1>4

-----------------------------------------------------------------------------
(* What is always so. *)

\* The boot frame is in entry 0, out of reach of every revocation.
BootFrame ==
    /\ cap[0].type = "pmp" /\ cap[0].addr = InitCaps[0].addr
    /\ \A c \in Cte :
          cap[c].type = "memory" => ~mem_pmp_revocable(cap[c], InitCaps[0])

TableInv == TableType /\ ListOK /\ BootFrame /\ ResourceType

IInv == TableInv /\ ProcType

-----------------------------------------------------------------------------
(* Entries and capabilities. *)

LEMMA CteBounds ==
    /\ \A c \in Cte : cte_pid(c) \in Pid
    /\ \A p \in Pid : CteOf(p) \subseteq Cte
    /\ 0 \in Cte
    /\ 0 \in Pid
<1>. USE CapTypesAssumption
<1>1. ProcCnt * CapCnt \in Nat /\ ProcCnt * CapCnt > 0
  OBVIOUS
<1>2. ASSUME NEW c \in Cte PROVE cte_pid(c) \in Pid
  <2>1. c \in Nat /\ c < ProcCnt * CapCnt
    BY <1>1 DEF Cte
  <2>2. /\ c \div CapCnt \in Nat
        /\ CapCnt * (c \div CapCnt) <= c
    BY <2>1
  <2>3. c \div CapCnt < ProcCnt
    BY <2>1, <2>2
  <2>. QED BY <2>2, <2>3 DEF cte_pid, Pid
<1>3. ASSUME NEW p \in Pid PROVE CteOf(p) \subseteq Cte
  <2>1. ASSUME NEW i \in 0 .. CapCnt - 1 PROVE p * CapCnt + i \in Cte
    <3>1. p \in Nat /\ p + 1 <= ProcCnt
      BY DEF Pid
    <3>2. (p + 1) * CapCnt <= ProcCnt * CapCnt
      BY <3>1
    <3>3. p * CapCnt + i < (p + 1) * CapCnt /\ p * CapCnt + i \in Nat
      BY <3>1
    <3>4. \A x, y, z \in Int : x < y /\ y <= z => x <= z - 1
      OBVIOUS
    <3>5. p * CapCnt + i <= ProcCnt * CapCnt - 1
      <4>1. (p + 1) * CapCnt \in Int
        BY <3>1
      <4>. QED BY <4>1, <3>2, <3>3, <3>4, <1>1
    <3>. QED BY <3>3, <3>5, <1>1 DEF Cte
  <2>. QED BY <2>1 DEF CteOf, ctable_get
<1>4. 0 \in Cte /\ 0 \in Pid
  BY <1>1 DEF Cte, Pid
<1>. QED BY <1>2, <1>3, <1>4

LEMMA CapCases ==
    ASSUME NEW c \in Cap
    PROVE  /\ c.type \in SliceType \cup {"none", "pmp", "socket"}
           /\ c.type = "none" <=> c = NoCap
           /\ c.type = "time" => c \in TimeCap
           /\ c.type = "memory" => c \in MemCap
           /\ c.type = "pmp" => c \in PmpCap
           /\ c.type = "monitor" => c \in MonCap
           /\ c.type = "channel" => c \in ChanCap
           /\ c.type = "socket" => c \in SockCap
  BY DEF Cap, NoCap, TimeCap, MemCap, PmpCap, MonCap, ChanCap, SockCap, SliceType

\* The capabilities the operations write have the type of the one they replace.
LEMMA UnloadedType ==
    ASSUME NEW c \in Cap
    PROVE  /\ Unloaded(c) \in Cap /\ Unloaded(c).type = c.type
           /\ c.type = "memory" => Unloaded(c) = c
<1>1. CASE c.type = "pmp"
  <2>1. Unloaded(c) = [c EXCEPT !.used = FALSE, !.slot = 0]
    BY <1>1 DEF Unloaded
  <2>2. 0 \in PmpSlot
    BY CapTypesAssumption DEF PmpSlot
  <2>3. Unloaded(c) \in PmpCap
    BY <1>1, <2>1, <2>2, CapCases DEF PmpCap
  <2>. QED BY <1>1, <2>3 DEF Cap, PmpCap
<1>2. CASE c.type # "pmp"
  BY <1>2 DEF Unloaded
<1>. QED BY <1>1, <1>2

\* The slices c and d are the same up to their marks.
SameSlice(c, d) ==
    /\ c.type \in SliceType /\ d.type = c.type
    /\ d.bgn = c.bgn /\ d.end = c.end
    /\ c.type = "time" => d.hart = c.hart
    /\ c.type = "memory" => d.tag = c.tag

LEMMA MarkType ==
    ASSUME NEW c \in Cap, c.type \in SliceType, NEW m \in Nat
    PROVE  LET d == [c EXCEPT !.mrk = m]
           IN  d \in Cap /\ SameSlice(c, d) /\ d.mrk = m
<1>1. CASE c.type = "time"
  BY <1>1, CapCases DEF TimeCap, Cap, SameSlice
<1>2. CASE c.type = "memory"
  BY <1>2, CapCases DEF MemCap, Cap, SameSlice
<1>3. CASE c.type = "monitor"
  BY <1>3, CapCases DEF MonCap, Cap, SameSlice
<1>4. CASE c.type = "channel"
  BY <1>4, CapCases DEF ChanCap, Cap, SameSlice
<1>. QED BY <1>1, <1>2, <1>3, <1>4 DEF SliceType

\* What deriving takes from the source is at most units up to a mark.
LEMMA DerivedType ==
    ASSUME NEW s \in Cap, NEW n \in Cap, cap_is_valid(n), cap_is_derivable(s, n)
    PROVE  /\ Derived(s, n) \in Cap /\ Derived(s, n).type = s.type
           /\ s.type \in SliceType => SameSlice(s, Derived(s, n))
           /\ n.type \in SliceType => Derived(s, n).mrk = n.end
           /\ n.type = "pmp" => s.type = "memory" /\ Derived(s, n).mrk = s.mrk
           /\ n.type = "socket" /\ n.tag = 0
                => s.type = "channel" /\ Derived(s, n).mrk = n.chan + 1
           /\ n.type = "socket" /\ n.tag # 0
                => s.type = "socket" /\ Derived(s, n) = s
<1>1. CASE n.type \in SliceType
  <2>1. s.type = n.type
    BY <1>1 DEF cap_is_derivable, cap_time_derivable, cap_mem_derivable,
               cap_mon_derivable, cap_chan_derivable, cap_sock_derivable, SliceType
  <2>2. n.end \in Nat
    BY <1>1, CapCases DEF SliceType, TimeCap, MemCap, MonCap, ChanCap
  <2>3. Derived(s, n) = [s EXCEPT !.mrk = n.end]
    BY <1>1 DEF Derived, SliceType
  <2>. QED BY <1>1, <2>1, <2>2, <2>3, MarkType DEF SliceType, SameSlice
<1>2. CASE n.type = "pmp"
  <2>1. s.type = "memory"
    BY <1>2 DEF cap_is_derivable, cap_time_derivable, cap_mem_derivable,
               cap_mon_derivable, cap_chan_derivable, cap_sock_derivable
  <2>2. Derived(s, n) = [s EXCEPT !.lck = TRUE]
    BY <1>2 DEF Derived, SliceType
  <2>. QED BY <1>2, <2>1, <2>2, CapCases DEF MemCap, Cap, SameSlice, SliceType
<1>3. CASE n.type = "socket" /\ n.tag = 0
  <2>1. s.type = "channel"
    BY <1>3 DEF cap_is_derivable, cap_time_derivable, cap_mem_derivable,
               cap_mon_derivable, cap_chan_derivable, cap_sock_derivable
  <2>2. n.chan + 1 \in Nat
    BY <1>3, CapCases DEF SockCap
  <2>3. Derived(s, n) = [s EXCEPT !.mrk = n.chan + 1]
    BY <1>3 DEF Derived, SliceType
  <2>. QED BY <1>3, <2>1, <2>2, <2>3, MarkType DEF SliceType, SameSlice
<1>4. CASE n.type = "socket" /\ n.tag # 0
  <2>1. s.type = "socket"
    BY <1>4 DEF cap_is_derivable, cap_time_derivable, cap_mem_derivable,
               cap_mon_derivable, cap_chan_derivable, cap_sock_derivable
  <2>2. Derived(s, n) = s
    BY <1>4 DEF Derived, SliceType
  <2>. QED BY <1>4, <2>1, <2>2 DEF SliceType
<1>. QED BY <1>1, <1>2, <1>3, <1>4, CapCases DEF cap_is_valid

LEMMA ResetCapType ==
    ASSUME NEW c \in Cap
    PROVE  /\ ResetCap(c) \in Cap /\ ResetCap(c).type = c.type
           /\ c.type \in SliceType
                => SameSlice(c, ResetCap(c)) /\ ResetCap(c).mrk = c.bgn
           /\ c.type \notin SliceType => ResetCap(c) = c
<1>1. CASE c.type = "memory"
  <2>1. ResetCap(c) = [c EXCEPT !.mrk = c.bgn, !.lck = FALSE]
    BY <1>1 DEF ResetCap
  <2>. QED BY <1>1, <2>1, CapCases DEF MemCap, Cap, SameSlice, SliceType
<1>2. CASE c.type \in SliceType \ {"memory"}
  <2>1. ResetCap(c) = [c EXCEPT !.mrk = c.bgn]
    BY <1>2 DEF ResetCap
  <2>2. c.bgn \in Nat
    BY <1>2, CapCases DEF SliceType, TimeCap, MonCap, ChanCap
  <2>. QED BY <1>2, <2>1, <2>2, MarkType DEF SameSlice
<1>3. CASE c.type \notin SliceType
  BY <1>3 DEF ResetCap, SliceType
<1>. QED BY <1>1, <1>2, <1>3

-----------------------------------------------------------------------------
(* The resources keep their types. *)

LEMMA SchedUpdateType ==
    ASSUME ResourceType, NEW p \in Pid, NEW end \in Int, NEW h,
           NEW from, NEW to
    PROVE  sched_update(p, end, h, from, to)
             \in [Hart -> [Slot -> [pid : Pid, length : Nat]]]
<1>1. \A i \in Slot : (end - i) % LengthRange \in Nat
  BY CapTypesAssumption, LengthRangeAssumption DEF Slot
<1>. QED BY ZenonT(30), <1>1 DEF sched_update, ResourceType

LEMMA SchedDeleteType ==
    ASSUME ResourceType, NEW h, NEW from, NEW to
    PROVE  sched_delete(h, from, to)
             \in [Hart -> [Slot -> [pid : Pid, length : Nat]]]
<1>1. NoSlot \in [pid : Pid, length : Nat]
  BY CteBounds DEF NoSlot
<1>. QED BY <1>1 DEF sched_delete, ResourceType

LEMMA PmpType ==
    ASSUME ResourceType, NEW p \in Pid, NEW s, NEW c \in PmpCap
    PROVE  LET T == [Pid -> [PmpSlot ->
                        [on : BOOLEAN, rwx : SUBSET Perm, addr : Nat]]]
           IN  /\ proc_pmp_load(p, s, c.rwx, c.addr) \in T
               /\ proc_pmp_unload(p, s) \in T
<1>. DEFINE R == [on : BOOLEAN, rwx : SUBSET Perm, addr : Nat]
<1>1. NoPmp \in R /\ [on |-> TRUE, rwx |-> c.rwx, addr |-> c.addr] \in R
  BY DEF NoPmp, PmpCap
<1>. QED BY <1>1 DEF proc_pmp_load, proc_pmp_unload, ResourceType

LEMMA SockClearType ==
    ASSUME ResourceType, NEW c, NEW p
    PROVE  cap_sock_clear(c, p)
             \in [Chan -> [server : Pid \cup {Null}, client : Pid \cup {Null},
                          capBuf : Cte \cup {Null}]]
  BY DEF cap_sock_clear, ResourceType, NoChannel, Null

-----------------------------------------------------------------------------
(* The operations keep TableInv. *)

LEMMA TwoUpdates ==
    ASSUME NEW S, NEW T, NEW f \in [S -> T],
           NEW a \in S, NEW u \in T, NEW b \in S, NEW v \in T, a # b,
           NEW g, g = [f EXCEPT ![a] = u, ![b] = v]
    PROVE  /\ g \in [S -> T] /\ g[a] = u /\ g[b] = v
           /\ \A x \in S \ {a, b} : g[x] = f[x]
  OBVIOUS

\* The boot frame stays out of reach when every memory capability is an old or
\* a permitted one, up to its mark, lock and permissions.
LEMMA BootFrameKept ==
    ASSUME TableType, BootFrame,
           cap'[0].type = "pmp", cap'[0].addr = cap[0].addr,
           \A c \in Cte : cap'[c].type = "memory" =>
               \/ cap'[c] \in NewCaps
               \/ \E d \in Cte : /\ cap[d].type = "memory"
                                /\ cap[d].tag = cap'[c].tag
                                /\ cap[d].bgn = cap'[c].bgn
    PROVE  BootFrame'
<1>1. ASSUME NEW c \in Cte, cap'[c].type = "memory"
      PROVE  ~mem_pmp_revocable(cap'[c], InitCaps[0])
  <2>1. CASE cap'[c] \in NewCaps
    BY <1>1, <2>1, BootFrameAssumption
  <2>2. CASE \E d \in Cte : /\ cap[d].type = "memory"
                            /\ cap[d].tag = cap'[c].tag
                            /\ cap[d].bgn = cap'[c].bgn
    BY <2>2 DEF BootFrame, mem_pmp_revocable
  <2>. QED BY <1>1, <2>1, <2>2
<1>. QED BY <1>1 DEF BootFrame

\* In a list that contains the boot frame no other entry is its own successor.
LEMMA NotAlone ==
    ASSUME TableInv, NEW c \in Occupied, c # 0
    PROVE  /\ next[c] # c
           /\ 0 \in Occupied
           /\ next[c] \in Occupied /\ prev[c] \in Occupied
<1>1. 0 \in Occupied
  BY CteBounds DEF TableInv, BootFrame, Occupied, cte_is_empty
<1>2. ASSUME next[c] = c PROVE FALSE
  <2>1. {c} \in SUBSET Occupied /\ {c} # {} /\ \A x \in {c} : next[x] \in {c}
    BY <1>2
  <2>2. {c} = Occupied
    BY <2>1 DEF TableInv, ListOK, OneCycle
  <2>. QED BY <2>2, <1>1
<1>. QED BY <1>1, <1>2 DEF TableInv, TableType, ListOK, Linked, Occupied

LEMMA MoveStep ==
    ASSUME TableInv, NEW src \in Cte, NEW dst \in Cte, src # 0,
           cap_move(src, dst)
    PROVE  TableInv'
<1>. USE DEF TableInv
<1>1. /\ src \in Occupied /\ cte_is_empty(dst) /\ src # dst
      /\ LinkMove(src, dst)
  BY DEF cap_move, CanMove, Occupied
<1>2. PICK moved \in Cap :
          /\ cap' = [cap EXCEPT ![dst] = moved, ![src] = NoCap]
          /\ moved.type = cap[src].type
          /\ moved.type = "memory" => moved = cap[src]
  BY UnloadedType DEF cap_move, TableType
<1>3. /\ cap' \in [Cte -> Cap]
      /\ cap'[dst] = moved /\ cap'[src] = NoCap
      /\ \A c \in Cte \ {src, dst} : cap'[c] = cap[c]
  BY <1>1, <1>2 DEF TableType, Cap
<1>4. TableType'
  BY <1>1, <1>3 DEF TableType, LinkMove
<1>5. Occupied' = (Occupied \ {src}) \cup {dst}
  BY <1>1, <1>2, <1>3 DEF Occupied, cte_is_empty, NoCap
<1>6. ListOK'
  BY <1>1, <1>5, NotAlone, LinkMoveKeepsList DEF TableType, LinkType
<1>7. BootFrame'
  <2>1. dst # 0
    BY <1>1 DEF BootFrame, cte_is_empty
  <2>2. cap'[0] = cap[0]
    BY <1>3, <2>1, CteBounds
  <2>3. ASSUME NEW c \in Cte, cap'[c].type = "memory"
        PROVE  \E d \in Cte : /\ cap[d].type = "memory"
                             /\ cap[d].tag = cap'[c].tag
                             /\ cap[d].bgn = cap'[c].bgn
    <3>1. CASE c = dst
      BY <3>1, <2>3, <1>2, <1>3
    <3>2. CASE c = src
      BY <3>2, <2>3, <1>3 DEF NoCap
    <3>3. CASE c \notin {src, dst}
      BY <3>3, <2>3, <1>3
    <3>. QED BY <3>1, <3>2, <3>3
  <2>. QED BY <2>2, <2>3, BootFrameKept DEF BootFrame
<1>8. ResourceType'
  <2>1. CASE UNCHANGED resourceVars
    BY <2>1 DEF resourceVars, ResourceType
  <2>2. CASE ipc_move_hook(src, dst)
    <3>1. /\ cte_pid(src) \in Pid /\ cte_pid(dst) \in Pid /\ cap[src] \in Cap
      BY CteBounds DEF TableType
    <3>2. cap[src].type = "time" => cap[src].end \in Int
      BY <3>1, CapCases DEF TimeCap
    <3>3. cap[src].type = "pmp" => cap[src] \in PmpCap
      BY <3>1, CapCases
    <3>4. slots' \in [Hart -> [Slot -> [pid : Pid, length : Nat]]]
      BY <2>2, <3>1, <3>2, SchedUpdateType DEF ipc_move_hook, ResourceType
    <3>5. pmp' \in [Pid -> [PmpSlot ->
                       [on : BOOLEAN, rwx : SUBSET Perm, addr : Nat]]]
      BY <2>2, <3>1, <3>3, PmpType DEF ipc_move_hook, ResourceType
    <3>6. channels' \in [Chan -> [server : Pid \cup {Null},
                                 client : Pid \cup {Null},
                                 capBuf : Cte \cup {Null}]]
      BY <2>2, SockClearType DEF ipc_move_hook, ResourceType
    <3>. QED BY <3>4, <3>5, <3>6 DEF ResourceType
  <2>. QED BY <2>1, <2>2 DEF cap_move
<1>. QED BY <1>4, <1>6, <1>7, <1>8

\* An entry leaves the list and at most the mark and the lock of another change.
LEMMA RemoveStep ==
    ASSUME TableInv, NEW c \in Occupied, c # 0,
           LinkDelete(c),
           cap' \in [Cte -> Cap], cap'[c] = NoCap,
           \A d \in Cte \ {c} :
               /\ cap'[d].type = cap[d].type
               /\ cap[d].type = "memory"
                    => cap'[d].tag = cap[d].tag /\ cap'[d].bgn = cap[d].bgn
               /\ cap[d].type = "pmp" => cap'[d] = cap[d],
           ResourceType'
    PROVE  TableInv'
<1>. USE DEF TableInv
<1>1. Occupied' = Occupied \ {c}
  BY DEF Occupied, cte_is_empty, NoCap
<1>2. ListOK'
  BY <1>1, LinkDeleteKeepsList DEF TableType, LinkType
<1>3. TableType'
  BY NotAlone DEF TableType, LinkDelete, Occupied
<1>4. BootFrame'
  <2>1. cap'[0] = cap[0]
    BY CteBounds DEF BootFrame
  <2>2. \A d \in Cte : cap'[d].type = "memory" => d # c
    BY DEF NoCap
  <2>. QED BY <2>1, <2>2, BootFrameKept DEF BootFrame
<1>. QED BY <1>2, <1>3, <1>4

LEMMA DeleteStep ==
    ASSUME TableInv, NEW c \in Cte, c # 0, cap_delete(c)
    PROVE  TableInv'
<1>. USE DEF TableInv
<1>1. /\ c \in Occupied /\ cte_pid(c) \in Pid /\ cap[c] \in Cap
      /\ LinkDelete(c) /\ delete_hook(c)
  BY CteBounds DEF cap_delete, Occupied, TableType
<1>2. /\ cap' \in [Cte -> Cap] /\ cap'[c] = NoCap
      /\ \A d \in Cte \ {c} : cap'[d] = cap[d]
  BY DEF cap_delete, TableType, Cap
<1>3. ResourceType'
  <2>1. cap[c].type = "pmp" => cap[c] \in PmpCap
    BY <1>1, CapCases
  <2>2. slots' \in [Hart -> [Slot -> [pid : Pid, length : Nat]]]
    BY <1>1, SchedDeleteType DEF delete_hook, ResourceType
  <2>3. pmp' \in [Pid -> [PmpSlot ->
                     [on : BOOLEAN, rwx : SUBSET Perm, addr : Nat]]]
    BY <1>1, <2>1, PmpType DEF delete_hook, ResourceType
  <2>4. channels' \in [Chan -> [server : Pid \cup {Null},
                               client : Pid \cup {Null},
                               capBuf : Cte \cup {Null}]]
    BY <1>1, SockClearType DEF delete_hook, ResourceType
  <2>. QED BY <2>2, <2>3, <2>4 DEF ResourceType
<1>. QED BY <1>1, <1>2, <1>3, RemoveStep

\* q is the slice p with the mark of the slice c of the same resource.
Lowered(p, c, q) ==
    /\ SameSlice(p, q) /\ c.type = p.type /\ q.mrk = c.mrk
    /\ p.type = "time" => c.hart = p.hart
    /\ p.type = "memory" => c.tag = p.tag
    /\ p.type # "channel" => c.end > p.bgn

LEMMA LoweredType ==
    ASSUME NEW p \in Cap, NEW c \in Cap, p.type \in SliceType, c.type = p.type,
           p.type = "time" => c.hart = p.hart,
           p.type = "memory" => c.tag = p.tag,
           p.type # "channel" => c.end > p.bgn
    PROVE  LET q == [p EXCEPT !.mrk = c.mrk]
           IN  q \in Cap /\ Lowered(p, c, q)
<1>1. c.mrk \in Nat
  BY CapCases DEF SliceType, TimeCap, MemCap, MonCap, ChanCap
<1>. QED BY <1>1, MarkType DEF Lowered

(***************************************************************************)
(* A step of a revocation deletes the successor of parent, another entry   *)
(* than parent and than the boot frame, and leaves parent as it is or gives*)
(* it the mark of the deleted slice.                                       *)
(***************************************************************************)
LEMMA RevokeEffect ==
    ASSUME TableInv, NEW parent \in Cte, cap_revoke(parent)
    PROVE  LET child == next[parent]
           IN  /\ parent \in Occupied /\ parent # 0
               /\ child \in Occupied /\ child # 0 /\ child # parent
               /\ LinkDelete(child)
               /\ cap' \in [Cte -> Cap]
               /\ cap'[child] = NoCap
               /\ \A d \in Cte \ {child, parent} : cap'[d] = cap[d]
               /\ cap[parent].type # "pmp"
               /\ \/ cap'[parent] = cap[parent]
                  \/ Lowered(cap[parent], cap[child], cap'[parent])
<1>. USE DEF TableInv
<1>. DEFINE child == next[parent]
            p == cap[parent]
            c == cap[child]
<1>1. parent # 0 /\ parent \in Occupied
  BY DEF cap_revoke, cap_revoke_time, cap_revoke_memory, cap_revoke_monitor,
         cap_revoke_channel, cap_revoke_socket, BootFrame, Occupied, cte_is_empty
<1>2. child \in Occupied /\ child \in Cte /\ child # parent
  BY <1>1, NotAlone DEF Occupied
<1>3. /\ p \in Cap /\ c \in Cap
      /\ cte_pid(parent) \in Pid /\ cte_pid(child) \in Pid
  BY <1>2, CteBounds DEF TableType
<1>4. child # 0
  <2>1. CASE p.type = "memory"
    <3>1. ~mem_pmp_revocable(p, InitCaps[0])
      BY <2>1 DEF BootFrame
    <3>2. cap_revoke_memory(parent, child)
      BY <2>1 DEF cap_revoke, cap_revoke_time, cap_revoke_memory,
         cap_revoke_monitor, cap_revoke_channel, cap_revoke_socket
    <3>3. c.type = "memory" \/ mem_pmp_revocable(p, c)
      BY <3>2 DEF cap_revoke_memory, mem_revocable
    <3>4. ~mem_pmp_revocable(p, cap[0])
      BY <3>1, InitCapsAssumption DEF mem_pmp_revocable, BootFrame, PmpCap
    <3>. QED BY <3>3, <3>4 DEF BootFrame
  <2>2. CASE p.type # "memory"
    BY <2>2 DEF cap_revoke, cap_revoke_time, cap_revoke_memory, cap_revoke_monitor,
             cap_revoke_channel, cap_revoke_socket, time_revocable, mon_revocable,
             chan_revocable, chan_sock_revocable, sock_revocable, BootFrame
  <2>. QED BY <2>1, <2>2
<1>5. LinkDelete(child)
  BY DEF cap_revoke, cap_revoke_time, cap_revoke_memory, cap_revoke_monitor,
         cap_revoke_channel, cap_revoke_socket
<1>. DEFINE Q(r) == /\ cap' = [cap EXCEPT ![child] = NoCap, ![parent] = r]
                    /\ r = p \/ Lowered(p, c, r)
                    /\ p.type # "pmp"
<1>6. \E r \in Cap : Q(r)
  <2>1. ASSUME cap' = [cap EXCEPT ![child] = NoCap], p.type # "pmp" PROVE Q(p)
    BY <1>2, <2>1 DEF TableType
  <2>2. ASSUME p.type \in SliceType, c.type = p.type,
               p.type = "time" => c.hart = p.hart,
               p.type = "memory" => c.tag = p.tag,
               p.type # "channel" => c.end > p.bgn,
               cap' = [cap EXCEPT ![child] = NoCap,
                                  ![parent] = [p EXCEPT !.mrk = c.mrk]]
        PROVE  \E r \in Cap : Q(r)
    <3>. DEFINE q == [p EXCEPT !.mrk = c.mrk]
    <3>1. q \in Cap /\ Lowered(p, c, q)
      <4>. HIDE DEF p, c
      <4>. QED BY <1>3, <2>2, LoweredType
    <3>2. Q(q)
      <4>1. cap' = [cap EXCEPT ![child] = NoCap, ![parent] = q]
        BY <2>2
      <4>2. p.type # "pmp"
        BY <2>2 DEF SliceType
      <4>. HIDE DEF q, p, c
      <4>. QED BY <3>1, <4>1, <4>2
    <3>. QED BY <3>1, <3>2
  <2>3. CASE cap_revoke_time(parent, child)
    BY <2>2, <2>3 DEF cap_revoke_time, time_revocable, SliceType
  <2>4. CASE cap_revoke_memory(parent, child)
    <3>1. CASE /\ mem_revocable(p, c)
               /\ cap' = [cap EXCEPT ![child] = NoCap,
                            ![parent] = [p EXCEPT !.mrk = c.mrk, !.lck = c.lck]]
      <4>. DEFINE q == [p EXCEPT !.mrk = c.mrk, !.lck = c.lck]
      <4>1. p \in MemCap /\ c \in MemCap /\ p.type = "memory"
        BY <2>4, <3>1, <1>3, CapCases DEF cap_revoke_memory, mem_revocable
      <4>2. q \in MemCap /\ q.tag = p.tag /\ q.bgn = p.bgn /\ q.end = p.end
            /\ q.mrk = c.mrk
        BY <4>1 DEF MemCap
      <4>3. q \in Cap /\ q.type = "memory" /\ c.type = "memory"
        BY <4>1, <4>2 DEF MemCap, Cap
      <4>4. c.end > p.bgn /\ c.tag = p.tag
        BY <3>1 DEF mem_revocable
      <4>5. Lowered(p, c, q)
        <5>. HIDE DEF q, p, c
        <5>. QED BY <4>1, <4>2, <4>3, <4>4 DEF Lowered, SameSlice, SliceType
      <4>6. cap' = [cap EXCEPT ![child] = NoCap, ![parent] = q]
        BY <3>1
      <4>. HIDE DEF q, p, c
      <4>. QED BY <4>1, <4>3, <4>5, <4>6
    <3>2. CASE cap' = [cap EXCEPT ![child] = NoCap]
      BY <2>1, <2>4, <3>2, <1>3 DEF cap_revoke_memory
    <3>. QED BY <2>4, <3>1, <3>2 DEF cap_revoke_memory
  <2>5. CASE cap_revoke_monitor(parent, child)
    BY <2>2, <2>5 DEF cap_revoke_monitor, mon_revocable, SliceType
  <2>6. CASE cap_revoke_channel(parent, child)
    BY <2>1, <2>2, <2>6, <1>3
       DEF cap_revoke_channel, chan_revocable, SliceType
  <2>7. CASE cap_revoke_socket(parent, child)
    BY <2>1, <2>7, <1>3 DEF cap_revoke_socket
  <2>. QED BY <2>3, <2>4, <2>5, <2>6, <2>7 DEF cap_revoke
<1>7. PICK q \in Cap : Q(q)
  BY <1>6
<1>8. /\ cap' \in [Cte -> Cap] /\ cap'[child] = NoCap /\ cap'[parent] = q
      /\ \A d \in Cte \ {child, parent} : cap'[d] = cap[d]
  <2>1. NoCap \in Cap
    BY DEF Cap
  <2>2. cap \in [Cte -> Cap]
    BY DEF TableType
  <2>3. cap' = [cap EXCEPT ![child] = NoCap, ![parent] = q]
    BY <1>7
  <2>. HIDE DEF TableInv, p, c, child
  <2>. QED BY <2>1, <2>2, <2>3, <1>2, TwoUpdates
<1>9. p.type # "pmp" /\ (cap'[parent] = p \/ Lowered(p, c, cap'[parent]))
  BY <1>7, <1>8
<1>. HIDE DEF TableInv
<1>. QED BY <1>1, <1>2, <1>4, <1>5, <1>8, <1>9

LEMMA RevokeKeeps ==
    ASSUME TableInv, NEW parent \in Cte, cap_revoke(parent)
    PROVE  TableInv'
<1>. DEFINE child == next[parent]
            p == cap[parent]
            c == cap[child]
<1>1. /\ parent \in Occupied /\ parent # 0
      /\ child \in Occupied /\ child # 0 /\ child # parent
      /\ LinkDelete(child)
      /\ cap' \in [Cte -> Cap]
      /\ cap'[child] = NoCap
      /\ \A d \in Cte \ {child, parent} : cap'[d] = cap[d]
      /\ p.type # "pmp"
      /\ cap'[parent] = p \/ Lowered(p, c, cap'[parent])
  BY RevokeEffect
<1>2. /\ p \in Cap /\ c \in Cap
      /\ cte_pid(parent) \in Pid /\ cte_pid(child) \in Pid
  BY <1>1, CteBounds DEF TableInv, TableType, Occupied
<1>3. ResourceType'
  <2>1. p.type = "time" => p.end \in Int
    BY <1>2, CapCases DEF TimeCap
  <2>2. c.type = "pmp" => c \in PmpCap
    BY <1>2, CapCases
  <2>3. slots' \in [Hart -> [Slot -> [pid : Pid, length : Nat]]]
    BY <1>2, <2>1, SchedUpdateType
       DEF TableInv, cap_revoke, cap_revoke_time, cap_revoke_memory,
           cap_revoke_monitor, cap_revoke_channel, cap_revoke_socket, ResourceType, resourceVars
  <2>4. pmp' \in [Pid -> [PmpSlot ->
                     [on : BOOLEAN, rwx : SUBSET Perm, addr : Nat]]]
    BY <1>2, <2>2, PmpType
       DEF TableInv, cap_revoke, cap_revoke_time, cap_revoke_memory,
           cap_revoke_monitor, cap_revoke_channel, cap_revoke_socket, ResourceType, resourceVars,
           mem_pmp_revocable
  <2>5. channels' \in [Chan -> [server : Pid \cup {Null},
                               client : Pid \cup {Null},
                               capBuf : Cte \cup {Null}]]
    BY SockClearType
       DEF TableInv, cap_revoke, cap_revoke_time, cap_revoke_memory,
           cap_revoke_monitor, cap_revoke_channel, cap_revoke_socket, ResourceType, resourceVars
  <2>. QED BY <2>3, <2>4, <2>5 DEF ResourceType
<1>4. \A d \in Cte \ {child} :
          /\ cap'[d].type = cap[d].type
          /\ cap[d].type = "memory"
               => cap'[d].tag = cap[d].tag /\ cap'[d].bgn = cap[d].bgn
          /\ cap[d].type = "pmp" => cap'[d] = cap[d]
  <2>1. ASSUME NEW d \in Cte \ {child, parent} PROVE cap'[d] = cap[d]
    BY <1>1
  <2>2. \/ cap'[parent] = p
        \/ /\ cap'[parent].type = p.type
           /\ p.type = "memory"
                => cap'[parent].tag = p.tag /\ cap'[parent].bgn = p.bgn
    BY <1>1 DEF Lowered, SameSlice
  <2>. QED BY <2>1, <2>2, <1>1
<1>. QED BY <1>1, <1>3, <1>4, RemoveStep

\* An operation that only changes fields of capabilities keeps the list.
LEMMA SameListStep ==
    ASSUME TableInv, UNCHANGED <<next, prev>>,
           cap' \in [Cte -> Cap],
           \A d \in Cte :
               /\ cap'[d].type = cap[d].type
               /\ cap[d].type = "memory"
                    => cap'[d].tag = cap[d].tag /\ cap'[d].bgn = cap[d].bgn
               /\ cap[d].type = "pmp" => cap'[d].addr = cap[d].addr,
           ResourceType'
    PROVE  TableInv'
<1>. USE DEF TableInv
<1>1. Occupied' = Occupied
  BY DEF Occupied, cte_is_empty
<1>2. ListOK'
  <2>1. \A d \in Occupied : next[d] \in Occupied /\ prev[d] \in Occupied
    BY DEF ListOK, Linked, TableType, Occupied
  <2>2. \A d \in Occupied' : /\ next'[d] \in Occupied' /\ prev'[next'[d]] = d
                             /\ prev'[d] \in Occupied' /\ next'[prev'[d]] = d
    BY <1>1, <2>1 DEF ListOK, Linked
  <2>3. Linked'
    BY <2>2 DEF Linked, Occupied
  <2>4. OneCycle'
    BY <1>1 DEF ListOK, OneCycle
  <2>. QED BY <2>3, <2>4 DEF ListOK
<1>3. TableType'
  BY DEF TableType
<1>4. BootFrame'
  BY CteBounds, BootFrameKept DEF BootFrame
<1>. QED BY <1>2, <1>3, <1>4

LEMMA ResetStep ==
    ASSUME TableInv, NEW c \in Cte, cap_reset(c)
    PROVE  TableInv'
<1>1. cap[c] \in Cap /\ cte_pid(c) \in Pid /\ cap \in [Cte -> Cap]
  BY CteBounds DEF TableInv, TableType
<1>2. /\ cap' \in [Cte -> Cap] /\ cap'[c] = ResetCap(cap[c])
      /\ \A d \in Cte \ {c} : cap'[d] = cap[d]
  BY <1>1, ResetCapType DEF cap_reset
<1>3. cap[c].type = "pmp" => ResetCap(cap[c]) = cap[c]
  BY DEF ResetCap, SliceType
<1>4. ResourceType'
  <2>1. cap[c].type = "time" => cap[c].mrk \in Int
    BY <1>1, CapCases DEF TimeCap
  <2>2. cap[c].type = "time" => cap[c].end \in Int
    BY <1>1, CapCases DEF TimeCap
  <2>. QED BY <1>1, <2>1, <2>2, SchedUpdateType
           DEF cap_reset, TableInv, ResourceType
<1>5. \A d \in Cte :
          /\ cap'[d].type = cap[d].type
          /\ cap[d].type = "memory"
               => cap'[d].tag = cap[d].tag /\ cap'[d].bgn = cap[d].bgn
          /\ cap[d].type = "pmp" => cap'[d].addr = cap[d].addr
  BY <1>1, <1>2, <1>3, ResetCapType DEF SameSlice, SliceType
<1>. QED BY <1>2, <1>4, <1>5, SameListStep DEF cap_reset

\* Loading and unloading change the fields used and slot of one PMP capability.
LEMMA PmpStep ==
    ASSUME TableInv, NEW c \in Cte, NEW s \in PmpSlot,
           cap_pmp_load(c, s) \/ cap_pmp_unload(c)
    PROVE  TableInv'
<1>1. /\ cap[c] \in PmpCap /\ cte_pid(c) \in Pid /\ cap \in [Cte -> Cap]
      /\ UNCHANGED <<next, prev, slots, channels>>
  BY CteBounds, CapCases DEF TableInv, TableType, cap_pmp_load, cap_pmp_unload
<1>2. PICK t \in PmpSlot, u \in BOOLEAN :
          cap' = [cap EXCEPT ![c] = [cap[c] EXCEPT !.slot = t, !.used = u]]
  <2>1. 0 \in PmpSlot
    BY CapTypesAssumption DEF PmpSlot
  <2>. QED BY <2>1, <1>1 DEF cap_pmp_load, cap_pmp_unload
<1>. DEFINE d == [cap[c] EXCEPT !.slot = t, !.used = u]
<1>3. d \in PmpCap /\ d \in Cap /\ d.type = "pmp" /\ d.addr = cap[c].addr
  BY <1>1 DEF PmpCap, Cap
<1>4. /\ cap' \in [Cte -> Cap] /\ cap'[c] = d
      /\ \A e \in Cte \ {c} : cap'[e] = cap[e]
  BY <1>1, <1>2, <1>3
<1>5. ResourceType'
  <2>1. pmp' \in [Pid -> [PmpSlot ->
                     [on : BOOLEAN, rwx : SUBSET Perm, addr : Nat]]]
    <3>1. CASE cap_pmp_load(c, s)
      BY <3>1, <1>1, PmpType DEF cap_pmp_load, TableInv
    <3>2. CASE cap_pmp_unload(c)
      BY <3>2, <1>1, PmpType DEF cap_pmp_unload, TableInv
    <3>. QED BY <3>1, <3>2
  <2>. QED BY <1>1, <2>1 DEF ResourceType, TableInv
<1>6. cap[c].type = "pmp"
  BY <1>1 DEF PmpCap
<1>. HIDE DEF d
<1>. QED BY <1>1, <1>3, <1>4, <1>5, <1>6, SameListStep

\* The effect of a derivation on the table.
LEMMA DeriveEffect ==
    ASSUME TableInv, NEW src \in Cte, NEW dst \in Cte, NEW n \in NewCaps,
           cap_derive(src, dst, n)
    PROVE  /\ src \in Occupied /\ dst \notin Occupied
           /\ n \in Cap /\ cap_is_valid(n) /\ cap_is_derivable(cap[src], n)
           /\ cap[src] \in Cap
           /\ LinkInsert(dst, src) /\ Occupied' = Occupied \cup {dst}
           /\ cap'[dst] = n /\ cap'[src] = Derived(cap[src], n)
           /\ \A d \in Cte \ {src, dst} : cap'[d] = cap[d]
<1>. DEFINE r == Derived(cap[src], n)
<1>1. /\ src \in Occupied /\ dst \notin Occupied /\ src # dst
      /\ n \in Cap /\ cap_is_valid(n) /\ cap[src] \in Cap
      /\ cap_is_derivable(cap[src], n) /\ LinkInsert(dst, src)
  BY NewCapsAssumption DEF cap_derive, Occupied, TableInv, TableType, cte_is_empty
<1>2. r \in Cap /\ r.type = cap[src].type
  BY <1>1, DerivedType
<1>3. n.type # "none"
  BY <1>1 DEF cap_is_valid, SliceType
<1>4. /\ cap'[dst] = n /\ cap'[src] = r
      /\ \A d \in Cte \ {src, dst} : cap'[d] = cap[d]
  <2>1. cap \in [Cte -> Cap] /\ cap' = [cap EXCEPT ![dst] = n, ![src] = r]
    BY <1>1 DEF TableInv, TableType, cap_derive
  <2>. HIDE DEF r
  <2>. QED BY <2>1, <1>1, <1>2, TwoUpdates
<1>. HIDE DEF r
<1>5. Occupied' = Occupied \cup {dst}
  BY <1>1, <1>2, <1>3, <1>4 DEF Occupied, cte_is_empty
<1>. QED BY <1>1, <1>4, <1>5 DEF r

LEMMA DeriveStep ==
    ASSUME TableInv, NEW src \in Cte, NEW dst \in Cte, NEW n \in NewCaps,
           cap_derive(src, dst, n)
    PROVE  TableInv'
<1>. USE DEF TableInv
<1>. DEFINE r == Derived(cap[src], n)
<1>1. /\ src \in Occupied /\ dst \notin Occupied
      /\ n \in Cap /\ cap_is_valid(n) /\ cap_is_derivable(cap[src], n)
      /\ cap[src] \in Cap
      /\ LinkInsert(dst, src) /\ Occupied' = Occupied \cup {dst}
      /\ cap'[dst] = n /\ cap'[src] = r
      /\ \A d \in Cte \ {src, dst} : cap'[d] = cap[d]
  BY DeriveEffect
<1>2. /\ r \in Cap /\ r.type = cap[src].type
      /\ r.type = "memory" => r.tag = cap[src].tag /\ r.bgn = cap[src].bgn
  BY <1>1, DerivedType DEF SameSlice, SliceType
<1>. HIDE DEF r
<1>3. cap[src].type # "pmp" /\ cte_is_empty(dst)
  BY <1>1 DEF cap_is_derivable, Occupied
<1>4. cap' \in [Cte -> Cap]
  BY <1>1, <1>2 DEF TableType, cap_derive
<1>5. ListOK'
  BY <1>1, <1>3, LinkInsertKeepsList DEF TableType, LinkType
<1>6. TableType'
  BY <1>1, <1>4 DEF TableType, LinkInsert, Occupied
<1>7. BootFrame'
  <2>1. src # 0 /\ dst # 0
    BY <1>1, <1>3 DEF BootFrame, cte_is_empty
  <2>2. cap'[0] = cap[0]
    BY <1>1, <2>1, CteBounds
  <2>3. ASSUME NEW c \in Cte, cap'[c].type = "memory"
        PROVE  \/ cap'[c] \in NewCaps
               \/ \E d \in Cte : /\ cap[d].type = "memory"
                                /\ cap[d].tag = cap'[c].tag
                                /\ cap[d].bgn = cap'[c].bgn
    <3>1. CASE c = src
      BY <3>1, <2>3, <1>1, <1>2
    <3>2. CASE c = dst
      BY <3>2, <1>1
    <3>3. CASE c \notin {src, dst}
      BY <3>3, <2>3, <1>1
    <3>. QED BY <3>1, <3>2, <3>3
  <2>. QED BY <2>2, <2>3, BootFrameKept DEF BootFrame
<1>8. ResourceType'
  <2>1. n.type = "time" => n.end \in Int
    BY <1>1, CapCases DEF TimeCap
  <2>. QED BY <1>1, <2>1, CteBounds, SchedUpdateType DEF cap_derive, ResourceType
<1>. QED BY <1>5, <1>6, <1>7, <1>8

-----------------------------------------------------------------------------
(* The system. *)

\* Entry 0 after ctable_init: the boot frame, loaded.
BootCap == [InitCaps[0] EXCEPT !.used = TRUE, !.slot = 0]

LEMMA BootCapType ==
    /\ BootCap \in PmpCap /\ BootCap.type = "pmp"
    /\ BootCap.addr = InitCaps[0].addr /\ BootCap.rwx = InitCaps[0].rwx
    /\ BootCap.used /\ BootCap.slot = 0
<1>1. 0 \in PmpSlot /\ InitCaps[0] \in PmpCap
  BY CapTypesAssumption, InitCapsAssumption DEF PmpSlot
<1>. QED BY <1>1 DEF PmpCap, BootCap

\* The table after ctable_init with n entries of INIT_CAPS.
BootTable(n) ==
    /\ InitCaps \in [0 .. n - 1 -> Cap \ {NoCap}]
    /\ 0 .. n - 1 \subseteq Cte
    /\ TableType
    /\ Occupied = 0 .. n - 1
    /\ cap[0] = BootCap
    /\ \A c \in 1 .. n - 1 : cap[c] = InitCaps[c]
    /\ \A c \in 0 .. n - 1 : /\ next[c] = IF c = 0 THEN n - 1 ELSE c - 1
                             /\ prev[c] = IF c < n - 1 THEN c + 1 ELSE 0

LEMMA BootLoads ==
    ASSUME Init
    PROVE  \E n \in Nat \ {0} : BootTable(n)
<1>. USE CapTypesAssumption
<1>1. PICK n \in 1 .. CapCnt : InitCaps \in [0 .. n - 1 -> Cap \ {NoCap}]
  BY InitCapsAssumption
<1>2. /\ InitCnt = n /\ n \in Nat /\ n > 0
      /\ \A i \in 0 .. n - 1 : i \in Cte
  <2>1. n <= ProcCnt * CapCnt
    <3>1. CapCnt * 1 <= CapCnt * ProcCnt
      OBVIOUS
    <3>. QED BY <3>1
  <2>2. Cardinality(0 .. n - 1) = n
    <3>1. 0 \in Int /\ n - 1 \in Int /\ ~(0 > n - 1)
      OBVIOUS
    <3>. QED BY <3>1, FS_Interval
  <2>. QED BY <2>1, <2>2, <1>1 DEF InitCnt, Cte
<1>3. 0 \in Cte
  BY CteBounds
<1>4. BootCap \in PmpCap /\ BootCap.type = "pmp"
  BY BootCapType
<1>5. \A c \in Cte :
         /\ cap[c] \in Cap
         /\ c = 0 => cap[c] = BootCap
         /\ c # 0 /\ c < n => cap[c] = InitCaps[c] /\ cap[c].type # "none"
         /\ c >= n => cap[c] = NoCap
  <2>1. \A i \in 0 .. n - 1 : InitCaps[i] \in Cap /\ InitCaps[i] # NoCap
    BY <1>1
  <2>2. ASSUME NEW c \in Cte
        PROVE  cap[c] = IF c = 0 THEN BootCap
                        ELSE IF c < n THEN InitCaps[c] ELSE NoCap
    BY <1>2 DEF Init, ctable_init, BootCap
  <2>3. ASSUME NEW c \in Cte, c # 0, c < n PROVE c \in 0 .. n - 1
    BY <2>3, <1>2 DEF Cte
  <2>4. BootCap \in Cap /\ NoCap \in Cap
    BY <1>4 DEF Cap
  <2>. QED BY <2>1, <2>2, <2>3, <2>4, <1>2, CapCases DEF Cte
<1>6. Occupied = 0 .. n - 1
  <2>1. ASSUME NEW c \in Cte PROVE ~cte_is_empty(c) <=> c < n
    BY <1>2, <1>4, <1>5 DEF cte_is_empty, NoCap, Cte
  <2>. QED BY <2>1, <1>2 DEF Occupied, Cte
<1>7. \A c \in 0 .. n - 1 : /\ next[c] = IF c = 0 THEN n - 1 ELSE c - 1
                            /\ prev[c] = IF c < n - 1 THEN c + 1 ELSE 0
  BY <1>2 DEF Init, ctable_init
<1>8. TableType
  <2>1. \A c \in Cte : (IF c = 0 THEN n - 1 ELSE IF c < n THEN c - 1 ELSE 0) \in Cte
    BY <1>2, <1>3 DEF Cte
  <2>2. \A c \in Cte : (IF c < n - 1 THEN c + 1 ELSE 0) \in Cte
    BY <1>2, <1>3 DEF Cte
  <2>3. cap \in [Cte -> Cap]
    <3>1. cap = [c \in Cte |-> cap[c]]
      BY DEF Init, ctable_init
    <3>. QED BY <3>1, <1>5
  <2>. QED BY <1>2, <2>1, <2>2, <2>3 DEF TableType, Init, ctable_init
<1>9. /\ InitCaps \in [0 .. n - 1 -> Cap \ {NoCap}]
      /\ 0 .. n - 1 \subseteq Cte
      /\ cap[0] = BootCap
      /\ \A c \in 1 .. n - 1 : cap[c] = InitCaps[c]
  <2>1. ASSUME NEW c \in 1 .. n - 1 PROVE c \in Cte /\ c # 0 /\ c < n
    BY <1>2
  <2>. QED BY <2>1, <1>1, <1>2, <1>3, <1>5
<1>10. BootTable(n)
  BY <1>6, <1>7, <1>8, <1>9 DEF BootTable
<1>. QED BY <1>2, <1>10

LEMMA InitTable == Init => TableInv
<1>. SUFFICES ASSUME Init PROVE TableInv
  OBVIOUS
<1>. USE CapTypesAssumption
<1>1. PICK n \in Nat \ {0} : BootTable(n)
  BY BootLoads
<1>2. 0 \in Cte
  BY CteBounds
<1>3. Linked
  <2>1. \A c \in 0 .. n - 1 : /\ next[c] \in 0 .. n - 1 /\ prev[next[c]] = c
                              /\ prev[c] \in 0 .. n - 1 /\ next[prev[c]] = c
    BY <1>1 DEF BootTable
  <2>2. Occupied = 0 .. n - 1
    BY <1>1 DEF BootTable
  <2>. QED BY <2>1, <2>2 DEF Linked, Occupied
<1>4. OneCycle
  <2>1. ASSUME NEW S \in SUBSET Occupied, S # {}, \A c \in S : next[c] \in S
        PROVE  S = Occupied
    <3>1. 0 \in S => n - 1 \in S
      BY <2>1, <1>1 DEF BootTable
    <3>2. \A k \in S : k > 0 => k - 1 \in S
      BY <2>1, <1>1 DEF BootTable
    <3>3. Occupied = 0 .. n - 1
      BY <1>1 DEF BootTable
    <3>. QED BY <2>1, <3>1, <3>2, <3>3, <1>1, CountdownCycle
  <2>. QED BY <2>1 DEF OneCycle
<1>5. BootFrame
  <2>1. ASSUME NEW c \in Cte, cap[c].type = "memory"
        PROVE  ~mem_pmp_revocable(cap[c], InitCaps[0])
    <3>1. c \in Occupied /\ c # 0
      BY <2>1, <1>1, BootCapType DEF Occupied, cte_is_empty, BootTable
    <3>2. c \in DOMAIN InitCaps /\ cap[c] = InitCaps[c]
      BY <3>1, <1>1 DEF BootTable
    <3>. QED BY <2>1, <3>2, BootFrameAssumption
  <2>. QED BY <2>1, <1>1, BootCapType DEF BootFrame, BootTable
<1>6. ResourceType
  <2>1. slots \in [Hart -> [Slot -> [pid : Pid, length : Nat]]]
    <3>1. \A i \in Slot : (SlotCnt - i) % LengthRange \in Nat
      BY LengthRangeAssumption DEF Slot
    <3>. QED BY <3>1, CteBounds DEF Init, sched_init
  <2>2. pmp \in [Pid -> [PmpSlot ->
                     [on : BOOLEAN, rwx : SUBSET Perm, addr : Nat]]]
    <3>. DEFINE R == [on : BOOLEAN, rwx : SUBSET Perm, addr : Nat]
    <3>1. [on |-> TRUE, rwx |-> InitCaps[0].rwx, addr |-> InitCaps[0].addr] \in R
      BY InitCapsAssumption DEF PmpCap
    <3>2. NoPmp \in R
      BY DEF NoPmp
    <3>. HIDE DEF R
    <3>3. pmp \in [Pid -> [PmpSlot -> R]]
      BY <3>1, <3>2 DEF Init, proc_init
    <3>. QED BY <3>3 DEF R
  <2>3. channels \in [Chan -> [server : Pid \cup {Null},
                              client : Pid \cup {Null},
                              capBuf : Cte \cup {Null}]]
    BY DEF Init, NoChannel
  <2>. QED BY <2>1, <2>2, <2>3 DEF ResourceType
<1>. QED BY <1>1, <1>3, <1>4, <1>5, <1>6 DEF TableInv, ListOK, BootTable

LEMMA InitInv == Init => IInv
<1>1. Init => ProcType
  BY CteBounds DEF Init, proc_init, ProcType, Ready, Suspended, Idle, Flag
<1>. QED BY <1>1, InitTable DEF IInv

\* The arguments of a process's own calls are entries of the table.
LEMMA OwnEntries ==
    ASSUME NEW p \in Pid
    PROVE  CteOf(p) \subseteq Cte /\ OwnCaps(p) \subseteq Cte
  BY CteBounds DEF OwnCaps

LEMMA SameTable ==
    ASSUME TableInv, UNCHANGED <<tableVars, resourceVars>>
    PROVE  TableInv'
<1>1. /\ UNCHANGED <<next, prev>> /\ cap' = cap
      /\ UNCHANGED <<slots, pmp, channels>>
  BY DEF tableVars, resourceVars
<1>2. ResourceType'
  BY <1>1 DEF TableInv, ResourceType
<1>. QED BY <1>1, <1>2, SameListStep DEF TableInv, TableType

LEMMA CallTypeKept ==
    ASSUME ProcType, UNCHANGED procVars PROVE ProcType'
  BY DEF ProcType, procVars

LEMMA CapCallStep ==
    ASSUME IInv, NEW p \in Pid, CapCall(p)
    PROVE  IInv'
<1>. USE DEF IInv
<1>1. ASSUME NEW c \in OwnCaps(p), NEW d \in CteOf(p), sys_cap_move(p, c, d)
      PROVE  IInv'
  BY <1>1, OwnEntries, NewCapsAssumption, MoveStep, CallTypeKept
     DEF sys_cap_move
<1>2. ASSUME NEW c \in OwnCaps(p), sys_cap_delete(p, c)
      PROVE  IInv'
  BY <1>2, OwnEntries, NewCapsAssumption, DeleteStep, CallTypeKept
     DEF sys_cap_delete
<1>3. ASSUME NEW c \in OwnCaps(p), NEW d \in CteOf(p), NEW n \in NewCaps,
             sys_cap_derive(p, c, d, n)
      PROVE  IInv'
  BY <1>3, OwnEntries, DeriveStep, CallTypeKept DEF sys_cap_derive
<1>4. ASSUME NEW c \in OwnCaps(p), sys_cap_revoke(p, c)
      PROVE  IInv'
  BY <1>4, OwnEntries, SameTable DEF sys_cap_revoke, ProcType
<1>5. ASSUME NEW c \in OwnCaps(p), NEW s \in PmpSlot, sys_pmp_load(p, c, s)
      PROVE  IInv'
  BY <1>5, OwnEntries, PmpStep, CallTypeKept DEF sys_pmp_load
<1>6. ASSUME NEW c \in OwnCaps(p), sys_pmp_unload(p, c)
      PROVE  IInv'
  <2>1. 0 \in PmpSlot
    BY CapTypesAssumption DEF PmpSlot
  <2>. QED BY <2>1, <1>6, OwnEntries, PmpStep, CallTypeKept DEF sys_pmp_unload
<1>. QED BY <1>1, <1>2, <1>3, <1>4, <1>5, <1>6 DEF CapCall

LEMMA MonCallStep ==
    ASSUME IInv, NEW p \in Pid, MonCall(p)
    PROVE  IInv'
<1>. USE DEF IInv
<1>1. PICK m \in OwnCaps(p) :
          \/ \E q \in Pid : \/ sys_mon_suspend(p, m, q)
                           \/ sys_mon_resume(p, m, q)
                           \/ sys_mon_yield(p, m, q)
          \/ \E c \in Occupied, d \in Cte \ Occupied : sys_mon_cap_move(p, m, c, d)
          \/ \E c \in Occupied, s \in PmpSlot : sys_mon_pmp_load(p, m, c, s)
          \/ \E c \in Occupied : sys_mon_pmp_unload(p, m, c)
  BY DEF MonCall
<1>2. ASSUME NEW q \in Pid, sys_mon_suspend(p, m, q) PROVE IInv'
  <2>1. ProcType'
    <3>1. /\ state[q] \in [flags : SUBSET Flag, chan : Nat]
          /\ call' = call /\ Suspended \in [flags : SUBSET Flag, chan : Nat]
      BY <1>2 DEF sys_mon_suspend, ProcType, Suspended, Flag
    <3>2. state[q].flags \cup {"suspended"} \in SUBSET Flag
      BY <3>1 DEF Flag
    <3>. QED BY <1>2, <3>1, <3>2 DEF sys_mon_suspend, proc_suspend, ProcType
  <2>. QED BY <2>1, <1>2, SameTable DEF sys_mon_suspend
<1>3. ASSUME NEW q \in Pid, sys_mon_resume(p, m, q) PROVE IInv'
  <2>1. ProcType'
    BY <1>3 DEF sys_mon_resume, ProcType
  <2>. QED BY <2>1, <1>3, SameTable DEF sys_mon_resume
<1>4. ASSUME NEW q \in Pid, sys_mon_yield(p, m, q) PROVE IInv'
  <2>1. ProcType'
    BY ZenonT(30), <1>4 DEF sys_mon_yield, ProcType, Busy, Flag
  <2>. QED BY <2>1, <1>4, SameTable DEF sys_mon_yield
<1>5. ASSUME NEW c \in Occupied, NEW d \in Cte, sys_mon_cap_move(p, m, c, d)
      PROVE  IInv'
  BY <1>5, NewCapsAssumption, MoveStep, CallTypeKept
     DEF sys_mon_cap_move, Occupied
<1>6. ASSUME NEW c \in Occupied, NEW s \in PmpSlot, sys_mon_pmp_load(p, m, c, s)
      PROVE  IInv'
  BY <1>6, PmpStep, CallTypeKept DEF sys_mon_pmp_load, Occupied
<1>7. ASSUME NEW c \in Occupied, sys_mon_pmp_unload(p, m, c)
      PROVE  IInv'
  <2>1. 0 \in PmpSlot
    BY CapTypesAssumption DEF PmpSlot
  <2>. QED BY <2>1, <1>7, PmpStep, CallTypeKept DEF sys_mon_pmp_unload, Occupied
<1>. QED BY <1>1, <1>2, <1>3, <1>4, <1>5, <1>6, <1>7

LEMMA RevokingStep ==
    ASSUME IInv, NEW p \in Pid, Revoking(p)
    PROVE  IInv'
<1>. USE DEF IInv
<1>1. call[p].cte \in Cte
  BY DEF ProcType
<1>2. CASE RevokeStep(p)
  BY <1>1, <1>2, RevokeKeeps, CallTypeKept DEF RevokeStep
<1>3. CASE RevokeReturn(p)
  BY <1>3, SameTable, CteBounds DEF RevokeReturn, ProcType, Idle
<1>4. CASE RevokeToReset(p)
  BY <1>4, SameTable DEF RevokeToReset, ProcType
<1>5. CASE RevokeReset(p)
  <2>1. ProcType'
    <3>1. call' = [call EXCEPT ![p] = Idle] /\ state' = state
      BY <1>5 DEF RevokeReset
    <3>. QED BY <3>1, CteBounds DEF ProcType, Idle
  <2>. QED BY <2>1, <1>1, <1>5, ResetStep, SameTable DEF RevokeReset
<1>. QED BY <1>2, <1>3, <1>4, <1>5 DEF Revoking

LEMMA NextInv == IInv /\ [Next]_vars => IInv'
<1>. SUFFICES ASSUME IInv, [Next]_vars PROVE IInv'
  OBVIOUS
<1>1. ASSUME NEW p \in Pid, Dispatch(p) PROVE IInv'
  BY <1>1, SameTable DEF Dispatch, IInv, ProcType, Busy, Flag
<1>2. ASSUME NEW p \in Pid, Preempt(p) PROVE IInv'
  BY <1>2, SameTable, CteBounds DEF Preempt, IInv, ProcType, Idle
<1>3. CASE UNCHANGED vars
  BY <1>3, SameTable, CallTypeKept
     DEF vars, tableVars, resourceVars, procVars, IInv
<1>. QED BY <1>1, <1>2, <1>3, CapCallStep, MonCallStep, RevokingStep DEF Next

(***************************************************************************)
(* Whatever the processes ask for, the links of the capability table never *)
(* leave the table, every capability is one the kernel knows, and slots and*)
(* PMP registers belong to processes (cap_ops.c, cap_table.c, syscall.c).  *)
(***************************************************************************)
THEOREM CapTypeCorrect == Spec => []TypeOK
<1>1. IInv => TypeOK
  BY DEF IInv, TableInv, TypeOK
<1>. QED BY <1>1, InitInv, NextInv, PTL DEF Spec

(***************************************************************************)
(* The capability table stays one circular doubly linked list of exactly   *)
(* the occupied entries, through all the insertions, moves and deletions of*)
(* all the system calls and revocations that run interleaved (cap_table.c).*)
(***************************************************************************)
THEOREM CapListCorrect == Spec => []ListOK
<1>1. IInv => ListOK
  BY DEF IInv, TableInv
<1>. QED BY <1>1, InitInv, NextInv, PTL DEF Spec

-----------------------------------------------------------------------------
(***************************************************************************)
(* The entry a revocation works on.  A process in the middle of one is     *)
(* acquired by its hart, and its entries are filled by nobody else: other  *)
(* processes' own calls reach their own entries, and a monitor only those  *)
(* of a process that is suspended and not running.                         *)
(***************************************************************************)
CallInv ==
    \A p \in Pid :
        /\ "blocked" \notin state[p].flags
        /\ call[p] # Idle
             => "busy" \in state[p].flags /\ call[p].cte \in CteOf(p)

LEMMA OwnerOf == \A p \in Pid : \A c \in CteOf(p) : c \in Cte /\ cte_pid(c) = p
<1>. SUFFICES ASSUME NEW p \in Pid, NEW i \in 0 .. CapCnt - 1
              PROVE  (p * CapCnt + i) \div CapCnt = p
  BY CteBounds DEF CteOf, ctable_get, cte_pid
<1>1. CapCnt \in Nat \ {0} /\ p \in Nat /\ i \in Nat /\ i < CapCnt
  BY CapTypesAssumption DEF Pid
<1>2. (p * CapCnt + i) \div CapCnt \in Nat
  BY <1>1
<1>. QED BY <1>1, <1>2

\* A slice in e stays the same slice up to its mark, or goes; nothing comes.
Stays(e) ==
    cap[e] = NoCap \/ cap[e].type \in SliceType =>
        \/ cap'[e] = NoCap
        \/ /\ cap[e] # NoCap /\ cap'[e].type = cap[e].type
           /\ cap'[e].bgn = cap[e].bgn /\ cap'[e].end = cap[e].end

LEMMA SameStays ==
    ASSUME NEW e, cap[e] \in Cap,
           cap'[e] = cap[e] \/ SameSlice(cap[e], cap'[e])
    PROVE  Stays(e)
  BY DEF Stays, SameSlice, SliceType, NoCap

LEMMA MoveStays ==
    ASSUME TableInv, NEW src \in Cte, NEW dst \in Cte, cap_move(src, dst),
           NEW e \in Cte, e # dst
    PROVE  Stays(e)
<1>1. /\ cap \in [Cte -> Cap]
      /\ e = src => cap'[e] = NoCap
      /\ e # src => cap'[e] = cap[e]
  BY DEF cap_move, TableInv, TableType
<1>2. e = src => Stays(e)
  BY <1>1 DEF Stays
<1>3. e # src => Stays(e)
  BY <1>1, SameStays
<1>. QED BY <1>2, <1>3

LEMMA DeleteStays ==
    ASSUME TableInv, NEW c \in Cte, cap_delete(c), NEW e \in Cte
    PROVE  Stays(e)
<1>1. /\ cap \in [Cte -> Cap]
      /\ e = c => cap'[e] = NoCap
      /\ e # c => cap'[e] = cap[e]
  BY DEF cap_delete, TableInv, TableType
<1>2. e = c => Stays(e)
  BY <1>1 DEF Stays
<1>3. e # c => Stays(e)
  BY <1>1, SameStays
<1>. QED BY <1>2, <1>3

LEMMA DeriveStays ==
    ASSUME TableInv, NEW src \in Cte, NEW dst \in Cte, NEW n \in NewCaps,
           cap_derive(src, dst, n), NEW e \in Cte, e # dst
    PROVE  Stays(e)
<1>1. /\ cap[e] \in Cap
      /\ e = src => cap'[e] = Derived(cap[e], n)
      /\ e # src => cap'[e] = cap[e]
      /\ e = src => cap_is_derivable(cap[e], n)
      /\ n \in Cap /\ cap_is_valid(n)
  BY DeriveEffect DEF TableInv, TableType
<1>2. CASE e = src /\ cap[e].type \in SliceType
  BY <1>1, <1>2, DerivedType, SameStays
<1>3. CASE e = src /\ cap[e].type \notin SliceType
  <2>1. cap[e] # NoCap
    BY <1>1, <1>3 DEF cap_is_derivable, NoCap
  <2>. QED BY <2>1, <1>3 DEF Stays
<1>4. CASE e # src
  BY <1>1, <1>4, SameStays
<1>. QED BY <1>2, <1>3, <1>4

LEMMA RevokeStays ==
    ASSUME TableInv, NEW parent \in Cte, cap_revoke(parent), NEW e \in Cte
    PROVE  Stays(e)
<1>1. CASE e = next[parent]
  <2>1. cap'[e] = NoCap
    BY <1>1, RevokeEffect
  <2>. QED BY <2>1 DEF Stays
<1>2. CASE e # next[parent]
  <2>1. /\ cap[e] \in Cap
        /\ cap'[e] = cap[e] \/ SameSlice(cap[e], cap'[e])
    BY <1>2, RevokeEffect DEF Lowered, TableInv, TableType
  <2>. QED BY <2>1, SameStays
<1>. QED BY <1>1, <1>2

LEMMA ResetStays ==
    ASSUME TableInv, NEW c \in Cte, cap_reset(c), NEW e \in Cte
    PROVE  Stays(e)
<1>1. /\ cap[e] \in Cap
      /\ e = c => cap'[e] = ResetCap(cap[e])
      /\ e # c => cap'[e] = cap[e]
  BY DEF cap_reset, TableInv, TableType
<1>2. cap'[e] = cap[e] \/ SameSlice(cap[e], cap'[e])
  BY <1>1, ResetCapType
<1>. QED BY <1>1, <1>2, SameStays

LEMMA PmpStays ==
    ASSUME TableInv, NEW c \in Cte, NEW s,
           cap_pmp_load(c, s) \/ cap_pmp_unload(c), NEW e \in Cte
    PROVE  Stays(e)
<1>1. /\ cap[e] \in Cap
      /\ e = c => cap[e].type = "pmp"
      /\ e # c => cap'[e] = cap[e]
  BY DEF cap_pmp_load, cap_pmp_unload, TableInv, TableType
<1>2. CASE e = c
  BY <1>1, <1>2 DEF Stays, SliceType, NoCap
<1>3. CASE e # c
  BY <1>1, <1>3, SameStays
<1>. QED BY <1>2, <1>3

LEMMA CallStep == IInv /\ CallInv /\ [Next]_vars => CallInv'
<1>. SUFFICES ASSUME IInv, CallInv, [Next]_vars PROVE CallInv'
  OBVIOUS
<1>. USE DEF CallInv
<1>1. /\ state \in [Pid -> [flags : SUBSET Flag, chan : Nat]]
      /\ call \in [Pid -> [op : {"idle", "revoke", "reset"}, cte : Cte]]
  BY DEF IInv, ProcType
<1>2. CASE UNCHANGED procVars
  BY <1>2 DEF procVars
<1>3. ASSUME NEW p \in Pid, Dispatch(p) PROVE CallInv'
  BY <1>1, <1>3 DEF Dispatch, Busy
<1>4. ASSUME NEW p \in Pid, Preempt(p) PROVE CallInv'
  <2>1. ASSUME NEW q \in Pid
        PROVE  /\ q # p => state'[q] = state[q] /\ call'[q] = call[q]
               /\ q = p => /\ state'[q].flags = state[q].flags \ {"busy"}
                           /\ call'[q] = Idle
    BY <1>1, <1>4 DEF Preempt
  <2>. QED BY <2>1
<1>5. ASSUME NEW p \in Pid, CapCall(p) PROVE CallInv'
  <2>1. ASSUME NEW c \in OwnCaps(p), sys_cap_revoke(p, c) PROVE CallInv'
    <3>1. ASSUME NEW q \in Pid
          PROVE  /\ state'[q] = state[q]
                 /\ q # p => call'[q] = call[q]
                 /\ q = p => call'[q].cte = c /\ "busy" \in state[q].flags
      BY <1>1, <2>1 DEF sys_cap_revoke, Running
    <3>. QED BY <3>1 DEF OwnCaps
  <2>. QED BY <2>1, <1>2, <1>5
       DEF CapCall, sys_cap_move, sys_cap_delete, sys_cap_derive, sys_pmp_load,
           sys_pmp_unload
<1>6. ASSUME NEW p \in Pid, MonCall(p) PROVE CallInv'
  <2>1. ASSUME NEW m, NEW q \in Pid, sys_mon_suspend(p, m, q) PROVE CallInv'
    <3>1. ASSUME NEW x \in Pid
          PROVE  /\ call'[x] = call[x]
                 /\ x # q => state'[x] = state[x]
                 /\ x = q => state'[x].flags = state[x].flags \cup {"suspended"}
      BY <1>1, <2>1 DEF sys_mon_suspend, proc_suspend
    <3>. QED BY <3>1
  <2>2. ASSUME NEW m, NEW q \in Pid, sys_mon_resume(p, m, q) PROVE CallInv'
    <3>1. ASSUME NEW x \in Pid
          PROVE  /\ call'[x] = call[x]
                 /\ x # q => state'[x] = state[x]
                 /\ x = q => state'[x].flags = state[x].flags \ {"suspended"}
      BY <1>1, <2>2 DEF sys_mon_resume
    <3>. QED BY <3>1
  <2>3. ASSUME NEW m, NEW q \in Pid, sys_mon_yield(p, m, q) PROVE CallInv'
    <3>1. ASSUME NEW x \in Pid
          PROVE  /\ call'[x] = call[x]
                 /\ x = p => /\ state'[x].flags \subseteq state[x].flags
                             /\ call[x] = Idle
                 /\ x = q /\ x # p => state'[x] = Busy /\ call[x] = Idle
                 /\ x \notin {p, q} => state'[x] = state[x]
      BY <1>1, <2>3 DEF sys_mon_yield, Running
    <3>. QED BY <3>1 DEF Busy
  <2>. QED BY <2>1, <2>2, <2>3, <1>2, <1>6
       DEF MonCall, sys_mon_cap_move, sys_mon_pmp_load, sys_mon_pmp_unload
<1>7. ASSUME NEW p \in Pid, Revoking(p) PROVE CallInv'
  <2>1. CASE RevokeStep(p)
    BY <1>2, <2>1 DEF RevokeStep
  <2>2. CASE RevokeReturn(p) \/ RevokeReset(p)
    BY <1>1, <2>2 DEF RevokeReturn, RevokeReset
  <2>3. CASE RevokeToReset(p)
    <3>1. ASSUME NEW q \in Pid
          PROVE  /\ state'[q] = state[q] /\ call'[q].cte = call[q].cte
                 /\ q # p => call'[q] = call[q]
                 /\ q = p => call[q].op = "revoke"
      BY <1>1, <2>3 DEF RevokeToReset, LoopEnds
    <3>2. call[p] # Idle
      BY <3>1 DEF Idle
    <3>. QED BY <3>1, <3>2
  <2>. QED BY <1>7, <2>1, <2>2, <2>3 DEF Revoking
<1>8. CASE UNCHANGED vars
  BY <1>2, <1>8 DEF vars, procVars
<1>. QED BY <1>3, <1>4, <1>5, <1>6, <1>7, <1>8 DEF Next

LEMMA TargetStays ==
    ASSUME IInv, CallInv, [Next]_vars, NEW p \in Pid, call[p] # Idle
    PROVE  Stays(call[p].cte)
<1>. SUFFICES ASSUME NEW e \in CteOf(p), e = call[p].cte PROVE Stays(e)
  BY DEF CallInv
<1>1. /\ e \in Cte /\ cte_pid(e) = p /\ "busy" \in state[p].flags
      /\ cap[e] \in Cap /\ TableInv
  BY OwnerOf DEF CallInv, IInv, TableInv, TableType
<1>2. CASE cap' = cap
  BY <1>1, <1>2, SameStays
<1>3. ASSUME NEW q \in Pid, CapCall(q) PROVE Stays(e)
  <2>1. ASSUME NEW c \in OwnCaps(q), NEW d \in CteOf(q), call[q] = Idle
        PROVE  c \in Cte /\ d \in Cte /\ e # d
    BY <2>1, <1>1, OwnEntries, OwnerOf
  <2>. QED BY <2>1, <1>1, <1>2, <1>3, OwnEntries,
              MoveStays, DeleteStays, DeriveStays, PmpStays
       DEF CapCall, sys_cap_move, sys_cap_delete, sys_cap_derive, sys_pmp_load,
           sys_pmp_unload, sys_cap_revoke, tableVars, Running
<1>4. ASSUME NEW q \in Pid, MonCall(q) PROVE Stays(e)
  <2>1. PICK m \in OwnCaps(q) :
            \/ \E x \in Pid : \/ sys_mon_suspend(q, m, x)
                             \/ sys_mon_resume(q, m, x)
                             \/ sys_mon_yield(q, m, x)
            \/ \E c \in Occupied, d \in Cte \ Occupied : sys_mon_cap_move(q, m, c, d)
            \/ \E c \in Occupied, s \in PmpSlot : sys_mon_pmp_load(q, m, c, s)
            \/ \E c \in Occupied : sys_mon_pmp_unload(q, m, c)
    BY <1>4 DEF MonCall
  <2>2. ASSUME NEW c \in Occupied, NEW d \in Cte, sys_mon_cap_move(q, m, c, d)
        PROVE  Stays(e)
    <3>1. q # p /\ cte_pid(m) = q
      BY <2>2, OwnerOf DEF sys_mon_cap_move, Running, OwnCaps
    <3>2. cte_pid(d) = p => state[p] = Suspended
      BY <2>2, <3>1
         DEF sys_mon_cap_move, check_monitor_move, check_monitor_suspended
    <3>3. e # d
      BY <1>1, <3>2 DEF Suspended
    <3>. QED BY <2>2, <3>3, <1>1, MoveStays DEF sys_mon_cap_move, Occupied
  <2>3. ASSUME NEW c \in Occupied, NEW s \in PmpSlot, sys_mon_pmp_load(q, m, c, s)
        PROVE  Stays(e)
    BY <2>3, <1>1, PmpStays DEF sys_mon_pmp_load, Occupied
  <2>4. ASSUME NEW c \in Occupied, sys_mon_pmp_unload(q, m, c) PROVE Stays(e)
    BY <2>4, <1>1, PmpStays DEF sys_mon_pmp_unload, Occupied
  <2>. QED BY <2>1, <2>2, <2>3, <2>4, <1>2
       DEF sys_mon_suspend, sys_mon_resume, sys_mon_yield, tableVars
<1>5. ASSUME NEW q \in Pid, Revoking(q) PROVE Stays(e)
  <2>1. call[q].cte \in Cte
    BY DEF IInv, ProcType
  <2>. QED BY <2>1, <1>1, <1>2, <1>5, RevokeStays, ResetStays
       DEF Revoking, RevokeStep, RevokeReturn, RevokeToReset, RevokeReset, tableVars
<1>6. CASE UNCHANGED vars
  BY <1>2, <1>6 DEF vars
<1>. QED BY <1>2, <1>3, <1>4, <1>5, <1>6 DEF Next, Dispatch, Preempt, tableVars

(***************************************************************************)
(* While a revocation goes on, with the kernel lock released between its   *)
(* steps, its entry holds the slice it was called for, with another mark at*)
(* most, until that slice is deleted, and nothing from then on: no other   *)
(* process puts a capability under a running system call (syscall.c,       *)
(* cap_monitor.c).                                                         *)
(***************************************************************************)
THEOREM TargetIsStable == Spec => RevokeTargetStable
<1>1. Init => CallInv
  BY DEF Init, proc_init, CallInv, Ready, Suspended
<1>2. IInv /\ CallInv /\ [Next]_vars =>
        [\A p \in Pid :
            LET c == cap[call[p].cte]
                d == cap'[call[p].cte]
            IN  (/\ call[p] # Idle /\ call'[p] = call[p]
                 /\ c = NoCap \/ c.type \in SliceType)
                  => \/ d = NoCap
                     \/ /\ c # NoCap /\ d.type = c.type
                        /\ d.bgn = c.bgn /\ d.end = c.end]_vars
  BY TargetStays DEF Stays
<1>. QED BY <1>1, <1>2, InitInv, NextInv, CallStep, PTL
         DEF Spec, RevokeTargetStable

\* Only these steps end the revocation of p.
LEMMA EndCases ==
    ASSUME IInv, [Next]_vars, NEW p \in Pid, call[p] # Idle, call'[p] = Idle
    PROVE  \/ Preempt(p)
           \/ RevokeReturn(p)
           \/ RevokeReset(p)
<1>1. call \in [Pid -> [op : {"idle", "revoke", "reset"}, cte : Cte]]
  BY DEF IInv, ProcType
<1>2. call' # call
  OBVIOUS
<1>3. ASSUME NEW q \in Pid, Dispatch(q) PROVE FALSE
  BY <1>2, <1>3 DEF Dispatch
<1>4. ASSUME NEW q \in Pid, Preempt(q) PROVE q = p
  BY <1>1, <1>4 DEF Preempt
<1>5. ASSUME NEW q \in Pid, CapCall(q) PROVE FALSE
  <2>1. ASSUME NEW c, sys_cap_revoke(q, c) PROVE FALSE
    BY <1>1, <2>1 DEF sys_cap_revoke, Running
  <2>. QED BY <2>1, <1>2, <1>5
       DEF CapCall, sys_cap_move, sys_cap_delete, sys_cap_derive, sys_pmp_load,
           sys_pmp_unload, procVars
<1>6. ASSUME NEW q \in Pid, MonCall(q) PROVE FALSE
  BY <1>2, <1>6
     DEF MonCall, sys_mon_suspend, sys_mon_resume, sys_mon_yield,
         sys_mon_cap_move, sys_mon_pmp_load, sys_mon_pmp_unload, procVars
<1>7. ASSUME NEW q \in Pid, Revoking(q)
      PROVE  RevokeReturn(p) \/ RevokeReset(p)
  <2>1. CASE RevokeStep(q)
    BY <1>2, <2>1 DEF RevokeStep, procVars
  <2>2. CASE RevokeToReset(q)
    <3>1. q = p /\ call[p].op = "revoke" /\ call'[p].op = "reset"
      BY <1>1, <2>2 DEF RevokeToReset, LoopEnds
    <3>. QED BY <3>1 DEF Idle
  <2>3. CASE RevokeReturn(q) \/ RevokeReset(q)
    <3>1. q = p
      BY <1>1, <2>3 DEF RevokeReturn, RevokeReset
    <3>. QED BY <2>3, <3>1
  <2>. QED BY <1>7, <2>1, <2>2, <2>3 DEF Revoking
<1>8. CASE UNCHANGED vars
  BY <1>2, <1>8 DEF vars
<1>. QED BY <1>3, <1>4, <1>5, <1>6, <1>7, <1>8 DEF Next

=============================================================================
