---------------------------- MODULE SchedProofs ----------------------------
(***************************************************************************)
(* Proofs about the scheduler's semaphore and slot table, for any harts,   *)
(* tickets, slots and updates: the semaphore lets in no more than it has   *)
(* tickets for, a reader's comparisons of the slot table stay true while   *)
(* it is inside, and so every step on one entry is a step, or part of one, *)
(* of SlotTable.                                                           *)
(***************************************************************************)
EXTENDS Sched, FiniteSetTheorems, WellFoundedInduction, TLAPS

-----------------------------------------------------------------------------
(* The semaphore, for every finite or infinite set of harts.  Capacity is  *)
(* not inductive.  The argument counts: the tickets held are pairwise      *)
(* disjoint intervals below the acquired counter, the tickets in           *)
(* released + 1 .. acquired are all held by harts still spinning, and      *)
(*      released + |Held| = Tickets + acquired.                            *)
(* So the harts inside hold at most Tickets of them.                       *)

\* A hart's tickets lie between 1 and the acquired counter.
TicketsInRange ==
    \A h \in Hart : phase[h] # "outside" =>
                        /\ want[h] <= ticket[h]
                        /\ ticket[h] <= acquired

\* A hart inside has seen all its tickets released.
InsideReleased ==
    \A h \in Hart : phase[h] = "inside" => ticket[h] <= released

Conservation ==
    /\ IsFiniteSet(Held)
    /\ released + Cardinality(Held) = Tickets + acquired

IInv ==
    /\ TypeOK
    /\ TicketsInRange
    /\ InsideReleased
    /\ TicketsUnique
    /\ Conservation

-----------------------------------------------------------------------------
(***************************************************************************)
(* The set of held tickets after a step that changes one hart's tickets.   *)
(***************************************************************************)
LEMMA HeldByOthers ==
    ASSUME NEW h \in Hart,
           \A g \in Hart \ {h} : Outstanding(g)' = Outstanding(g)
    PROVE  Held' = (UNION {Outstanding(g) : g \in Hart \ {h}}) \cup Outstanding(h)'
  BY DEF Held

LEMMA HeldSplit ==
    ASSUME NEW h \in Hart
    PROVE  Held = (UNION {Outstanding(g) : g \in Hart \ {h}}) \cup Outstanding(h)
  BY DEF Held

LEMMA IntervalCard ==
    ASSUME NEW a \in Nat, NEW n \in Nat
    PROVE  /\ IsFiniteSet(a + 1 .. a + n)
           /\ Cardinality(a + 1 .. a + n) = n
  BY FS_Interval

LEMMA DisjointUnionCard ==
    ASSUME NEW S, NEW T, IsFiniteSet(S), IsFiniteSet(T), S \cap T = {}
    PROVE  /\ IsFiniteSet(S \cup T)
           /\ Cardinality(S \cup T) = Cardinality(S) + Cardinality(T)
  <1>1. Cardinality(S) \in Nat /\ Cardinality(T) \in Nat
    BY FS_CardinalityType
  <1>2. Cardinality(S \cap T) = 0
    BY FS_EmptySet
  <1>3. /\ IsFiniteSet(S \cup T)
        /\ Cardinality(S \cup T)
             = Cardinality(S) + Cardinality(T) - Cardinality(S \cap T)
    BY FS_Union
  <1> QED
    BY <1>1, <1>2, <1>3

-----------------------------------------------------------------------------
LEMMA InitIInv == SemInit => IInv
  <1> SUFFICES ASSUME SemInit PROVE IInv
    OBVIOUS
  <1> USE TicketsAssumption DEF SemInit
  <1>1. TypeOK
    BY DEF TypeOK, Phase
  <1>2. \A h \in Hart : Outstanding(h) = {}
    BY DEF Outstanding
  <1>3. Held = {}
    BY <1>2 DEF Held
  <1>4. TicketsInRange /\ InsideReleased
    BY DEF TicketsInRange, InsideReleased
  <1>5. TicketsUnique
    <2>1. released + 1 .. acquired = {}
      OBVIOUS
    <2> QED BY <2>1, <1>2 DEF TicketsUnique
  <1>6. Conservation
    BY <1>3, FS_EmptySet DEF Conservation
  <1> QED
    BY <1>1, <1>4, <1>5, <1>6 DEF IInv

LEMMA AcquireIInv ==
    ASSUME IInv, NEW h \in Hart, NEW n \in 1..Tickets, Acquire(h, n)
    PROVE  IInv'
  <1> DEFINE New == acquired + 1 .. acquired + n
  <1> USE TicketsAssumption
  <1>0. TypeOK /\ TicketsInRange /\ InsideReleased /\ TicketsUnique /\ Conservation
    BY DEF IInv
  <1>1. TypeOK'
    BY <1>0 DEF TypeOK, Acquire, Phase
  <1>2. Outstanding(h) = {} /\ Outstanding(h)' = New
    BY <1>0, <1>1 DEF Outstanding, Acquire, TypeOK
  <1>3. \A g \in Hart \ {h} : Outstanding(g)' = Outstanding(g)
    BY <1>0 DEF Outstanding, Acquire, TypeOK
  <1>4. Held' = Held \cup New
    BY <1>2, <1>3, HeldByOthers, HeldSplit
  <1>5. \A g \in Hart : Outstanding(g) \subseteq 1..acquired
    BY <1>0 DEF Outstanding, TicketsInRange, TypeOK
  <1>6. Held \cap New = {}
    BY <1>0, <1>5 DEF Held, TypeOK
  <1>7. TicketsInRange'
    BY <1>0, <1>1 DEF TicketsInRange, Acquire, TypeOK
  <1>8. InsideReleased'
    BY <1>0 DEF InsideReleased, Acquire, TypeOK
  <1>9. TicketsUnique'
    <2>1. \A g \in Hart \ {h} : Outstanding(g) \cap New = {}
      BY <1>0, <1>5 DEF TypeOK
    <2>2. (\A g, k \in Hart : g # k => Outstanding(g) \cap Outstanding(k) = {})'
      <3> SUFFICES ASSUME NEW g \in Hart, NEW k \in Hart, g # k
                   PROVE  Outstanding(g)' \cap Outstanding(k)' = {}
        OBVIOUS
      <3>1. CASE g = h
        BY <3>1, <2>1, <1>2, <1>3
      <3>2. CASE k = h
        BY <3>2, <2>1, <1>2, <1>3
      <3>3. CASE g # h /\ k # h
        BY <3>3, <1>0, <1>3 DEF TicketsUnique
      <3> QED BY <3>1, <3>2, <3>3
    <2>3. released' + 1 .. acquired' \subseteq (released + 1 .. acquired) \cup New
      BY <1>0 DEF Acquire, TypeOK
    <2>4. released' + 1 .. acquired' \subseteq Held'
      BY <2>3, <1>0, <1>4 DEF TicketsUnique
    <2> QED BY <2>2, <2>4 DEF TicketsUnique
  <1>10. Conservation'
    <2>1. IsFiniteSet(New) /\ Cardinality(New) = n
      BY <1>0, IntervalCard DEF TypeOK
    <2>2. /\ IsFiniteSet(Held')
          /\ Cardinality(Held') = Cardinality(Held) + n
      BY <2>1, <1>0, <1>4, <1>6, DisjointUnionCard DEF Conservation
    <2>3. Cardinality(Held) \in Nat
      BY <1>0, FS_CardinalityType DEF Conservation
    <2>4. released' = released /\ acquired' = acquired + n
      BY DEF Acquire
    <2> QED BY <2>2, <2>3, <2>4, <1>0 DEF Conservation, TypeOK
  <1> QED
    BY <1>1, <1>7, <1>8, <1>9, <1>10 DEF IInv

LEMMA EnterIInv ==
    ASSUME IInv, NEW h \in Hart, Enter(h)
    PROVE  IInv'
  <1>0. TypeOK /\ TicketsInRange /\ InsideReleased /\ TicketsUnique /\ Conservation
    BY DEF IInv
  <1>1. TypeOK'
    BY <1>0 DEF TypeOK, Enter, Phase
  <1>2. \A g \in Hart : Outstanding(g)' = Outstanding(g)
    BY <1>0 DEF Outstanding, Enter, TypeOK
  <1>3. Held' = Held
    BY <1>2 DEF Held
  <1>4. TicketsInRange' /\ InsideReleased'
    BY <1>0 DEF TicketsInRange, InsideReleased, Enter, TypeOK
  <1>5. TicketsUnique'
    BY <1>0, <1>2, <1>3 DEF TicketsUnique, Enter
  <1>6. Conservation'
    BY <1>0, <1>3 DEF Conservation, Enter
  <1> QED
    BY <1>1, <1>4, <1>5, <1>6 DEF IInv

LEMMA ReleaseIInv ==
    ASSUME IInv, NEW h \in Hart, Release(h)
    PROVE  IInv'
  <1> DEFINE Back == Outstanding(h)
  <1> USE TicketsAssumption
  <1>0. TypeOK /\ TicketsInRange /\ InsideReleased /\ TicketsUnique /\ Conservation
    BY DEF IInv
  <1>1. TypeOK'
    BY <1>0 DEF TypeOK, Release, Phase
  <1>2. /\ Back = (ticket[h] - want[h]) + 1 .. (ticket[h] - want[h]) + want[h]
        /\ Outstanding(h)' = {}
        /\ ticket[h] - want[h] \in Nat
        /\ ticket[h] <= released
        /\ want[h] \in Nat
    BY <1>0 DEF Outstanding, Release, TypeOK, TicketsInRange, InsideReleased
  <1>3. \A g \in Hart \ {h} : Outstanding(g)' = Outstanding(g)
    BY <1>0 DEF Outstanding, Release, TypeOK
  <1>4. Held' = UNION {Outstanding(g) : g \in Hart \ {h}}
    BY <1>2, <1>3, HeldByOthers
  <1>5. Held = Held' \cup Back
    BY <1>4, HeldSplit
  <1>6. Held' \cap Back = {}
    BY <1>0, <1>4 DEF TicketsUnique
  <1>7. TicketsInRange' /\ InsideReleased'
    BY <1>0 DEF TicketsInRange, InsideReleased, Release, TypeOK
  <1>8. TicketsUnique'
    <2>1. (\A g, k \in Hart : g # k => Outstanding(g) \cap Outstanding(k) = {})'
      BY <1>0, <1>2, <1>3 DEF TicketsUnique
    <2>2. /\ released' + 1 .. acquired' \subseteq released + 1 .. acquired
          /\ (released' + 1 .. acquired') \cap Back = {}
      <3>1. /\ released \in Nat /\ acquired \in Nat /\ ticket[h] \in Nat
            /\ acquired' = acquired /\ released' = released + want[h]
        BY <1>0 DEF Release, TypeOK
      <3>2. \A t \in released' + 1 .. acquired' :
                t \in released + 1 .. acquired /\ t > ticket[h]
        BY <3>1, <1>2
      <3>3. \A t \in Back : ~(t > ticket[h])
        BY <3>1, <1>2
      <3> QED BY <3>2, <3>3
    <2>3. released' + 1 .. acquired' \subseteq Held'
      BY <2>2, <1>0, <1>5 DEF TicketsUnique
    <2> QED BY <2>1, <2>3 DEF TicketsUnique
  <1>9. Conservation'
    <2>1. IsFiniteSet(Back) /\ Cardinality(Back) = want[h]
      BY <1>2, IntervalCard
    <2>2. IsFiniteSet(Held')
      BY <1>0, <1>5, FS_Subset DEF Conservation
    <2>3. Cardinality(Held) = Cardinality(Held') + want[h]
      BY <2>1, <2>2, <1>5, <1>6, DisjointUnionCard
    <2>4. Cardinality(Held') \in Nat
      BY <2>2, FS_CardinalityType
    <2>5. released' = released + want[h] /\ acquired' = acquired
      BY DEF Release
    <2> QED BY <2>2, <2>3, <2>4, <2>5, <1>0, <1>2 DEF Conservation, TypeOK
  <1> QED
    BY <1>1, <1>7, <1>8, <1>9 DEF IInv

(***************************************************************************)
(* Each step of the semaphore preserves the invariant.                     *)
(***************************************************************************)
LEMMA NextIInv == IInv /\ [SemNext]_semVars => IInv'
  <1> SUFFICES ASSUME IInv, [SemNext]_semVars PROVE IInv'
    OBVIOUS
  <1>1. ASSUME NEW h \in Hart, NEW n \in 1..Tickets, Acquire(h, n) PROVE IInv'
    BY <1>1, AcquireIInv
  <1>2. ASSUME NEW h \in Hart, Enter(h) PROVE IInv'
    BY <1>2, EnterIInv
  <1>3. ASSUME NEW h \in Hart, Release(h) PROVE IInv'
    BY <1>3, ReleaseIInv
  <1>4. CASE UNCHANGED semVars
    BY <1>4 DEF IInv, semVars, TypeOK, TicketsInRange, InsideReleased,
                TicketsUnique, Conservation, Held, Outstanding
  <1> QED
    BY <1>1, <1>2, <1>3, <1>4 DEF SemNext

-----------------------------------------------------------------------------
(***************************************************************************)
(* Under the invariant the harts inside hold at most Tickets tickets.      *)
(***************************************************************************)
LEMMA IInvCapacity ==
    ASSUME IInv
    PROVE  /\ IsFiniteSet(UNION {Outstanding(h) : h \in Inside})
           /\ Capacity
  <1> DEFINE C == UNION {Outstanding(h) : h \in Inside}
             Waiting == released + 1 .. acquired
  <1> USE TicketsAssumption
  <1>0. TypeOK /\ TicketsInRange /\ InsideReleased /\ TicketsUnique /\ Conservation
    BY DEF IInv
  <1>1. C \subseteq Held
    BY DEF Inside, Held
  <1>2. \A t \in C : t <= released
    BY <1>0 DEF Inside, Outstanding, InsideReleased, TypeOK
  <1>3. IsFiniteSet(C)
    BY <1>0, <1>1, FS_Subset DEF Conservation
  <1>4. Cardinality(C) \in Nat /\ Cardinality(Held) \in Nat
    BY <1>0, <1>3, FS_CardinalityType DEF Conservation
  <1>5. CASE acquired < released
    <2>1. Cardinality(C) <= Cardinality(Held)
      BY <1>0, <1>1, FS_Subset DEF Conservation
    <2> QED BY <2>1, <1>0, <1>3, <1>4, <1>5 DEF Capacity, Conservation, TypeOK
  <1>6. CASE released <= acquired
    <2>1. released \in Nat /\ acquired - released \in Nat
          /\ Waiting = released + 1 .. released + (acquired - released)
      BY <1>0, <1>6 DEF TypeOK
    <2>2. IsFiniteSet(Waiting) /\ Cardinality(Waiting) = acquired - released
      BY <2>1, IntervalCard
    <2>3. C \cap Waiting = {}
      <3>1. \A t \in Waiting : t > released
        BY <2>1
      <3>2. \A t \in C : ~(t > released)
        <4>1. \A t \in C : t \in Int
          BY <1>0 DEF Inside, Outstanding, TypeOK
        <4> HIDE DEF C
        <4> QED BY <4>1, <1>2, <2>1
      <3> QED BY <3>1, <3>2
    <2>4. IsFiniteSet(C \cup Waiting)
          /\ Cardinality(C \cup Waiting) = Cardinality(C) + (acquired - released)
      BY <2>2, <2>3, <1>3, DisjointUnionCard
    <2>5. C \cup Waiting \subseteq Held
      BY <1>0, <1>1 DEF TicketsUnique
    <2>6. Cardinality(C \cup Waiting) <= Cardinality(Held)
      BY <2>5, <1>0, FS_Subset DEF Conservation
    <2> QED BY <2>1, <2>4, <2>6, <1>0, <1>3, <1>4 DEF Capacity, Conservation, TypeOK
  <1> QED
    BY <1>0, <1>5, <1>6 DEF TypeOK

LEMMA IInvWriterExcludes ==
    ASSUME IInv
    PROVE  WriterExcludes
  <1> SUFFICES ASSUME NEW g \in Inside, NEW h \in Inside, want[g] = Tickets, g # h
               PROVE  FALSE
    BY DEF WriterExcludes
  <1> DEFINE C == UNION {Outstanding(k) : k \in Inside}
  <1> USE TicketsAssumption
  <1>0. TypeOK /\ TicketsInRange /\ TicketsUnique /\ IsFiniteSet(C) /\ Capacity
    BY IInvCapacity DEF IInv
  <1>1. /\ g \in Hart /\ h \in Hart
        /\ ticket[g] - want[g] \in Nat
        /\ Outstanding(g) = (ticket[g] - want[g]) + 1 .. (ticket[g] - want[g]) + want[g]
        /\ want[g] \in Nat
    BY <1>0 DEF Inside, Outstanding, TypeOK, TicketsInRange
  <1>2. IsFiniteSet(Outstanding(g)) /\ Cardinality(Outstanding(g)) = Tickets
    BY <1>1, IntervalCard
  <1>3. ticket[h] \in Outstanding(h)
    BY SMTT(20), <1>0, <1>1 DEF Outstanding, TypeOK, Inside
  <1>4. ticket[h] \notin Outstanding(g)
    BY <1>0, <1>1, <1>3 DEF TicketsUnique
  <1>5. /\ IsFiniteSet(Outstanding(g) \cup {ticket[h]})
        /\ Cardinality(Outstanding(g) \cup {ticket[h]}) = Tickets + 1
    BY <1>2, <1>4, FS_AddElement
  <1>6. Outstanding(g) \cup {ticket[h]} \subseteq C
    BY <1>3
  <1>7. Tickets + 1 <= Cardinality(C)
    BY <1>0, <1>5, <1>6, FS_Subset
  <1>8. Cardinality(C) \in Nat
    BY <1>0, FS_CardinalityType
  <1> QED
    BY <1>0, <1>7, <1>8 DEF Capacity

-----------------------------------------------------------------------------
(***************************************************************************)
(* The semaphore's counters and each hart's ticket keep their types.       *)
(***************************************************************************)
THEOREM SemaphoreTypeCorrect == SemSpec => []TypeOK
  <1>1. IInv => TypeOK
    BY DEF IInv
  <1> QED
    BY <1>1, InitIInv, NextIInv, PTL DEF SemSpec

(***************************************************************************)
(* Tickets are never given twice and never lost (semaphore_acquire_n and   *)
(* semaphore_release_n, any mix of requests).                              *)
(***************************************************************************)
THEOREM SemaphoreTicketsUnique == SemSpec => []TicketsUnique
  <1>1. IInv => TicketsUnique
    BY DEF IInv
  <1> QED
    BY <1>1, InitIInv, NextIInv, PTL DEF SemSpec

(***************************************************************************)
(* The harts inside never hold more than the initial number of tickets.    *)
(***************************************************************************)
THEOREM SemaphoreCapacity == SemSpec => []Capacity
  <1>1. IInv => Capacity
    BY IInvCapacity
  <1> QED
    BY <1>1, InitIInv, NextIInv, PTL DEF SemSpec

(***************************************************************************)
(* A hart that holds all the tickets is alone inside: the slot table is    *)
(* never read, nor written by another hart, while it is being written.     *)
(***************************************************************************)
THEOREM SemaphoreWriterExcludes == SemSpec => []WriterExcludes
  <1>1. IInv => WriterExcludes
    BY IInvWriterExcludes
  <1> QED
    BY <1>1, InitIInv, NextIInv, PTL DEF SemSpec

-----------------------------------------------------------------------------
(* The inductive invariant of the slot table. *)

Length == 0 .. LengthRange - 1
SlotInfo == [pid : Nat, length : Length]

\* What a hart can be busy with.
WriteJob(op, u, i) == [op |-> op, arg |-> u, i |-> i]
FetchJob(s) == [op |-> "fetch", slot |-> s]
CompareJob(s, si, i) == [op |-> "fetch", slot |-> s, si |-> si, i |-> i]
DoneJob(pid, s, end) == [op |-> "done", pid |-> pid, slot |-> s, end |-> end]

\* The slices of the other harts that have been compared do not come first.
Ahead(h, s, si, i) ==
    \A k \in Hart : k < i /\ k # h => ~Defers(si, slots[k][s], h, k)

JobOK(h) ==
    \/ job[h] = Idle /\ phase[h] = "outside"
    \/ \E op \in {"update", "delete"}, u \in Updates, i \in Nat :
          /\ job[h] = WriteJob(op, u, i) /\ u.from <= i
          /\ phase[h] \in {"spinning", "inside"} /\ want[h] = Tickets
          /\ phase[h] = "spinning" => i = u.from
    \/ \E s \in Slot : job[h] = FetchJob(s) /\ phase[h] \in {"spinning", "inside"}
    \/ \E s \in Slot, i \in Nat :
          /\ job[h] = CompareJob(s, slots[h][s], i) /\ phase[h] = "inside"
          /\ slots[h][s].length # 0 /\ MinHart <= i
          /\ Ahead(h, s, slots[h][s], i)
    \/ \E pid \in Nat \cup {NULL}, s \in Slot, end \in Nat :
          job[h] = DoneJob(pid, s, end) /\ phase[h] = "inside"

SlotsOK == slots \in [Hart -> [Slot -> SlotInfo]]

SchedInv == IInv /\ SlotsOK /\ job = [h \in Hart |-> job[h]] /\ \A h \in Hart : JobOK(h)

-----------------------------------------------------------------------------
(* Facts about numbers, entries and jobs. *)

\* By the library's theorem that < is well-founded.
LEMMA LeastNatural ==
    ASSUME NEW T, T \subseteq Nat, T # {}
    PROVE  \E m \in T : \A n \in T : m <= n
  <1> DEFINE R == OpToRel(<, Nat)
  <1>1. IsWellFoundedOn(R, Nat)
    BY NatLessThanWellFounded
  <1>2. \A m, n \in Nat : m < n => <<m, n>> \in R
    BY DEF OpToRel
  <1> HIDE DEF R
  <1>3. PICK m \in T : \A n \in T : ~ (<<n, m>> \in R)
    BY <1>1, WFMin
  <1>4. ASSUME NEW n \in T PROVE m <= n
    <2>1. m \in Nat /\ n \in Nat
      OBVIOUS
    <2>2. ~ (n < m)
      BY <1>2, <1>3, <2>1
    <2> QED BY <2>1, <2>2
  <1> QED
    BY <1>4

LEMMA HartsAreNumbers ==
    /\ \A h \in Hart : h \in Nat /\ MinHart <= h /\ h <= MaxHart
    /\ \A i \in Int : MinHart <= i /\ i <= MaxHart => i \in Hart
    /\ MinHart \in Nat /\ MaxHart \in Nat /\ Promised!Harts = Hart
  BY HartAssumption DEF Promised!Harts

LEMMA LengthKept ==
    ASSUME NEW x \in Int PROVE x % LengthRange \in Length
  BY SlotAssumption DEF Length

LEMMA EntryType ==
    ASSUME NEW op, NEW u \in Updates, NEW i \in Int
    PROVE  Entry(op, u, i) \in SlotInfo
  <1>1. u.pid \in Nat /\ u.end - i \in Int
    BY SlotAssumption
  <1>2. (u.end - i) % LengthRange \in Length
    BY <1>1, LengthKept
  <1>3. 0 \in Length
    BY SlotAssumption DEF Length
  <1> QED
    BY <1>1, <1>2, <1>3 DEF Entry, NoSlot, SlotInfo

LEMMA JobFields ==
    /\ Idle.op = "idle"
    /\ \A op, u, i : LET j == WriteJob(op, u, i) IN j.op = op /\ j.arg = u /\ j.i = i
    /\ \A s : LET j == FetchJob(s) IN
              j.op = "fetch" /\ j.slot = s /\ "si" \notin DOMAIN j
    /\ \A s, si, i : LET j == CompareJob(s, si, i) IN
              /\ j.op = "fetch" /\ j.slot = s /\ j.si = si /\ j.i = i
              /\ "si" \in DOMAIN j
    /\ \A pid, s, end : LET j == DoneJob(pid, s, end) IN
              j.op = "done" /\ j.pid = pid /\ j.slot = s /\ j.end = end
  BY DEF Idle, WriteJob, FetchJob, CompareJob, DoneJob

-----------------------------------------------------------------------------
(* What the jobs say. *)

\* What a hart does and where it is in the semaphore go together.
LEMMA JobIs ==
    ASSUME SchedInv, NEW h \in Hart
    PROVE  /\ job[h] = Idle => phase[h] = "outside"
           /\ Writing(h) => /\ want[h] = Tickets
                            /\ job[h] = WriteJob(job[h].op, job[h].arg, job[h].i)
                            /\ job[h].arg \in Updates /\ job[h].i \in Nat
                            /\ job[h].arg.from <= job[h].i
                            /\ phase[h] \in {"spinning", "inside"}
                            /\ phase[h] = "spinning" => job[h].i = job[h].arg.from
           /\ Reading(h) /\ "si" \notin DOMAIN job[h] => \E s \in Slot : job[h] = FetchJob(s)
           /\ Reading(h) /\ "si" \in DOMAIN job[h] =>
                 \E s \in Slot, i \in Nat :
                    /\ job[h] = CompareJob(s, slots[h][s], i)
                    /\ slots[h][s].length # 0 /\ MinHart <= i
                    /\ Ahead(h, s, slots[h][s], i)
           /\ job[h].op = "done" =>
                 /\ phase[h] = "inside"
                 /\ \E pid \in Nat \cup {NULL}, s \in Slot, end \in Nat :
                       job[h] = DoneJob(pid, s, end)
           /\ phase[h] = "spinning" => Writing(h) \/ \E s \in Slot : job[h] = FetchJob(s)
  <1>1. JobOK(h)
    BY DEF SchedInv
  <1> QED
    BY <1>1, JobFields DEF JobOK, Writing, Reading

-----------------------------------------------------------------------------
(* Every step keeps the invariant. *)
\* The harts that a step of h leaves alone.
Others(h) ==
    /\ \A g \in Hart \ {h} : job'[g] = job[g] /\ phase'[g] = phase[g] /\ want'[g] = want[g]
    /\ job' = [g \in Hart |-> job'[g]]

LEMMA OthersKeep ==
    ASSUME SchedInv, NEW h \in Hart, Others(h), IInv', JobOK(h)', slots' = slots
    PROVE  SchedInv'
  <1>1. ASSUME NEW g \in Hart \ {h} PROVE JobOK(g)'
    <2>1. JobOK(g) /\ job'[g] = job[g] /\ phase'[g] = phase[g] /\ want'[g] = want[g]
      BY DEF SchedInv, Others
    <2> QED BY <2>1 DEF JobOK, Ahead
  <1> QED
    BY <1>1 DEF SchedInv, Others, SlotsOK

LEMMA TicketsPositive == Tickets \in 1 .. Tickets /\ 1 \in 1 .. Tickets
  BY TicketsAssumption

LEMMA AcquireOthers ==
    ASSUME SchedInv, NEW h \in Hart, NEW n \in 1 .. Tickets, NEW j,
           Acquire(h, n), job' = [job EXCEPT ![h] = j]
    PROVE  /\ Others(h) /\ IInv' /\ job'[h] = j
           /\ phase'[h] = "spinning" /\ want'[h] = n
  <1>1. IInv'
    BY AcquireIInv DEF SchedInv
  <1>2. /\ phase' = [phase EXCEPT ![h] = "spinning"] /\ want' = [want EXCEPT ![h] = n]
        /\ phase \in [Hart -> Phase] /\ want \in [Hart -> 1 .. Tickets]
    BY DEF Acquire, SchedInv, IInv, TypeOK
  <1> QED
    BY <1>1, <1>2 DEF SchedInv, Others

LEMMA ReleaseOthers ==
    ASSUME SchedInv, NEW h \in Hart, Release(h), job' = [job EXCEPT ![h] = Idle]
    PROVE  /\ Others(h) /\ IInv' /\ job'[h] = Idle /\ phase'[h] = "outside"
           /\ phase[h] = "inside"
  <1>1. IInv'
    BY ReleaseIInv DEF SchedInv
  <1>2. /\ phase' = [phase EXCEPT ![h] = "outside"] /\ want' = want /\ phase[h] = "inside"
        /\ phase \in [Hart -> Phase]
    BY DEF Release, SchedInv, IInv, TypeOK
  <1> QED
    BY <1>1, <1>2 DEF SchedInv, Others

LEMMA StayOthers ==
    ASSUME SchedInv, NEW h \in Hart, NEW j, UNCHANGED semVars, job' = [job EXCEPT ![h] = j]
    PROVE  Others(h) /\ IInv' /\ job'[h] = j /\ phase' = phase /\ want' = want
  <1>1. phase' = phase /\ want' = want
    BY DEF semVars
  <1>2. IInv'
    BY NextIInv DEF SchedInv
  <1> QED
    BY <1>1, <1>2 DEF SchedInv, Others

LEMMA BeginWriteOthers ==
    ASSUME SchedInv, NEW h \in Hart, NEW u \in Updates, NEW op \in {"update", "delete"},
           BeginWrite(h, op, u)
    PROVE  /\ Others(h) /\ IInv' /\ job'[h] = WriteJob(op, u, u.from) /\ job[h] = Idle
           /\ phase'[h] = "spinning" /\ want'[h] = Tickets /\ slots' = slots
  <1> DEFINE j == WriteJob(op, u, u.from)
  <1>1. /\ Acquire(h, Tickets) /\ job' = [job EXCEPT ![h] = j]
        /\ job[h] = Idle /\ slots' = slots
    BY DEF BeginWrite, WriteJob
  <1> HIDE DEF j
  <1>2. Others(h) /\ IInv' /\ job'[h] = j /\ phase'[h] = "spinning" /\ want'[h] = Tickets
    BY <1>1, TicketsPositive, AcquireOthers
  <1> QED
    BY <1>1, <1>2 DEF j

LEMMA BeginFetchOthers ==
    ASSUME SchedInv, NEW h \in Hart, NEW s \in Slot, BeginFetch(h, s)
    PROVE  /\ Others(h) /\ IInv' /\ job'[h] = FetchJob(s) /\ job[h] = Idle
           /\ phase'[h] = "spinning" /\ slots' = slots
  BY TicketsPositive, AcquireOthers DEF BeginFetch, FetchJob

LEMMA BeginWriteInv ==
    ASSUME SchedInv, NEW h \in Hart, NEW u \in Updates, NEW op \in {"update", "delete"},
           BeginWrite(h, op, u)
    PROVE  SchedInv'
  <1>1. /\ Others(h) /\ IInv' /\ job'[h] = WriteJob(op, u, u.from)
        /\ phase'[h] = "spinning" /\ want'[h] = Tickets /\ slots' = slots
    BY BeginWriteOthers
  <1>2. u.from \in Nat
    BY SlotAssumption
  <1>3. JobOK(h)'
    BY <1>1, <1>2 DEF JobOK
  <1> QED
    BY <1>1, <1>3, OthersKeep

LEMMA BeginFetchInv ==
    ASSUME SchedInv, NEW h \in Hart, NEW s \in Slot, BeginFetch(h, s)
    PROVE  SchedInv'
  <1>1. /\ Others(h) /\ IInv' /\ job'[h] = FetchJob(s) /\ phase'[h] = "spinning"
        /\ slots' = slots
    BY BeginFetchOthers
  <1>3. JobOK(h)'
    BY <1>1 DEF JobOK
  <1> QED
    BY <1>1, <1>3, OthersKeep

LEMMA EnterInv ==
    ASSUME SchedInv, NEW h \in Hart, EnterTable(h)
    PROVE  SchedInv'
  <1>1. Enter(h) /\ slots' = slots /\ job' = job
    BY DEF EnterTable, schedVars
  <1>2. /\ phase[h] = "spinning" /\ want' = want /\ phase \in [Hart -> Phase]
        /\ phase' = [phase EXCEPT ![h] = "inside"]
    BY <1>1 DEF Enter, SchedInv, IInv, TypeOK
  <1>3. Others(h) /\ phase'[h] = "inside"
    BY <1>1, <1>2 DEF Others, SchedInv
  <1>4. Writing(h) \/ \E s \in Slot : job[h] = FetchJob(s)
    BY <1>2, JobIs
  <1>5. JobOK(h)'
    <2>1. CASE Writing(h)
      <3>1. PICK op \in {"update", "delete"}, u \in Updates, i \in Nat :
               job[h] = WriteJob(op, u, i) /\ u.from <= i /\ want[h] = Tickets
        BY <2>1, JobIs DEF Writing
      <3> QED BY <1>1, <1>2, <1>3, <3>1 DEF JobOK
    <2>2. CASE \E s \in Slot : job[h] = FetchJob(s)
      BY <1>1, <1>3, <2>2 DEF JobOK
    <2> QED BY <1>4, <2>1, <2>2
  <1>7. IInv'
    BY <1>1, EnterIInv DEF SchedInv
  <1> QED
    BY <1>1, <1>3, <1>5, <1>7, OthersKeep

\* While a hart writes, no other is inside.
LEMMA WriterAlone ==
    ASSUME SchedInv, NEW h \in Hart, Writing(h), phase[h] = "inside"
    PROVE  \A g \in Hart : phase[g] = "inside" => g = h
  BY IInvWriterExcludes, JobIs DEF SchedInv, WriterExcludes, Inside

LEMMA WriteSlotInv ==
    ASSUME SchedInv, NEW h \in Hart, WriteSlot(h)
    PROVE  SchedInv'
  <1> DEFINE op == job[h].op
             u == job[h].arg
             i == job[h].i
  <1>1. /\ Writing(h) /\ phase[h] = "inside" /\ i < u.to /\ UNCHANGED semVars
        /\ slots' = [slots EXCEPT ![u.hart][i] = Entry(op, u, i)]
        /\ job' = [job EXCEPT ![h] = [job[h] EXCEPT !.i = @ + 1]]
    BY DEF WriteSlot
  <1>2. /\ want[h] = Tickets /\ job[h] = WriteJob(op, u, i) /\ u \in Updates /\ i \in Nat
        /\ u.from <= i /\ op \in {"update", "delete"}
    BY <1>1, JobIs DEF Writing
  <1> HIDE DEF op, u, i
  <1>3. [job[h] EXCEPT !.i = @ + 1] = WriteJob(op, u, i + 1)
    BY <1>2 DEF WriteJob
  <1>4. Others(h) /\ IInv' /\ job'[h] = WriteJob(op, u, i + 1) /\ phase' = phase /\ want' = want
    BY <1>1, <1>3, StayOthers
  <1>5. JobOK(h)'
    <2>1. i + 1 \in Nat /\ u.from <= i + 1
      BY <1>2, SlotAssumption
    <2> QED BY <1>1, <1>2, <1>4, <2>1 DEF JobOK
  <1>6. \A g \in Hart \ {h} : JobOK(g)'
    <2> SUFFICES ASSUME NEW g \in Hart \ {h} PROVE JobOK(g)'
      OBVIOUS
    <2>1. phase[g] # "inside" /\ JobOK(g)
      BY <1>1, WriterAlone DEF SchedInv
    <2>2. job'[g] = job[g] /\ phase'[g] = phase[g] /\ want'[g] = want[g]
      BY <1>4 DEF Others
    <2>3. CASE job[g] = Idle
      <3>1. phase[g] = "outside"
        BY <2>3, JobIs
      <3> QED BY <2>2, <2>3, <3>1 DEF JobOK
    <2>5. ASSUME NEW s \in Slot, job[g] = FetchJob(s) PROVE JobOK(g)'
      <3>1. job[g] # Idle /\ ~Writing(g)
        BY <2>5, JobFields DEF Writing
      <3>2. phase[g] = "spinning"
        BY <2>1, <2>5, <3>1, JobFields DEF JobOK, Writing
      <3> QED BY <2>2, <2>5, <3>2 DEF JobOK
    <2>4. CASE Writing(g)
      <3>1. PICK op1 \in {"update", "delete"}, u1 \in Updates, i1 \in Nat :
               /\ job[g] = WriteJob(op1, u1, i1) /\ u1.from <= i1 /\ want[g] = Tickets
               /\ phase[g] = "spinning" /\ i1 = u1.from
        BY <2>1, <2>4, JobIs DEF Writing
      <3> QED BY <2>2, <3>1 DEF JobOK
    <2> QED BY <2>1, <2>3, <2>4, <2>5, JobFields DEF JobOK, Writing
  <1>7. SlotsOK'
    <2>1. Entry(op, u, i) \in SlotInfo
      BY <1>2, EntryType
    <2> QED BY <1>1, <2>1 DEF SlotsOK, SchedInv
  <1> QED
    BY <1>4, <1>5, <1>6, <1>7 DEF SchedInv, Others

LEMMA EndWriteInv ==
    ASSUME SchedInv, NEW h \in Hart, EndWrite(h) \/ EndFetch(h)
    PROVE  SchedInv'
  <1>1. Others(h) /\ IInv' /\ job'[h] = Idle /\ phase'[h] = "outside"
    BY ReleaseOthers DEF EndWrite, EndFetch
  <1>2. JobOK(h)'
    BY <1>1 DEF JobOK
  <1> QED
    BY <1>1, <1>2, OthersKeep DEF EndWrite, EndFetch

LEMMA ReturnInv ==
    ASSUME SchedInv, NEW h \in Hart, NEW pid \in Nat \cup {NULL}, NEW s \in Slot,
           NEW length \in Length, Return(h, pid, s, length), phase[h] = "inside",
           UNCHANGED <<semVars, slots>>
    PROVE  SchedInv'
  <1>1. Others(h) /\ IInv' /\ job'[h] = DoneJob(pid, s, s + length) /\ phase' = phase
    BY StayOthers DEF Return, DoneJob
  <1>2. s + length \in Nat
    BY SlotAssumption DEF Slot, Length
  <1>3. JobOK(h)'
    BY <1>1, <1>2 DEF JobOK
  <1> QED
    BY <1>1, <1>3, OthersKeep

LEMMA ReadOwnInv ==
    ASSUME SchedInv, NEW h \in Hart, ReadOwn(h)
    PROVE  SchedInv'
  <1>1. PICK s \in Slot : job[h] = FetchJob(s) /\ phase[h] = "inside"
    BY JobIs DEF ReadOwn, Reading
  <1>2. job[h].slot = s
    BY <1>1, JobFields
  <1>3. CASE slots[h][s].length = 0
    <2>1. Return(h, NULL, s, 0) /\ UNCHANGED <<semVars, slots>>
      BY <1>2, <1>3 DEF ReadOwn
    <2>2. 0 \in Length /\ NULL \in Nat \cup {NULL}
      BY SlotAssumption DEF Length
    <2> QED BY <1>1, <2>1, <2>2, ReturnInv
  <1>4. CASE slots[h][s].length # 0
    <2> DEFINE j == CompareJob(s, slots[h][s], MinHart)
    <2>1. job' = [job EXCEPT ![h] = j] /\ UNCHANGED semVars /\ slots' = slots
      BY <1>2, <1>4 DEF ReadOwn, CompareJob
    <2> HIDE DEF j
    <2>2. Others(h) /\ IInv' /\ job'[h] = j /\ phase' = phase
      BY <2>1, StayOthers
    <2>3. MinHart \in Nat /\ Ahead(h, s, slots[h][s], MinHart)
      BY HartsAreNumbers DEF Ahead
    <2>4. JobOK(h)'
      BY <1>1, <1>4, <2>1, <2>2, <2>3 DEF JobOK, j, Ahead
    <2> QED BY <2>1, <2>2, <2>4, OthersKeep
  <1> QED
    BY <1>3, <1>4

LEMMA CompareInv ==
    ASSUME SchedInv, NEW h \in Hart, Compare(h)
    PROVE  SchedInv'
  <1>1. PICK s \in Slot, i \in Nat : /\ job[h] = CompareJob(s, slots[h][s], i)
                                    /\ slots[h][s].length # 0 /\ MinHart <= i
                                    /\ Ahead(h, s, slots[h][s], i)
    BY JobIs DEF Compare
  <1>2. job[h].slot = s /\ job[h].si = slots[h][s] /\ job[h].i = i /\ phase[h] = "inside"
    BY <1>1, JobFields DEF Compare, Reading
  <1>3. CASE i # h /\ Defers(slots[h][s], slots[i][s], h, i)
    <2>1. Return(h, NULL, s, 0) /\ UNCHANGED <<semVars, slots>>
      BY <1>2, <1>3 DEF Compare
    <2>2. 0 \in Length /\ NULL \in Nat \cup {NULL}
      BY SlotAssumption DEF Length
    <2> QED BY <1>2, <2>1, <2>2, ReturnInv
  <1>4. CASE i = h \/ ~Defers(slots[h][s], slots[i][s], h, i)
    <2> DEFINE j == CompareJob(s, slots[h][s], i + 1)
    <2>1. /\ job' = [job EXCEPT ![h] = [job[h] EXCEPT !.i = @ + 1]]
          /\ UNCHANGED semVars /\ slots' = slots
      BY <1>2, <1>4 DEF Compare
    <2>2. [job[h] EXCEPT !.i = @ + 1] = j
      BY <1>1 DEF CompareJob
    <2> HIDE DEF j
    <2>3. Others(h) /\ IInv' /\ job'[h] = j /\ phase' = phase
      BY <2>1, <2>2, StayOthers
    <2>4. Ahead(h, s, slots[h][s], i + 1) /\ MinHart <= i + 1
      BY <1>1, <1>4, HartsAreNumbers DEF Ahead
    <2>5. JobOK(h)'
      BY <1>1, <1>2, <2>1, <2>3, <2>4 DEF JobOK, j, Ahead
    <2> QED BY <2>1, <2>3, <2>5, OthersKeep
  <1> QED
    BY <1>3, <1>4

LEMMA GrantInv ==
    ASSUME SchedInv, NEW h \in Hart, Grant(h)
    PROVE  SchedInv'
  <1>1. PICK s \in Slot, i \in Nat : job[h] = CompareJob(s, slots[h][s], i)
    BY JobIs DEF Grant
  <1>2. job[h].slot = s /\ job[h].si = slots[h][s] /\ phase[h] = "inside"
    BY <1>1, JobFields DEF Grant, Reading
  <1>3. slots[h][s].pid \in Nat \cup {NULL} /\ slots[h][s].length \in Length
    BY DEF SchedInv, SlotsOK, SlotInfo
  <1> QED
    BY <1>2, <1>3, ReturnInv DEF Grant

LEMMA SchedNextInv == SchedInv /\ [Next]_vars => SchedInv'
  <1> SUFFICES ASSUME SchedInv, [Next]_vars PROVE SchedInv'
    OBVIOUS
  <1>1. CASE UNCHANGED vars
    <2>1. UNCHANGED semVars /\ UNCHANGED <<phase, want, slots, job>>
      BY <1>1 DEF vars, semVars, schedVars
    <2>2. IInv'
      BY <2>1, NextIInv DEF SchedInv
    <2> QED BY <2>1, <2>2 DEF SchedInv, SlotsOK, JobOK, Ahead
  <1>2. ASSUME NEW h \in Hart, SchedSteps(h) PROVE SchedInv'
    BY <1>2, EnterInv, WriteSlotInv, EndWriteInv, ReadOwnInv, CompareInv, GrantInv
       DEF SchedSteps
  <1> QED
    BY <1>1, <1>2, BeginWriteInv, BeginFetchInv DEF Next

LEMMA SchedInitInv == SchedInit => SchedInv
  <1> SUFFICES ASSUME SchedInit PROVE SchedInv
    OBVIOUS
  <1>1. IInv
    BY InitIInv DEF SchedInit
  <1>2. SlotsOK
    <2>1. \A i \in Slot : [pid |-> 0, length |-> (SlotCnt - i) % LengthRange] \in SlotInfo
      BY SlotAssumption, LengthKept DEF SlotInfo, Slot
    <2> QED BY <2>1 DEF SchedInit, SlotsOK
  <1>3. \A h \in Hart : JobOK(h)
    BY DEF SchedInit, SemInit, JobOK
  <1> QED
    BY <1>1, <1>2, <1>3 DEF SchedInv, SchedInit

-----------------------------------------------------------------------------
(* What the table says, whatever is in it. *)

\* Of the harts with a slice of one process the first of the longest goes on.
LEMMA SomeoneClaims ==
    ASSUME SlotsOK, NEW h \in Hart, NEW s \in Slot, slots[h][s].length # 0
    PROVE  \E g \in Hart : slots[g][s].pid = slots[h][s].pid /\ Promised!Claims(slots, g, s)
  <1> DEFINE len(g) == slots[g][s].length
             Same == {g \in Hart : slots[g][s].pid = slots[h][s].pid}
             Short == {LengthRange - len(g) : g \in Same}
  <1>1. \A g \in Hart : len(g) \in 0 .. LengthRange - 1
    BY DEF SlotsOK, SlotInfo, Length
  <1> HIDE DEF len
  <1>2. Short \subseteq Nat /\ Short # {}
    BY <1>1, SlotAssumption
  <1>3. PICK m \in Short : \A n \in Short : m <= n
    BY <1>2, LeastNatural
  <1>4. PICK g0 \in Same : m = LengthRange - len(g0)
    BY <1>3
  <1>5. ASSUME NEW g \in Same PROVE len(g) <= len(g0)
    <2>1. m <= LengthRange - len(g)
      BY <1>3
    <2>2. len(g) \in Int /\ len(g0) \in Int /\ LengthRange \in Int
      BY <1>1, SlotAssumption
    <2> QED BY <1>4, <2>1, <2>2
  <1> DEFINE Longest == {g \in Same : len(g) = len(g0)}
  <1>6. Longest \subseteq Nat /\ Longest # {}
    BY <1>4, HartsAreNumbers
  <1>7. PICK g1 \in Longest : \A g \in Longest : g1 <= g
    BY <1>6, LeastNatural
  <1>8. g1 \in Hart /\ slots[g1][s].pid = slots[h][s].pid /\ len(g1) = len(g0)
    BY <1>7
  <1>9. len(g1) # 0
    <2>1. len(h) <= len(g0) /\ len(h) # 0
      BY <1>5 DEF len
    <2> QED BY <1>1, <1>4, <1>8, <2>1
  <1>10. ASSUME NEW i \in Promised!Compared(g1)
         PROVE  ~Promised!Defers(slots[g1][s], slots[i][s], g1, i)
    <2>1. i \in Hart /\ i # g1 /\ g1 \in Nat /\ i \in Nat
      BY <1>8, <1>10, HartsAreNumbers, HartAssumption DEF Promised!Compared
    <2>2. CASE slots[i][s].pid # slots[g1][s].pid
      BY <2>2 DEF Promised!Defers
    <2>3. CASE i \in Same /\ i < g1
      <3>1. len(i) < len(g1)
        <4>1. len(i) # len(g0)
          BY <1>7, <2>1, <2>3
        <4> QED BY <1>1, <1>4, <1>5, <1>8, <2>3, <4>1
      <3>2. ~(len(g1) <= len(i))
        BY <1>1, <1>8, <2>1, <3>1
      <3> QED BY <2>3, <3>2 DEF Promised!Defers, len
    <2>4. CASE i \in Same /\ ~(i < g1)
      <3>1. ~(len(g1) < len(i))
        BY <1>1, <1>5, <1>8, <2>1, <2>4
      <3> QED BY <2>4, <3>1 DEF Promised!Defers, len
    <2> QED BY <1>8, <2>1, <2>2, <2>3, <2>4
  <1> QED
    BY <1>8, <1>9, <1>10 DEF Promised!Claims, len

LEMMA OneClaims == SlotsOK => ClaimUnique
  <1> SUFFICES ASSUME SlotsOK, NEW g \in Hart \ {MaxHart}, NEW h \in Hart \ {MaxHart}, g < h,
                      NEW s \in Slot, slots[g][s].pid = slots[h][s].pid,
                      Promised!Claims(slots, g, s), Promised!Claims(slots, h, s)
               PROVE  FALSE
    BY HartsAreNumbers DEF ClaimUnique
  <1>1. h \in Promised!Compared(g) /\ g \in Promised!Compared(h) /\ g \in Nat /\ h \in Nat
    BY HartAssumption DEF Promised!Compared
  <1>2. slots[g][s].length \in Int /\ slots[h][s].length \in Int
    BY DEF SlotsOK, SlotInfo, Length
  <1> QED
    BY <1>1, <1>2 DEF Promised!Claims, Promised!Defers

-----------------------------------------------------------------------------
(* The table as its readers see it. *)

LEMMA WriterTable ==
    ASSUME SchedInv, NEW h \in Hart, Writing(h), phase[h] = "inside",
           NEW k \in Hart, NEW i \in Slot
    PROVE  Table[k][i] = IF job[h].arg.hart = k /\ job[h].i <= i /\ i < job[h].arg.to
                         THEN Entry(job[h].op, job[h].arg, i) ELSE slots[k][i]
  <1>1. Writers(k, i) = IF job[h].arg.hart = k /\ job[h].i <= i /\ i < job[h].arg.to
                        THEN {h} ELSE {}
    BY WriterAlone DEF Writers
  <1>2. CASE Writers(k, i) = {}
    BY <1>1, <1>2 DEF Table
  <1>3. CASE Writers(k, i) = {h}
    <2>1. (CHOOSE w \in Writers(k, i) : TRUE) = h
      BY <1>3
    <2> QED BY <1>1, <1>3, <2>1 DEF Table
  <1> QED
    BY <1>1, <1>2, <1>3

LEMMA QuietTable ==
    ASSUME SlotsOK, \A h \in Hart : phase[h] = "inside" => ~Writing(h)
    PROVE  Table = slots
  <1>1. \A k \in Hart, i \in Slot : Writers(k, i) = {}
    BY DEF Writers
  <1>2. \A k \in Hart : Table[k] = slots[k]
    BY <1>1 DEF Table, SlotsOK
  <1> QED
    BY <1>2 DEF Table, SlotsOK

LEMMA ReaderTable ==
    ASSUME SchedInv, NEW h \in Hart, phase[h] = "inside", ~Writing(h)
    PROVE  Table = slots
  <1>1. \A g \in Hart : phase[g] = "inside" => ~Writing(g)
    BY WriterAlone
  <1> QED
    BY <1>1, QuietTable DEF SchedInv

\* A step of h changes the table only as a writer inside that is not through.
LEMMA SameTable ==
    ASSUME NEW h \in Hart, Others(h), slots' = slots,
           \A k \in Hart, i \in Slot : h \notin Writers(k, i) /\ h \notin Writers(k, i)'
    PROVE  Table' = Table
  <1>1. \A g \in Hart \ {h} : /\ Writing(g)' <=> Writing(g)
                            /\ job'[g] = job[g] /\ phase'[g] = phase[g]
    BY DEF Others, Writing
  <1>2. ASSUME NEW k \in Hart, NEW i \in Slot PROVE Writers(k, i)' = Writers(k, i)
    BY <1>1, <1>2 DEF Writers
  <1>3. ASSUME NEW k \in Hart, NEW i \in Slot PROVE Table'[k][i] = Table[k][i]
    <2>1. CASE Writers(k, i) = {}
      BY <1>2, <2>1 DEF Table
    <2>2. CASE Writers(k, i) # {}
      <3> DEFINE w == CHOOSE w \in Writers(k, i) : TRUE
      <3>1. w \in Writers(k, i)
        BY <2>2
      <3>2. w \in Hart \ {h}
        BY <3>1 DEF Writers
      <3>3. (CHOOSE v \in Writers(k, i)' : TRUE) = w
        BY <1>2
      <3>4. Table'[k][i] = Entry(job'[w].op, job'[w].arg, i)
        BY <1>2, <2>2, <3>3 DEF Table
      <3>5. Table[k][i] = Entry(job[w].op, job[w].arg, i)
        BY <2>2 DEF Table
      <3> HIDE DEF w
      <3> QED BY <1>1, <3>2, <3>4, <3>5
    <2> QED BY <2>1, <2>2
  <1>4. Table' = [k \in Hart |-> [i \in Slot |-> Table'[k][i]]]
    BY DEF Table
  <1>5. Table = [k \in Hart |-> [i \in Slot |-> Table[k][i]]]
    BY DEF Table
  <1> QED
    BY <1>3, <1>4, <1>5

LEMMA SameFetched ==
    ASSUME NEW h \in Hart, Others(h), job[h].op # "done", job'[h].op # "done"
    PROVE  Fetched' = Fetched
  BY DEF Others, Fetched

LEMMA NowFetched ==
    ASSUME NEW h \in Hart, Others(h), NEW pid, NEW s, NEW end, job'[h] = DoneJob(pid, s, end)
    PROVE  Fetched' = [Fetched EXCEPT ![h] = [pid |-> pid, slot |-> s, end |-> end]]
  <1>1. Fetched'[h] = [pid |-> pid, slot |-> s, end |-> end]
    BY JobFields DEF Fetched
  <1>2. \A g \in Hart \ {h} : Fetched'[g] = Fetched[g]
    BY DEF Others, Fetched
  <1>3. Fetched' = [g \in Hart |-> Fetched'[g]]
    BY DEF Fetched
  <1>4. [Fetched EXCEPT ![h] = [pid |-> pid, slot |-> s, end |-> end]]
          = [g \in Hart |-> IF g = h THEN [pid |-> pid, slot |-> s, end |-> end] ELSE Fetched[g]]
    BY DEF Fetched
  <1> QED
    BY <1>1, <1>2, <1>3, <1>4

-----------------------------------------------------------------------------
(* Step by step, what SlotTable does. *)

LEMMA ToUpdate ==
    ASSUME NEW u \in Updates, Fetched' = Fetched,
           Table' \in {Promised!Updated(Table, u), Promised!Deleted(Table, u)}
    PROVE  Promised!Next
  BY DEF Promised!Next, Promised!Update

LEMMA ToFetch ==
    ASSUME NEW h \in Hart, NEW s \in Slot, Table' = Table,
           Fetched' = [Fetched EXCEPT ![h] = Promised!Found(Table, h, s)]
    PROVE  Promised!Next
  BY HartsAreNumbers DEF Promised!Next, Promised!Fetch, Promised!Slot, Slot

LEMMA ToLeave ==
    ASSUME NEW h \in Hart, Table' = Table, Fetched' = [Fetched EXCEPT ![h] = Nothing]
    PROVE  Promised!Next
  BY HartsAreNumbers DEF Promised!Next, Promised!Leave, Promised!Nothing, Nothing,
                         Promised!NULL, NULL

LEMMA BeginIsStutter ==
    ASSUME SchedInv, NEW h \in Hart, Others(h), phase'[h] = "spinning", slots' = slots,
           job[h] = Idle, job'[h].op # "done"
    PROVE  Table' = Table /\ Fetched' = Fetched
  <1>1. \A k \in Hart, i \in Slot : h \notin Writers(k, i) /\ h \notin Writers(k, i)'
    BY JobIs DEF Writers
  <1>2. job[h].op # "done"
    BY JobFields
  <1> QED
    BY <1>1, <1>2, SameTable, SameFetched

LEMMA ExcludesThen == IInv' => WriterExcludes'
  <1>1. IInv => WriterExcludes
    BY IInvWriterExcludes
  <1> QED
    BY <1>1, PTL

\* A writer that gets in rewrites the table, for those who read it later.
LEMMA EnterIsUpdate ==
    ASSUME SchedInv, NEW h \in Hart, EnterTable(h)
    PROVE  Promised!Next \/ (Table' = Table /\ Fetched' = Fetched)
  <1>1. /\ phase[h] = "spinning" /\ phase' = [phase EXCEPT ![h] = "inside"] /\ want' = want
        /\ slots' = slots /\ job' = job /\ phase \in [Hart -> Phase]
    BY DEF EnterTable, Enter, schedVars, SchedInv, IInv, TypeOK
  <1>2. Others(h) /\ SchedInv'
    BY <1>1, EnterInv DEF Others, SchedInv
  <1>3. Fetched' = Fetched
    BY <1>1 DEF Fetched
  <1>4. CASE ~Writing(h)
    <2>1. \A k \in Hart, i \in Slot : h \notin Writers(k, i) /\ h \notin Writers(k, i)'
      BY <1>1, <1>4 DEF Writers, Writing
    <2> QED BY <1>1, <1>2, <1>3, <2>1, SameTable
  <1>5. CASE Writing(h)
    <2> DEFINE u == job[h].arg
               op == job[h].op
    <2>1. u \in Updates /\ job[h].i = u.from /\ op \in {"update", "delete"}
      BY <1>1, <1>5, JobIs DEF Writing
    <2>2. \A g \in Hart : phase'[g] = "inside" => g = h
      <3>1. \A g \in Hart \ {h} : phase[g] # "inside"
        <4>1. WriterExcludes'
          BY <1>2, ExcludesThen DEF SchedInv
        <4>2. phase'[h] = "inside" /\ want'[h] = Tickets
          BY <1>1, <1>5, JobIs
        <4>3. h \in Inside'
          BY <4>2 DEF Inside
        <4>4. ASSUME NEW g \in Hart \ {h}, phase[g] = "inside" PROVE FALSE
          <5>1. g \in Inside'
            BY <1>1, <4>4 DEF Inside
          <5> QED BY <4>1, <4>2, <4>3, <5>1 DEF WriterExcludes
        <4> QED BY <4>4
      <3> QED BY <1>1, <3>1
    <2>3. Table = slots
      BY <1>1, <2>2, QuietTable DEF SchedInv
    <2>4. \A k \in Hart, i \in Slot :
             Table'[k][i] = IF u.hart = k /\ u.from <= i /\ i < u.to
                            THEN Entry(op, u, i) ELSE slots[k][i]
      <3> SUFFICES ASSUME NEW k \in Hart, NEW i \in Slot
                   PROVE  Table'[k][i] = IF u.hart = k /\ u.from <= i /\ i < u.to
                                         THEN Entry(op, u, i) ELSE slots[k][i]
        OBVIOUS
      <3>1. CASE u.hart = k /\ u.from <= i /\ i < u.to
        <4>1. Writers(k, i)' = {h}
          BY <1>1, <1>5, <2>1, <2>2, <3>1 DEF Writers, Writing
        <4>2. (CHOOSE w \in Writers(k, i)' : TRUE) = h
          BY <4>1
        <4> QED BY <1>1, <3>1, <4>1, <4>2 DEF Table
      <3>2. CASE ~(u.hart = k /\ u.from <= i /\ i < u.to)
        <4>1. Writers(k, i)' = {}
          BY <1>1, <1>5, <2>1, <2>2, <3>2 DEF Writers, Writing
        <4> QED BY <1>1, <3>2, <4>1 DEF Table
      <3> QED BY <3>1, <3>2
    <2>5. Table' = [k \in Hart |-> [i \in Slot |-> Table'[k][i]]]
      BY DEF Table
    <2>6. slots = [k \in Hart |-> [i \in Slot |-> slots[k][i]]]
      BY DEF SchedInv, SlotsOK
    <2>7. u.hart \in Hart
      BY <2>1, SlotAssumption
    <2> HIDE DEF u, op
    <2>8. CASE op = "update"
      <3> DEFINE new == [i \in Slot |-> IF u.from <= i /\ i < u.to
                                       THEN [pid |-> u.pid, length |-> (u.end - i) % LengthRange]
                                       ELSE slots[u.hart][i]]
      <3>1. Promised!Updated(slots, u) = [slots EXCEPT ![u.hart] = new]
        BY DEF Promised!Updated, Promised!Slot, Slot
      <3>4. \A k \in Hart, i \in Slot :
               Table'[k][i] = IF k = u.hart THEN new[i] ELSE slots[k][i]
        BY <2>4, <2>8 DEF Entry
      <3> HIDE DEF new
      <3>5. new = [i \in Slot |-> new[i]]
        BY DEF new
      <3>6. \A k \in Hart : Table'[k] = IF k = u.hart THEN new ELSE slots[k]
        BY <2>5, <2>6, <3>4, <3>5
      <3>2. Table' = [slots EXCEPT ![u.hart] = new]
        BY <2>5, <2>6, <2>7, <3>6
      <3>3. Table' = Promised!Updated(Table, u)
        BY <2>3, <3>1, <3>2
      <3> QED BY <1>3, <2>1, <3>3, ToUpdate
    <2>9. CASE op = "delete"
      <3> DEFINE new == [i \in Slot |-> IF u.from <= i /\ i < u.to
                                       THEN [pid |-> 0, length |-> 0] ELSE slots[u.hart][i]]
      <3>1. Promised!Deleted(slots, u) = [slots EXCEPT ![u.hart] = new]
        BY DEF Promised!Deleted, Promised!Slot, Slot
      <3>4. \A k \in Hart, i \in Slot :
               Table'[k][i] = IF k = u.hart THEN new[i] ELSE slots[k][i]
        BY <2>4, <2>9 DEF Entry, NoSlot
      <3> HIDE DEF new
      <3>5. new = [i \in Slot |-> new[i]]
        BY DEF new
      <3>6. \A k \in Hart : Table'[k] = IF k = u.hart THEN new ELSE slots[k]
        BY <2>5, <2>6, <3>4, <3>5
      <3>2. Table' = [slots EXCEPT ![u.hart] = new]
        BY <2>5, <2>6, <2>7, <3>6
      <3>3. Table' = Promised!Deleted(Table, u)
        BY <2>3, <3>1, <3>2
      <3> QED BY <1>3, <2>1, <3>3, ToUpdate
    <2> QED BY <2>1, <2>8, <2>9
  <1> QED
    BY <1>4, <1>5

LEMMA WriteIsStutter ==
    ASSUME SchedInv, NEW h \in Hart, WriteSlot(h)
    PROVE  Table' = Table /\ Fetched' = Fetched
  <1> DEFINE op == job[h].op
             u == job[h].arg
             i == job[h].i
  <1>1. /\ Writing(h) /\ phase[h] = "inside" /\ i < u.to /\ phase' = phase
        /\ slots' = [slots EXCEPT ![u.hart][i] = Entry(op, u, i)]
        /\ job' = [job EXCEPT ![h] = [job[h] EXCEPT !.i = @ + 1]] /\ UNCHANGED semVars
    BY DEF WriteSlot, semVars
  <1>2. /\ job[h] = WriteJob(op, u, i) /\ u \in Updates /\ i \in Nat
        /\ u.from <= i /\ op \in {"update", "delete"} /\ u.from \in Nat /\ u.hart \in Hart
    BY <1>1, JobIs, SlotAssumption DEF Writing
  <1>3. \A k \in Hart, n \in Slot :
           Table[k][n] = IF u.hart = k /\ i <= n /\ n < u.to THEN Entry(op, u, n) ELSE slots[k][n]
    BY <1>1, WriterTable
  <1> HIDE DEF op, u, i
  <1>4. [job[h] EXCEPT !.i = @ + 1] = WriteJob(op, u, i + 1)
    BY <1>2 DEF WriteJob
  <1>5. Others(h) /\ job'[h] = WriteJob(op, u, i + 1)
    BY <1>1, <1>4, StayOthers
  <1>6. job'[h].op = op /\ job'[h].arg = u /\ job'[h].i = i + 1 /\ job[h].op = op
    BY <1>2, <1>5, JobFields
  <1>7. Fetched' = Fetched
    BY <1>2, <1>5, <1>6, SameFetched
  <1>8. \A g \in Hart : phase'[g] = "inside" => g = h
    BY <1>1, WriterAlone
  <1>9. \A k \in Hart, n \in Slot :
           slots'[k][n] = IF k = u.hart /\ n = i THEN Entry(op, u, i) ELSE slots[k][n]
    BY <1>1, <1>2 DEF SchedInv, SlotsOK
  <1>10. ASSUME NEW k \in Hart, NEW n \in Slot
         PROVE  Table'[k][n] = IF u.hart = k /\ i + 1 <= n /\ n < u.to
                               THEN Entry(op, u, n) ELSE slots'[k][n]
    <2>1. CASE u.hart = k /\ i + 1 <= n /\ n < u.to
      <3>1. Writers(k, n)' = {h}
        BY <1>1, <1>2, <1>6, <1>8, <2>1 DEF Writers, Writing
      <3>2. (CHOOSE w \in Writers(k, n)' : TRUE) = h
        BY <3>1
      <3> QED BY <1>6, <2>1, <3>1, <3>2 DEF Table
    <2>2. CASE ~(u.hart = k /\ i + 1 <= n /\ n < u.to)
      <3>1. Writers(k, n)' = {}
        BY <1>1, <1>2, <1>6, <1>8, <2>2 DEF Writers, Writing
      <3> QED BY <2>2, <3>1 DEF Table
    <2> QED BY <2>1, <2>2
  <1>11. ASSUME NEW k \in Hart, NEW n \in Slot PROVE Table'[k][n] = Table[k][n]
    <2>1. n \in Int
      BY DEF Slot
    <2> QED BY <1>1, <1>2, <1>3, <1>9, <1>10, <2>1
  <1>12. /\ Table' = [k \in Hart |-> [n \in Slot |-> Table'[k][n]]]
         /\ Table = [k \in Hart |-> [n \in Slot |-> Table[k][n]]]
    BY DEF Table
  <1> QED
    BY <1>7, <1>11, <1>12

LEMMA EndWriteIsStutter ==
    ASSUME SchedInv, NEW h \in Hart, EndWrite(h)
    PROVE  Table' = Table /\ Fetched' = Fetched
  <1>1. Others(h) /\ job'[h] = Idle /\ phase'[h] = "outside" /\ slots' = slots
    BY ReleaseOthers DEF EndWrite
  <1>2. \A k \in Hart, i \in Slot : h \notin Writers(k, i) /\ h \notin Writers(k, i)'
    <2>1. job[h].i = job[h].arg.to /\ job[h].i \in Nat
      BY JobIs DEF EndWrite
    <2> QED BY <1>1, <2>1 DEF Writers, Slot
  <1>3. job[h].op # "done" /\ job'[h].op # "done"
    BY <1>1, JobFields DEF EndWrite, Writing
  <1> QED
    BY <1>1, <1>2, <1>3, SameTable, SameFetched

LEMMA EndFetchIsLeave ==
    ASSUME SchedInv, NEW h \in Hart, EndFetch(h)
    PROVE  Promised!Next
  <1>1. Others(h) /\ job'[h] = Idle /\ phase'[h] = "outside" /\ slots' = slots /\ job[h].op = "done"
    BY ReleaseOthers DEF EndFetch
  <1>2. \A k \in Hart, i \in Slot : h \notin Writers(k, i) /\ h \notin Writers(k, i)'
    BY <1>1 DEF Writers, Writing
  <1>3. Table' = Table
    BY <1>1, <1>2, SameTable
  <1>4. Fetched' = [Fetched EXCEPT ![h] = Nothing]
    <2>1. Fetched'[h] = Nothing
      BY <1>1, JobFields DEF Fetched
    <2>2. \A g \in Hart \ {h} : Fetched'[g] = Fetched[g]
      BY <1>1 DEF Others, Fetched
    <2>3. Fetched' = [g \in Hart |-> Fetched'[g]]
      BY DEF Fetched
    <2>4. [Fetched EXCEPT ![h] = Nothing] = [g \in Hart |-> IF g = h THEN Nothing ELSE Fetched[g]]
      BY DEF Fetched
    <2> QED BY <2>1, <2>2, <2>3, <2>4
  <1> QED
    BY <1>3, <1>4, ToLeave

\* A hart that has come to a result has found what is in the table.
LEMMA ReturnIsFetch ==
    ASSUME SchedInv, NEW h \in Hart, Reading(h), slots' = slots, UNCHANGED semVars,
           NEW s \in Slot, NEW pid, NEW length, Return(h, pid, s, length),
           [pid |-> pid, slot |-> s, end |-> s + length] = Promised!Found(slots, h, s)
    PROVE  Promised!Next
  <1>1. Others(h) /\ job'[h] = DoneJob(pid, s, s + length) /\ phase' = phase
    BY StayOthers DEF Return, DoneJob
  <1>2. \A k \in Hart, i \in Slot : h \notin Writers(k, i) /\ h \notin Writers(k, i)'
    BY <1>1, JobFields DEF Reading, Writers, Writing
  <1>3. Table' = Table
    BY <1>1, <1>2, SameTable
  <1>4. Fetched' = [Fetched EXCEPT ![h] = [pid |-> pid, slot |-> s, end |-> s + length]]
    BY <1>1, NowFetched
  <1>5. Table = slots
    BY ReaderTable DEF Reading, Writing
  <1> QED
    BY <1>3, <1>4, <1>5, ToFetch

LEMMA GoOnIsStutter ==
    ASSUME SchedInv, NEW h \in Hart, Reading(h), slots' = slots, UNCHANGED semVars,
           NEW s, NEW si, NEW i, job' = [job EXCEPT ![h] = CompareJob(s, si, i)]
    PROVE  Table' = Table /\ Fetched' = Fetched
  <1> DEFINE j == CompareJob(s, si, i)
  <1>1. j.op = "fetch"
    BY JobFields
  <1> HIDE DEF j
  <1>2. Others(h) /\ job'[h] = j
    BY StayOthers DEF j
  <1>3. \A k \in Hart, n \in Slot : h \notin Writers(k, n) /\ h \notin Writers(k, n)'
    BY <1>1, <1>2 DEF Reading, Writers, Writing
  <1>4. job[h].op # "done" /\ job'[h].op # "done"
    BY <1>1, <1>2 DEF Reading
  <1> QED
    BY <1>2, <1>3, <1>4, SameTable, SameFetched

LEMMA ReadOwnStep ==
    ASSUME SchedInv, NEW h \in Hart, ReadOwn(h)
    PROVE  Promised!Next \/ (Table' = Table /\ Fetched' = Fetched)
  <1>1. PICK s \in Slot : job[h] = FetchJob(s) /\ phase[h] = "inside"
    BY JobIs DEF ReadOwn, Reading
  <1>2. job[h].slot = s /\ Reading(h) /\ UNCHANGED semVars /\ slots' = slots
    BY <1>1, JobFields DEF ReadOwn
  <1>3. CASE slots[h][s].length = 0
    <2>1. Return(h, NULL, s, 0)
      BY <1>2, <1>3 DEF ReadOwn
    <2>2. s + 0 = s
      BY DEF Slot
    <2>3. [pid |-> NULL, slot |-> s, end |-> s + 0] = Promised!Found(slots, h, s)
      BY <1>3, <2>2 DEF Promised!Found, Promised!Claims, Promised!NULL, NULL
    <2> QED BY <1>2, <2>1, <2>3, ReturnIsFetch
  <1>4. CASE slots[h][s].length # 0
    <2>1. job' = [job EXCEPT ![h] = CompareJob(s, slots[h][s], MinHart)]
      BY <1>2, <1>4 DEF ReadOwn, CompareJob
    <2> QED BY <1>2, <2>1, GoOnIsStutter
  <1> QED
    BY <1>3, <1>4

LEMMA SameDefers ==
    ASSUME NEW a, NEW b, NEW h, NEW i
    PROVE  Promised!Defers(a, b, h, i) <=> Defers(a, b, h, i)
  BY DEF Promised!Defers, Defers

LEMMA CompareStep ==
    ASSUME SchedInv, NEW h \in Hart, Compare(h)
    PROVE  Promised!Next \/ (Table' = Table /\ Fetched' = Fetched)
  <1>1. PICK s \in Slot, i \in Nat : /\ job[h] = CompareJob(s, slots[h][s], i)
                                    /\ slots[h][s].length # 0 /\ MinHart <= i
    BY JobIs DEF Compare
  <1>2. /\ job[h].slot = s /\ job[h].si = slots[h][s] /\ job[h].i = i /\ Reading(h)
        /\ UNCHANGED semVars /\ slots' = slots /\ i <= LastCompared(h)
    BY <1>1, JobFields DEF Compare
  <1>3. CASE i # h /\ Defers(slots[h][s], slots[i][s], h, i)
    <2>1. Return(h, NULL, s, 0)
      BY <1>2, <1>3 DEF Compare
    <2>2. s + 0 = s
      BY DEF Slot
    <2>3. i \in Promised!Compared(h)
      BY <1>1, <1>2, <1>3, HartsAreNumbers DEF LastCompared, Promised!Compared
    <2>4. ~Promised!Claims(slots, h, s)
      BY <1>3, <2>3, SameDefers DEF Promised!Claims
    <2>5. [pid |-> NULL, slot |-> s, end |-> s + 0] = Promised!Found(slots, h, s)
      BY <2>2, <2>4 DEF Promised!Found, Promised!NULL, NULL
    <2> QED BY <1>2, <2>1, <2>5, ReturnIsFetch
  <1>4. CASE i = h \/ ~Defers(slots[h][s], slots[i][s], h, i)
    <2>1. job' = [job EXCEPT ![h] = [job[h] EXCEPT !.i = @ + 1]]
      BY <1>2, <1>4 DEF Compare
    <2>2. [job[h] EXCEPT !.i = @ + 1] = CompareJob(s, slots[h][s], i + 1)
      BY <1>1 DEF CompareJob
    <2>3. job' = [job EXCEPT ![h] = CompareJob(s, slots[h][s], i + 1)]
      BY <2>1, <2>2
    <2> QED BY <1>2, <2>3, GoOnIsStutter
  <1> QED
    BY <1>3, <1>4

LEMMA GrantStep ==
    ASSUME SchedInv, NEW h \in Hart, Grant(h)
    PROVE  Promised!Next
  <1>1. PICK s \in Slot, i \in Nat : /\ job[h] = CompareJob(s, slots[h][s], i)
                                    /\ slots[h][s].length # 0
                                    /\ Ahead(h, s, slots[h][s], i)
    BY JobIs DEF Grant
  <1>2. /\ job[h].slot = s /\ job[h].si = slots[h][s] /\ job[h].i = i /\ Reading(h)
        /\ UNCHANGED semVars /\ slots' = slots /\ i > LastCompared(h)
    BY <1>1, JobFields DEF Grant
  <1>3. Return(h, slots[h][s].pid, s, slots[h][s].length)
    BY <1>2 DEF Grant
  <1>4. \A k \in Promised!Compared(h) : k \in Hart /\ k # h /\ k < i
    BY <1>2, HartsAreNumbers, HartAssumption DEF LastCompared, Promised!Compared
  <1>5. Promised!Claims(slots, h, s)
    BY <1>1, <1>4, SameDefers DEF Promised!Claims, Ahead
  <1>6. [pid |-> slots[h][s].pid, slot |-> s, end |-> s + slots[h][s].length]
          = Promised!Found(slots, h, s)
    BY <1>5 DEF Promised!Found
  <1> QED
    BY <1>2, <1>3, <1>6, ReturnIsFetch

LEMMA InitIsInitial == SchedInit => Promised!Init
  <1> SUFFICES ASSUME SchedInit PROVE Promised!Init
    OBVIOUS
  <1>1. SchedInv /\ \A h \in Hart : phase[h] = "outside" /\ job[h] = Idle
    BY SchedInitInv DEF SchedInit, SemInit
  <1>2. Table = slots
    BY <1>1, QuietTable DEF SchedInv
  <1>3. slots = Promised!Initial
    BY HartsAreNumbers DEF SchedInit, Promised!Initial, Promised!Slot, Slot
  <1>4. Fetched = [h \in Hart |-> Nothing]
    BY <1>1, JobFields DEF Fetched
  <1> QED
    BY <1>2, <1>3, <1>4, HartsAreNumbers
       DEF Promised!Init, Promised!Nothing, Nothing, Promised!NULL, NULL

LEMMA StutterKeeps ==
    ASSUME UNCHANGED vars
    PROVE  Table' = Table /\ Fetched' = Fetched
  <1>1. phase' = phase /\ job' = job /\ slots' = slots
    BY DEF vars, semVars, schedVars
  <1>2. ASSUME NEW k \in Hart, NEW i \in Slot PROVE Writers(k, i)' = Writers(k, i)
    BY <1>1 DEF Writers, Writing
  <1>3. ASSUME NEW k \in Hart, NEW i \in Slot PROVE Table'[k][i] = Table[k][i]
    <2> DEFINE w == CHOOSE w \in Writers(k, i) : TRUE
    <2>1. (CHOOSE v \in Writers(k, i)' : TRUE) = w
      BY <1>2
    <2>2. Table'[k][i] = IF Writers(k, i) = {} THEN slots[k][i]
                         ELSE Entry(job[w].op, job[w].arg, i)
      BY <1>1, <1>2, <2>1 DEF Table
    <2>3. Table[k][i] = IF Writers(k, i) = {} THEN slots[k][i]
                        ELSE Entry(job[w].op, job[w].arg, i)
      BY DEF Table
    <2> QED BY <2>2, <2>3
  <1>4. Table' = [k \in Hart |-> [i \in Slot |-> Table'[k][i]]]
    BY DEF Table
  <1>5. Table = [k \in Hart |-> [i \in Slot |-> Table[k][i]]]
    BY DEF Table
  <1>6. Fetched' = Fetched
    BY <1>1 DEF Fetched
  <1> QED
    BY <1>3, <1>4, <1>5, <1>6

LEMMA StepIsStep ==
    SchedInv /\ [Next]_vars => [Promised!Next]_(Promised!vars)
  <1> SUFFICES ASSUME SchedInv, [Next]_vars
               PROVE  Promised!Next \/ (Table' = Table /\ Fetched' = Fetched)
    BY DEF Promised!vars
  <1>1. CASE UNCHANGED vars
    BY <1>1, StutterKeeps
  <1>2. ASSUME NEW h \in Hart, NEW u \in Updates, NEW op \in {"update", "delete"},
               BeginWrite(h, op, u)
        PROVE  Table' = Table /\ Fetched' = Fetched
    <2>1. WriteJob(op, u, u.from).op # "done"
      BY JobFields
    <2> QED BY <1>2, <2>1, BeginWriteOthers, BeginIsStutter
  <1>3. ASSUME NEW h \in Hart, NEW s \in Slot, BeginFetch(h, s)
        PROVE  Table' = Table /\ Fetched' = Fetched
    <2>1. FetchJob(s).op # "done"
      BY JobFields
    <2> QED BY <1>3, <2>1, BeginFetchOthers, BeginIsStutter
  <1>4. ASSUME NEW h \in Hart, SchedSteps(h)
        PROVE  Promised!Next \/ (Table' = Table /\ Fetched' = Fetched)
    BY <1>4, EnterIsUpdate, WriteIsStutter, EndWriteIsStutter, EndFetchIsLeave,
       ReadOwnStep, CompareStep, GrantStep DEF SchedSteps
  <1> QED
    BY <1>1, <1>2, <1>3, <1>4 DEF Next

-----------------------------------------------------------------------------
(* The theorems. *)

LEMMA AlwaysSchedInv == SchedSpec => []SchedInv
  BY SchedInitInv, SchedNextInv, PTL DEF SchedSpec

(***************************************************************************)
(* A hart that rewrites the slot table in sched_update or sched_delete is  *)
(* alone in it, with the jobs of the scheduler around the semaphore.       *)
(***************************************************************************)
THEOREM TableAloneWritten == SchedSpec => []WriterExcludes
  <1>1. SchedInv => WriterExcludes
    BY IInvWriterExcludes DEF SchedInv
  <1> QED
    BY <1>1, AlwaysSchedInv, PTL

(***************************************************************************)
(* Whatever sched_update and sched_delete have left in the table so far,   *)
(* even an update that is half written: of the harts on which a process    *)
(* owns a slot, one passes both loops of sched_fetch. It is the first of   *)
(* those with the longest slice.                                           *)
(***************************************************************************)
THEOREM SliceIsServed == SchedSpec => []SlotServed
  <1>1. SchedInv => SlotServed
    BY SomeoneClaims DEF SchedInv, SlotServed
  <1> QED
    BY <1>1, AlwaysSchedInv, PTL

(***************************************************************************)
(* Two harts below the last never both pass the comparisons of sched_fetch *)
(* for one process in one slot.                                            *)
(***************************************************************************)
THEOREM SliceClaimedOnce == SchedSpec => []ClaimUnique
  <1>1. SchedInv => ClaimUnique
    BY OneClaims DEF SchedInv
  <1> QED
    BY <1>1, AlwaysSchedInv, PTL

(***************************************************************************)
(* The table written entry by entry in sched_update and sched_delete and   *)
(* read entry by entry in sched_fetch, under the semaphore, implements the *)
(* table that is updated and looked up in one step: the readers inside     *)
(* keep the writers out, so what a reader has compared stays true until it *)
(* is done.                                                                *)
(***************************************************************************)
THEOREM SlotTableImplemented == SchedSpec => TableIsAtomic
  BY InitIsInitial, StepIsStep, AlwaysSchedInv, PTL
     DEF SchedSpec, TableIsAtomic, Promised!Spec
=============================================================================
