------------------------------ MODULE Semaphore ------------------------------
(***************************************************************************)
(* The counting semaphore of the scheduler, kernel/inc/semaphore.h: a      *)
(* ticket lock that hands out n tickets at a time.  A hart takes tickets   *)
(* with one atomic addition (Acquire), spins until the last of them has    *)
(* been released (Enter), and gives the same number back (Release).        *)
(*                                                                         *)
(* The kernel has one such semaphore, initialised with one ticket per      *)
(* hart: sched() takes 1 ticket to read the slot table, sched_update() and *)
(* sched_delete() take all of them to write it.                            *)
(***************************************************************************)
EXTENDS Integers, FiniteSets

CONSTANTS Hart,        \* the harts (hardware threads) that use the semaphore
          Tickets,     \* initial number of tickets, S3K_HART_CNT in the kernel
          MaxAcquired  \* bound on the counter of acquired tickets

ASSUME TicketsAssumption == Tickets \in Nat \ {0}
ASSUME MaxAcquiredAssumption == MaxAcquired \in Nat

VARIABLES released,    \* sem->released
          acquired,    \* sem->acquired
          phase,       \* where each hart is: outside, spinning or inside
          ticket,      \* my_ticket of each hart
          want         \* the n each hart asked for

semVars == <<released, acquired, phase, ticket, want>>

Phase == {"outside", "spinning", "inside"}

(***************************************************************************)
(* Type invariant.  A hart asks for at least one ticket and never for more *)
(* than the semaphore was initialised with.                                *)
(***************************************************************************)
TypeOK ==
    /\ released \in Nat
    /\ acquired \in Nat
    /\ phase \in [Hart -> Phase]
    /\ ticket \in [Hart -> Nat]
    /\ want \in [Hart -> 1..Tickets]

SemInit ==
    /\ released = Tickets
    /\ acquired = 0
    /\ phase = [h \in Hart |-> "outside"]
    /\ ticket = [h \in Hart |-> 0]
    /\ want = [h \in Hart |-> 1]

\* my_ticket = __atomic_add_fetch(&sem->acquired, n)
Acquire(h, n) ==
    /\ phase[h] = "outside"
    /\ acquired + n <= MaxAcquired
    /\ acquired' = acquired + n
    /\ ticket' = [ticket EXCEPT ![h] = acquired + n]
    /\ want' = [want EXCEPT ![h] = n]
    /\ phase' = [phase EXCEPT ![h] = "spinning"]
    /\ UNCHANGED released

\* Mutant of Enter: the spin loop ends one ticket too early.
EnterEarly(h) ==
    /\ phase[h] = "spinning"
    /\ ticket[h] <= released + 1
    /\ phase' = [phase EXCEPT ![h] = "inside"]
    /\ UNCHANGED <<released, acquired, ticket, want>>

\* while (my_ticket > sem->released) ;
Enter(h) ==
    /\ phase[h] = "spinning"
    /\ ticket[h] <= released
    /\ phase' = [phase EXCEPT ![h] = "inside"]
    /\ UNCHANGED <<released, acquired, ticket, want>>

\* Mutant of Release: one ticket is given back, whatever was taken.
ReleaseOne(h) ==
    /\ phase[h] = "inside"
    /\ released' = released + 1
    /\ phase' = [phase EXCEPT ![h] = "outside"]
    /\ UNCHANGED <<acquired, ticket, want>>

\* __atomic_fetch_add(&sem->released, n)
Release(h) ==
    /\ phase[h] = "inside"
    /\ released' = released + want[h]
    /\ phase' = [phase EXCEPT ![h] = "outside"]
    /\ UNCHANGED <<acquired, ticket, want>>

SemNext == \E h \in Hart : \/ \E n \in 1..Tickets : Acquire(h, n)
                           \/ Enter(h)
                           \/ Release(h)

(***************************************************************************)
(* A hart in the kernel runs with interrupts disabled, so one that can     *)
(* leave the spin loop or is inside eventually does its next step.  Nobody *)
(* is obliged to ask for tickets.                                          *)
(***************************************************************************)
SemFairness == \A h \in Hart : WF_semVars(Enter(h)) /\ WF_semVars(Release(h))

SemSpec == SemInit /\ [][SemNext]_semVars /\ SemFairness

-----------------------------------------------------------------------------
\* The tickets a hart has taken and not yet given back.
Outstanding(h) == IF phase[h] = "outside" THEN {}
                  ELSE (ticket[h] - want[h] + 1) .. ticket[h]

Held == UNION {Outstanding(h) : h \in Hart}

Inside == {h \in Hart : phase[h] = "inside"}

(***************************************************************************)
(* The tickets of the harts inside never exceed what the semaphore was     *)
(* initialised with, whatever the interleaving of acquisitions of 1 and of *)
(* several tickets (semaphore_acquire_n against semaphore_release_n).      *)
(***************************************************************************)
Capacity == Cardinality(UNION {Outstanding(h) : h \in Inside}) <= Tickets

(***************************************************************************)
(* What sched_update and sched_delete rely on: a hart inside with all the  *)
(* tickets is alone, so nobody reads the slot table while it is rewritten. *)
(***************************************************************************)
WriterExcludes ==
    \A g, h \in Inside : want[g] = Tickets => g = h

(***************************************************************************)
(* No two harts ever hold the same ticket, and every ticket above released *)
(* that was handed out belongs to a hart that still waits for it: a ticket *)
(* is neither lost nor given twice.                                        *)
(***************************************************************************)
TicketsUnique ==
    /\ \A g, h \in Hart : g # h => Outstanding(g) \cap Outstanding(h) = {}
    /\ released + 1 .. acquired \subseteq Held

=============================================================================
