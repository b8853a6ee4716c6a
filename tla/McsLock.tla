------------------------------ MODULE McsLock ------------------------------
(***************************************************************************)
(* The kernel lock, mcslock.c with kernel_lock_acquire and                 *)
(* kernel_lock_release of kernel.c.  The nodes of the waiting harts form a *)
(* list linked by prev from the lock's tail; a hart has the lock when its  *)
(* prev is NULL.  next, the way back, is a hint: it is stored after prev,  *)
(* and a hart that unlinks its node follows next until it meets the node   *)
(* whose prev is its own.                                                  *)
(*                                                                         *)
(* One action per access to a field that another hart may change, seen by  *)
(* all harts at once.  (The stores to next are plain ones that a hart may  *)
(* even see late; nothing but CallsReturn depends on them.)                *)
(***************************************************************************)
EXTENDS Sequences

CONSTANTS Hart,   \* the harts; hart h has nodes[h]
          LockTail,   \* the lock's own node
          Null

ASSUME NodesDistinct == LockTail \notin Hart /\ Null \notin Hart /\ Null # LockTail

Node == Hart \cup {LockTail}

VARIABLES prev,     \* node->prev
          next,     \* node->next
          pc,       \* where each hart is
          before,   \* local prev of _release
          after     \* local next of _release

lockVars == <<prev, next, pc, before, after>>

\* Outside the lock, before line 32, in the loop of line 33, holding the lock;
\* in _release: before line 15, before the compare-exchange, before line 20.
Pc == {"out", "link", "wait", "in", "read", "unlink", "relink"}

(***************************************************************************)
(* Type invariant.  In particular _release never follows a NULL next, and  *)
(* lines 20 and 32 never a NULL prev.                                      *)
(***************************************************************************)
LockTypeOK ==
    /\ prev \in [Node -> Hart \cup {Null}]
    /\ next \in [Node -> Node \cup {Null}]
    /\ pc \in [Hart -> Pc]
    /\ before \in [Hart -> Hart \cup {Null}]
    /\ after \in [Hart -> Node]
    /\ \A h \in Hart : /\ pc[h] # "out" => next[h] # Null
                       /\ pc[h] \in {"link", "relink"} => before[h] # Null

\* mcslock_init; the locals are set before they are read.
LockInit ==
    /\ prev = [n \in Node |-> Null]
    /\ next = [n \in Node |-> Null]
    /\ pc = [h \in Hart |-> "out"]
    /\ before = [h \in Hart |-> Null]
    /\ after = [h \in Hart |-> LockTail]

\* Mutant of Acquire: node->next = &lock->tail is left out.
AcquireNoNext(h) ==
    /\ pc[h] = "out"
    /\ prev' = [prev EXCEPT ![LockTail] = h, ![h] = prev[LockTail]]
    /\ before' = [before EXCEPT ![h] = prev[LockTail]]
    /\ pc' = [pc EXCEPT ![h] = IF prev[LockTail] = Null THEN "in" ELSE "link"]
    /\ UNCHANGED <<next, after>>

\* Lines 27 to 31: node->next = &lock->tail and the exchange.  A hart whose
\* timer interrupt is pending (line 25) returns without any change.
Acquire(h) ==
    /\ pc[h] = "out"
    /\ next' = [next EXCEPT ![h] = LockTail]
    /\ prev' = [prev EXCEPT ![LockTail] = h, ![h] = prev[LockTail]]
    /\ before' = [before EXCEPT ![h] = prev[LockTail]]
    /\ pc' = [pc EXCEPT ![h] = IF prev[LockTail] = Null THEN "in" ELSE "link"]
    /\ UNCHANGED after

\* Line 32, with the result of the exchange: node->prev itself may be cleared
\* already, by a predecessor whose old next leads here.
Link(h) ==
    /\ pc[h] = "link"
    /\ next' = [next EXCEPT ![before[h]] = h]
    /\ pc' = [pc EXCEPT ![h] = "wait"]
    /\ UNCHANGED <<prev, before, after>>

\* Line 33: the loop ends when the predecessor has cleared node->prev.
Enter(h) ==
    /\ pc[h] = "wait"
    /\ prev[h] = Null
    /\ pc' = [pc EXCEPT ![h] = "in"]
    /\ UNCHANGED <<prev, next, before, after>>

\* Mutant of Exchange: node->prev is read and not cleared.
ExchangeLoad(h) ==
    /\ before' = [before EXCEPT ![h] = prev[h]]
    /\ pc' = [pc EXCEPT ![h] = "read"]
    /\ UNCHANGED <<prev, next, after>>

\* Line 12.
Exchange(h) ==
    /\ before' = [before EXCEPT ![h] = prev[h]]
    /\ prev' = [prev EXCEPT ![h] = Null]
    /\ pc' = [pc EXCEPT ![h] = "read"]
    /\ UNCHANGED <<next, after>>

\* kernel_lock_release.
Release(h) == pc[h] = "in" /\ Exchange(h)

\* Line 34: the timer interrupt became pending while the hart waited.  Its
\* predecessor may have handed over the lock since line 33.
GiveUp(h) == pc[h] = "wait" /\ Exchange(h)

\* Line 15.
ReadNext(h) ==
    /\ pc[h] = "read"
    /\ after' = [after EXCEPT ![h] = next[h]]
    /\ pc' = [pc EXCEPT ![h] = "unlink"]
    /\ UNCHANGED <<prev, next, before>>

\* Mutant of Unlink: the successor's prev is cleared, not set to prev.
UnlinkClear(h) ==
    /\ pc[h] = "unlink"
    /\ prev[after[h]] = h
    /\ prev' = [prev EXCEPT ![after[h]] = Null]
    /\ pc' = [pc EXCEPT ![h] = IF before[h] = Null THEN "out" ELSE "relink"]
    /\ UNCHANGED <<next, before, after>>

\* Line 16: the compare-exchange succeeds.
Unlink(h) ==
    /\ pc[h] = "unlink"
    /\ prev[after[h]] = h
    /\ prev' = [prev EXCEPT ![after[h]] = before[h]]
    /\ pc' = [pc EXCEPT ![h] = IF before[h] = Null THEN "out" ELSE "relink"]
    /\ UNCHANGED <<next, before, after>>

\* It fails: node->next is out of date, or the successor is leaving as well.
Retry(h) ==
    /\ pc[h] = "unlink"
    /\ prev[after[h]] # h
    /\ pc' = [pc EXCEPT ![h] = "read"]
    /\ UNCHANGED <<prev, next, before, after>>

\* Line 20, by which time prev may have other neighbours.
Relink(h) ==
    /\ pc[h] = "relink"
    /\ next' = [next EXCEPT ![before[h]] = after[h]]
    /\ pc' = [pc EXCEPT ![h] = "out"]
    /\ UNCHANGED <<prev, before, after>>

Proceed(h) == \/ Link(h) \/ Enter(h) \/ Release(h) \/ ReadNext(h)
              \/ Unlink(h) \/ Retry(h) \/ Relink(h)

LockNext == \E h \in Hart : Acquire(h) \/ Proceed(h) \/ GiveUp(h)

LockSpec == LockInit /\ [][LockNext]_lockVars

(***************************************************************************)
(* A hart in the kernel does its next step, interrupts being disabled; its *)
(* critical section is finite; one that waits long enough sees its timer   *)
(* interrupt (sched sets a timeout for every process it starts).  Nobody is*)
(* obliged to ask for the lock.                                            *)
(***************************************************************************)
LockFairness ==
    \A h \in Hart : /\ WF_lockVars(Proceed(h))
                    /\ WF_lockVars(GiveUp(h))

FairLockSpec == LockSpec /\ LockFairness

-----------------------------------------------------------------------------
(***************************************************************************)
(* At most one hart is between kernel_lock_acquire and kernel_lock_release,*)
(* whatever the harts that give up do to the list.                         *)
(***************************************************************************)
MutualExclusion == \A g, h \in Hart : pc[g] = "in" /\ pc[h] = "in" => g = h

(***************************************************************************)
(* Every call returns: a hart that waits gets the lock or gives up, and the*)
(* loop of _release ends.  New calls must cease, since each can make a     *)
(* compare-exchange of _release fail.  API.md:23 promises that a call that *)
(* is preempted is aborted.                                                *)
(***************************************************************************)
CallsReturn ==
    <>[][\A h \in Hart : ~Acquire(h)]_lockVars =>
        \A h \in Hart : pc[h] # "out" ~> pc[h] \in {"in", "out"}

-----------------------------------------------------------------------------
\* The harts that have a place in the queue, and the node in front of a node;
\* a leaving hart has taken it out of prev.
InQueue == {h \in Hart : pc[h] \notin {"out", "relink"}}
Leaving(h) == pc[h] \in {"read", "unlink"}
InFront(n) == IF n \in Hart /\ Leaving(n) THEN before[n] ELSE prev[n]

Line[n \in Node] ==
    IF InFront(n) = Null THEN <<>> ELSE Append(Line[InFront(n)], InFront(n))

Inside == {h \in Hart : pc[h] = "in"}

Queue == INSTANCE LockQueue WITH queue <- Line[LockTail], inside <- Inside

(***************************************************************************)
(* The lock implements LockQueue: harts get it in the order of their       *)
(* exchange on tail.prev, and one that gives up leaves the order of the    *)
(* others alone.                                                           *)
(***************************************************************************)
ServesInOrder == Queue!Spec

(***************************************************************************)
(* Why MutualExclusion holds: a node that is not in the queue has no prev, *)
(* in front of each node of the queue, the tail included, is another one   *)
(* or nobody, and no two nodes have the same in front, so that at most one *)
(* hart has nobody.                                                        *)
(***************************************************************************)
Member == InQueue \cup {LockTail}

QueueOK ==
    /\ \A h \in Hart : pc[h] \notin {"link", "wait"} => prev[h] = Null
    /\ \A n \in Member : InFront(n) \in InQueue \cup {Null}
    /\ \A m, n \in Member : InFront(m) = InFront(n) => m = n
=============================================================================
