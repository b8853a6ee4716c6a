----------------------------- MODULE LockQueue -----------------------------
(***************************************************************************)
(* What the kernel lock promises to its callers: harts stand in a queue,   *)
(* only the first one may go in, and a hart may leave the queue from any   *)
(* place, because it is done or because its timer interrupt is pending.    *)
(***************************************************************************)
EXTENDS Sequences, SequencesExt

CONSTANT Hart

VARIABLES queue,   \* the harts that want the lock, the first one has it
          inside   \* the harts between kernel_lock_acquire and _release

vars == <<queue, inside>>

Queued(h) == \E i \in DOMAIN queue : queue[i] = h

Init == queue = <<>> /\ inside = {}

Join(h) == /\ ~Queued(h)
           /\ queue' = Append(queue, h)
           /\ UNCHANGED inside

\* Nobody else is in the queue: the call returns with the lock at once.
JoinFree(h) == /\ queue = <<>>
               /\ queue' = <<h>>
               /\ inside' = {h}

Enter(h) == /\ queue # <<>>
            /\ h = Head(queue)
            /\ h \notin inside
            /\ inside' = inside \cup {h}
            /\ UNCHANGED queue

Exit(h) == /\ h \in inside
           /\ inside' = inside \ {h}
           /\ UNCHANGED queue

Leave(h) == /\ h \notin inside
            /\ \E i \in DOMAIN queue : queue[i] = h /\ queue' = RemoveAt(queue, i)
            /\ UNCHANGED inside

Next == \E h \in Hart :
           Join(h) \/ JoinFree(h) \/ Enter(h) \/ Exit(h) \/ Leave(h)

Spec == Init /\ [][Next]_vars
=============================================================================
