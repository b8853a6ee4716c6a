----------------------------- MODULE MCMcsLock -----------------------------
(***************************************************************************)
(* Instances of the kernel lock for TLC.                                   *)
(***************************************************************************)
EXTENDS McsLock, TLC

CONSTANTS h1, h2, h3

Three == {h1, h2, h3}
Alike == Permutations(Three)

\* Each hart calls the kernel once; next of a node is NULL before that.
OnceEach ==
    \A h \in Hart :
        Acquire(h) => next[h] = Null
=============================================================================
