---------------------------- MODULE MCFamilies ----------------------------
(***************************************************************************)
(* The families of capabilities one after the other: each behaviour starts *)
(* from the table of one family, deep enough for that family's hard cases. *)
(* Monitor capabilities are looked at on a compiler that makes err_t       *)
(* signed, so that cap_reset is reached; the others as the RISC-V ABI has  *)
(* it.                                                                     *)
(***************************************************************************)
EXTENDS MCCap

VARIABLE family

\* init, new: the tables of MCCap; perProc and total bound the entries in use.
Family ==
    [time |-> [init |-> TimeInit, new |-> TimeCaps, pinned |-> {0, 2},
               signed |-> FALSE, perProc |-> 4, total |-> 5],
     memory |-> [init |-> MemInit, new |-> MemCaps, pinned |-> {0, 2, 3},
                 signed |-> FALSE, perProc |-> 5, total |-> 6],
     tree |-> [init |-> TreeInit, new |-> TreeCaps, pinned |-> {0, 2},
               signed |-> FALSE, perProc |-> 6, total |-> 6],
     monitor |-> [init |-> MonInit, new |-> MonCaps, pinned |-> {0, 2},
                  signed |-> TRUE, perProc |-> 5, total |-> 5],
     socket |-> [init |-> ChanInit, new |-> SockCaps, pinned |-> {0, 2, 3},
                 signed |-> FALSE, perProc |-> 5, total |-> 7]]

System(f) == INSTANCE CapSys WITH
    InitCaps <- Family[f].init, NewCaps <- Family[f].new,
    Pinned <- Family[f].pinned, ErrSigned <- Family[f].signed

FamilyInit == \E f \in DOMAIN Family : family = f /\ System(f)!Init
FamilyNext == \E f \in DOMAIN Family :
                  family = f /\ System(f)!Next /\ UNCHANGED family
FamilyRevoking(p) == \E f \in DOMAIN Family : family = f /\ System(f)!Revoking(p)

\* A hart in the kernel keeps running until the system call returns.
FamilySpec ==
    /\ FamilyInit
    /\ [][FamilyNext]_<<vars, family>>
    /\ \A p \in Pid : WF_vars(FamilyRevoking(p))

FamilyView == <<family, ViewWith(Family[family].pinned)>>

FamilyBounded ==
    LET f == Family[family] IN
    /\ Cardinality(Occupied') <= f.total
    /\ \A p \in Pid : Cardinality(Occupied' \cap CteOf(p)) <= f.perProc
    /\ FirstFree

(***************************************************************************)
(* Where the compiler makes err_t signed, a revocation that runs to its end*)
(* gives a slice everything back (RevokeRestores, see CapSafety).          *)
(***************************************************************************)
SignedRestores ==
    [][Family[family].signed => Restores]_<<vars, family>>

=============================================================================
