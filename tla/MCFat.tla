------------------------------- MODULE MCFat --------------------------------
(***************************************************************************)
(* Volumes of two cells to a sector: FAT32 with two copies of the table    *)
(* and clusters of one sector, the root among them; FAT16 in a partition,  *)
(* with clusters of two sectors and a root area of two.                    *)
(***************************************************************************)
EXTENDS FatSafety, TLC

CONSTANTS One, Two

Pair(a, b) == [i \in Cells |-> IF i = 0 THEN a ELSE b]
A == <<"A">>
B == <<"B">>
C == <<"C">>

(* Five clusters, the root in the second: file A of three cells in 3 and   *)
(* 4, directory B in 5, one cluster free.                                  *)
Boot32 == [kind |-> "boot", rsvd |-> 2, fats |-> 2, fatsz |-> 4, rootent |-> 0,
           secperclus |-> 1, totsec |-> 15, rootclus |-> 2]
Volume32 == [s \in 0 .. 14 |->
    CASE s = 0 -> Boot32
      [] s = 1 -> [free |-> 1, next |-> 5]
      [] s \in {2, 6} -> Pair(EOC, EOC)
      [] s \in {3, 7} -> Pair(EOC, 4)
      [] s \in {4, 8} -> Pair(EOC, EOC)
      [] s = 10 -> Pair(Entry(A, "ARC", 3, 3), Entry(B, "DIR", 5, 0))
      [] s = 11 -> Pair(Two, Two)
      [] s = 12 -> Pair(Two, Zero)
      [] s = 13 -> Pair(Entry(<<".">>, "DIR", 5, 0),
                        Entry(<<".", ".">>, "DIR", 0, 0))
      [] OTHER -> ZeroSector]

(* In a partition from sector 1 on: three clusters of two sectors, a root  *)
(* area of four entries, file A of five cells in 2 and 3, a deleted entry, *)
(* file B read-only, file C empty.                                         *)
Boot16 == [kind |-> "boot", rsvd |-> 1, fats |-> 1, fatsz |-> 3, rootent |-> 4,
           secperclus |-> 2, totsec |-> 12, rootclus |-> 0]
Volume16 == [s \in 0 .. 12 |->
    CASE s = 0 -> [kind |-> "mbr", parts |-> <<0, 1, 0, 0>>]
      [] s = 1 -> Boot16
      [] s = 2 -> Pair(EOC, EOC)
      [] s = 3 -> Pair(3, EOC)
      [] s = 5 -> Pair(Entry(A, "ARC", 2, 5), Deleted)
      [] s = 6 -> Pair(Entry(B, "RDO", 0, 0), Entry(C, "ARC", 0, 0))
      [] s \in {7, 8} -> Pair(Two, Two)
      [] s = 9 -> Pair(Two, Zero)
      [] OTHER -> ZeroSector]

(* A partition whose table is too small for its clusters.                  *)
Unformatted == [Volume16 EXCEPT ![1] = [@ EXCEPT !.fatsz = 2]]

MCVolumes == {Volume32, Volume16, Unformatted}
MCUpper == [c \in {"a", "b", "B"} |-> IF c = "a" THEN "A" ELSE "B"]
MCPaths == {<<<<"a">>>>, <<<<"b">>>>, <<<<"B">>, <<"a">>>>}
MCData == {One, Two}
Symmetry == Permutations(Handles)
=============================================================================
