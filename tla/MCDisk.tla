------------------------------- MODULE MCDisk -------------------------------
(***************************************************************************)
(* A disk of two sectors, the second with the fixed address, a queue of    *)
(* four descriptors and indices that wrap at eight.                        *)
(***************************************************************************)
EXTENDS DiskSafety

MCData == {0, 1}
=============================================================================
