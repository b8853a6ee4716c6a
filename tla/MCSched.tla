------------------------------ MODULE MCSched ------------------------------
(***************************************************************************)
(* Three harts and two slots.  Process 0 has every slot at boot; slices of *)
(* different length for process 1 appear on different harts.               *)
(***************************************************************************)
EXTENDS Sched

Update(p, h, f, e) == [pid |-> p, hart |-> h, from |-> f, to |-> e, end |-> e]

McHart == MinHart .. MaxHart
McUpdates == {Update(1, 0, 0, 1), Update(1, 1, 0, 2)}
=============================================================================
