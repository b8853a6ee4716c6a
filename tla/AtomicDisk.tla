----------------------------- MODULE AtomicDisk -----------------------------
(***************************************************************************)
(* What the disk driver of projects/fs/app0 promises the layers above it:  *)
(* one request at a time, carried out once, and ended only after it was    *)
(* carried out.  One sector, Fixed, is moved to and from a fixed memory    *)
(* area instead of the caller's buffer (virtio_disk.c:264-267).            *)
(***************************************************************************)
CONSTANTS Sectors, Data, Zero, Fixed, None

VARIABLES contents,   \* the disk: Sectors -> Data
          window,     \* the fixed memory area
          request     \* None, or the request in progress

Request == [write : BOOLEAN, sector : Sectors, data : Data, done : BOOLEAN]

Init == /\ contents \in [Sectors -> Data]
        /\ window \in Data
        /\ request = None

Begin == /\ request = None
         /\ request' \in {r \in Request : ~r.done}
         /\ UNCHANGED <<contents, window>>

(* The memory the request moves its data from or to.                       *)
Source(r) == IF r.sector = Fixed THEN window ELSE r.data

Perform ==
    /\ request # None
    /\ ~request.done
    /\ LET s == request.sector
       IN  IF request.write
           THEN /\ contents' = [contents EXCEPT ![s] = Source(request)]
                /\ request' = [request EXCEPT !.done = TRUE]
                /\ UNCHANGED window
           ELSE /\ window' = IF s = Fixed THEN contents[s] ELSE window
                /\ request' = [request EXCEPT !.done = TRUE,
                                 !.data = IF s = Fixed THEN @ ELSE contents[s]]
                /\ UNCHANGED contents

End == /\ request # None
       /\ request.done
       /\ request' = None
       /\ UNCHANGED <<contents, window>>

Next == Begin \/ Perform \/ End

Spec == Init /\ [][Next]_<<contents, window, request>>
=============================================================================
