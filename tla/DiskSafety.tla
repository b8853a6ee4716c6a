----------------------------- MODULE DiskSafety -----------------------------
(***************************************************************************)
(* What the disk driver must keep true, and the atomic disk it implements. *)
(***************************************************************************)
EXTENDS Disk

InRequest == pc \in {"ring", "offer", "notify", "wait", "intr", "entry", "done"}

(* A chain the device has taken and not yet answered is still the whole    *)
(* chain of the request in progress: virtio_disk_rw never frees or reuses  *)
(* a descriptor the device may still follow.                               *)
ChainHeld ==
    queue.at \in {"taken", "moved"} =>
        /\ InRequest
        /\ queue.head = buf.head
        /\ Cardinality(chain(desc, buf.head)) = 3
        /\ \A i \in chain(desc, buf.head) : ~free[i]

(* virtio_disk_intr, whatever the index it starts from after a second      *)
(* initialisation, only ever completes an entry whose info names the       *)
(* buffer being waited for, never the null pointer of a finished one.      *)
CompletesOwn ==
    pc = "entry" /\ info[used.ring[usedIdx % NUM]].status = 0 =>
        info[used.ring[usedIdx % NUM]].b = "buf"

(* What diskio.c:63-64 say of sector and count, "Start sector in LBA" and  *)
(* "Number of sectors to read": that buff gets count successive sectors.   *)
ReadsTheRun ==
    call.op = "read" /\ call.res = "RES_OK" =>
        \A i \in 1 .. Len(call.buff) :
            LET s == call.sector + i - 1
            IN  s # Fixed => call.buff[i] = store[s]

(* Each virtio_disk_rw moves its sector exactly once and returns only      *)
(* after the device moved it: the driver, the rings and the device         *)
(* together implement a disk of atomic requests.                           *)
Request ==
    IF InRequest
    THEN [write |-> buf.write, sector |-> buf.sector, data |-> buf.data,
          done |-> queue.at = "moved" \/ info[buf.head].status = 0]
    ELSE None

\* The absence of a request is not one.
ASSUME NoRequest ==
    None \notin [write : BOOLEAN, sector : Sectors, data : Data, done : BOOLEAN]

Atomic == INSTANCE AtomicDisk WITH contents <- store, request <- Request

ImplementsAtomicDisk == Atomic!Spec

Failed == \E i \in Slots : info[i].status = 1

(* A disk_read or disk_write that was begun, the driver having looked at   *)
(* all the device published, returns, unless the device answers with an    *)
(* error: then virtio_disk_intr leaves the entry where it is and the       *)
(* caller spins for ever.                                                  *)
CallsReturn == pc = "sector" /\ usedIdx = queue.done ~> pc = "idle" \/ Failed
=============================================================================
