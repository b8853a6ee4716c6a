-------------------------------- MODULE Disk --------------------------------
(***************************************************************************)
(* projects/fs/app0/virtio_disk.c and diskio.c: the virtio driver, the     *)
(* FatFs disk layer that calls it sector by sector, and the device at the  *)
(* other end of the rings.  Driver and device run concurrently; everything *)
(* the driver writes before it moves avail->idx is private to it and is    *)
(* one step, every later access to memory the device also uses is a step   *)
(* of its own.  The fences of the code keep these steps in order.          *)
(***************************************************************************)
EXTENDS Naturals, Sequences, FiniteSets, SequencesExt

CONSTANTS
    NUM,        \* descriptors of the queue (virtio.h: 8)
    Wrap,       \* the indices of the rings count modulo Wrap (2^16)
    MaxSector,       \* the disk has the sectors 0 .. MaxSector
    Data,       \* what a sector can hold
    Zero,       \* the contents memset gives a buffer
    Fixed,      \* the sector moved to and from a fixed address (49)
    Faulty,     \* may the device answer a request with an error?
    None

ASSUME DiskAssumption == /\ NUM \in Nat /\ NUM >= 3
                         /\ Wrap \in Nat /\ Wrap % NUM = 0 /\ Wrap > NUM
                         /\ MaxSector \in Nat
                         /\ Zero \in Data
                         /\ Fixed \in 0 .. MaxSector
                         /\ None \notin 0 .. NUM - 1

Sectors == 0 .. MaxSector
Slots == 0 .. NUM - 1
Pending == 255     \* the status byte before the device writes it

VARIABLES
    pc,            \* where the driver is
    initialised, desc, free, usedIdx, info,    \* struct disk, driver's part
    avail, used,   \* the rings, shared with the device
    buf,           \* struct buf of the sector being moved
    window,        \* the memory at the fixed address
    call,          \* the disk_read or disk_write being executed
    store,         \* device: the sectors
    queue          \* device: has it one, how far has it come, what is it doing

driverVars == <<pc, initialised, desc, free, usedIdx, info, call>>
vars == <<pc, initialised, desc, free, usedIdx, info, avail, used, buf, window,
          call, store, queue>>

NoDesc == [kind |-> "none", next |-> None]
ZeroRing == [idx |-> 0, ring |-> [i \in Slots |-> 0]]
NoCall == [op |-> "none", sector |-> 0, left |-> 0, buff |-> <<>>, res |-> "none"]

-----------------------------------------------------------------------------
(* Descriptors.                                                            *)

(* alloc_desc: the first free one, None for -1.                            *)
alloc_desc(f) == IF \E i \in Slots : f[i]
                 THEN CHOOSE i \in Slots : f[i] /\ \A j \in 0 .. i - 1 : ~f[j]
                 ELSE None

(* alloc3_desc: three of them, or None after giving back the ones taken.   *)
alloc3_desc(f) ==
    LET a == alloc_desc(f)
        fa == [f EXCEPT ![a] = FALSE]
        b == alloc_desc(fa)
        fb == [fa EXCEPT ![b] = FALSE]
        c == alloc_desc(fb)
    IN  IF Cardinality({i \in Slots : f[i]}) < 3 THEN None ELSE <<a, b, c>>

(* The descriptors free_chain visits from head: it follows the next field  *)
(* of each one it frees, as long as that has VRING_DESC_F_NEXT.            *)
chain(d, head) ==
    LET second == d[head].next
        third == IF second = None THEN None ELSE d[second].next
    IN  {head, second, third} \ {None}

(* free_chain, with free_desc of each descriptor.                          *)
free_chain(head) ==
    LET ds == chain(desc, head)
    IN  /\ desc' = [i \in Slots |-> IF i \in ds THEN NoDesc ELSE desc[i]]
        /\ free' = [i \in Slots |-> free[i] \/ i \in ds]

-----------------------------------------------------------------------------
(* virtio_disk_init.  It clears both rings but not used_idx.  The device   *)
(* is taken to begin again with an empty queue when it gets the page.      *)

virtio_disk_init ==
    IF ~queue.present
    THEN UNCHANGED <<initialised, desc, free, avail, used, queue>>
    ELSE /\ initialised' = TRUE
         /\ desc' = [i \in Slots |-> NoDesc]
         /\ free' = [i \in Slots |-> TRUE]
         /\ avail' = ZeroRing
         /\ used' = ZeroRing
         /\ queue' = [queue EXCEPT !.taken = 0, !.done = 0, !.head = None,
                                   !.at = "idle", !.notified = FALSE]

disk_initialize ==
    /\ pc = "idle"
    /\ virtio_disk_init
    /\ call' = NoCall
    /\ UNCHANGED <<pc, usedIdx, info, buf, window, store>>

-----------------------------------------------------------------------------
(* disk_read and disk_write: refused before initialisation, otherwise count*)
(* turns of virtio_disk_rw, all of them on the first sector: the loops move*)
(* buff on but not sector.                                                 *)

Refuse(op) ==
    /\ ~initialised
    /\ call' = [NoCall EXCEPT !.op = op, !.res = "RES_NOTRDY"]
    /\ UNCHANGED pc

disk_read(sector, count) ==
    /\ pc = "idle"
    /\ \/ Refuse("read")
       \/ /\ initialised
          /\ call' = [NoCall EXCEPT !.op = "read", !.sector = sector,
                                    !.left = count]
          /\ pc' = "sector"
    /\ UNCHANGED <<initialised, desc, free, usedIdx, info, avail, used, buf,
                   window, store, queue>>

disk_write(sector, data) ==
    /\ pc = "idle"
    /\ \/ Refuse("write")
       \/ /\ initialised
          /\ call' = [NoCall EXCEPT !.op = "write", !.sector = sector,
                          !.left = Len(data), !.buff = data]
          /\ pc' = "sector"
    /\ UNCHANGED <<initialised, desc, free, usedIdx, info, avail, used, buf,
                   window, store, queue>>

(* One turn of the loop: the buffer is cleared or filled, the three        *)
(* descriptors are allocated and formatted, info records the buffer b and  *)
(* the status byte gets a value the device overwrites.                     *)
Formatted(b, status) ==
    /\ pc = "sector"
    /\ alloc3_desc(free) # None
    /\ LET idx == alloc3_desc(free)
           write == call.op = "write"
           output == IF call.sector = Fixed THEN "window" ELSE "buf"
       IN  /\ buf' = [sector |-> call.sector, write |-> write, disk |-> TRUE,
                      head |-> idx[1],
                      data |-> IF write
                               THEN call.buff[Len(call.buff) - call.left + 1]
                               ELSE Zero]
           /\ free' = [i \in Slots |-> free[i] /\ i \notin ToSet(idx)]
           /\ desc' = [desc EXCEPT
                ![idx[1]] = [kind |-> "header", write |-> write,
                             sector |-> call.sector, next |-> idx[2]],
                ![idx[2]] = [kind |-> output, next |-> idx[3]],
                ![idx[3]] = [kind |-> "status", of |-> idx[1], next |-> None]]
           /\ info' = [info EXCEPT ![idx[1]] =
                          [b |-> b, status |-> status]]
    /\ pc' = "ring"
    /\ UNCHANGED <<initialised, usedIdx, avail, used, window, call, store, queue>>

(* Mutants: info does not record the buffer; the status byte is not set.   *)
FormatUnnamed == Formatted(None, Pending)
FormatStale == Formatted("buf", 0)

Format == Formatted("buf", Pending)

(* disk.avail->ring[disk.avail->idx % NUM] = idx[0]                        *)
Ring ==
    /\ pc = "ring"
    /\ avail' = [avail EXCEPT !.ring[avail.idx % NUM] = buf.head]
    /\ pc' = "offer"
    /\ UNCHANGED <<initialised, desc, free, usedIdx, info, used, buf, window,
                   call, store, queue>>

(* disk.avail->idx += 1, a 16-bit number.                                  *)
Offer ==
    /\ pc = "offer"
    /\ avail' = [avail EXCEPT !.idx = (@ + 1) % Wrap]
    /\ pc' = "notify"
    /\ UNCHANGED <<initialised, desc, free, usedIdx, info, used, buf, window,
                   call, store, queue>>

(* Mutant: the device is not notified.                                     *)
NotifyNobody ==
    /\ pc = "notify"
    /\ pc' = "wait"
    /\ UNCHANGED <<initialised, desc, free, usedIdx, info, avail, used, buf,
                   window, call, store, queue>>

(* *R(VIRTIO_MMIO_QUEUE_NOTIFY) = 0                                        *)
Notify ==
    /\ pc = "notify"
    /\ queue' = [queue EXCEPT !.notified = TRUE]
    /\ pc' = "wait"
    /\ UNCHANGED <<initialised, desc, free, usedIdx, info, avail, used, buf,
                   window, call, store>>

(* Mutant: the driver does not wait.                                       *)
WaitNot ==
    /\ pc = "wait"
    /\ pc' = "done"
    /\ UNCHANGED <<initialised, desc, free, usedIdx, info, avail, used, buf,
                   window, call, store, queue>>

(* while(b->disk == 1) virtio_disk_intr()                                  *)
Wait ==
    /\ pc = "wait"
    /\ pc' = IF buf.disk THEN "intr" ELSE "done"
    /\ UNCHANGED <<initialised, desc, free, usedIdx, info, avail, used, buf,
                   window, call, store, queue>>

(* virtio_disk_intr: the test of its loop ...                              *)
Intr ==
    /\ pc = "intr"
    /\ pc' = IF usedIdx # used.idx THEN "entry" ELSE "wait"
    /\ UNCHANGED <<initialised, desc, free, usedIdx, info, avail, used, buf,
                   window, call, store, queue>>

(* ... and its body.  An entry whose status is not zero is left in place   *)
(* and ends the handler.                                                   *)
Entry ==
    /\ pc = "entry"
    /\ LET id == used.ring[usedIdx % NUM]
       IN  IF info[id].status # 0
           THEN pc' = "wait" /\ UNCHANGED <<buf, usedIdx>>
           ELSE /\ buf' = IF info[id].b = "buf" THEN [buf EXCEPT !.disk = FALSE]
                          ELSE buf
                /\ usedIdx' = (usedIdx + 1) % Wrap
                /\ pc' = "intr"
    /\ UNCHANGED <<initialised, desc, free, info, avail, used, window, call,
                   store, queue>>

(* The end of virtio_disk_rw, and what disk_read and disk_write do next:   *)
(* keep what was read and go on to the next turn.                          *)
Finish ==
    /\ pc = "done"
    /\ info' = [info EXCEPT ![buf.head].b = None]
    /\ free_chain(buf.head)
    /\ call' = [call EXCEPT
                 !.buff = IF call.op = "read" THEN Append(@, buf.data) ELSE @,
                 !.left = @ - 1,
                 !.res = IF call.left = 1 THEN "RES_OK" ELSE @]
    /\ pc' = IF call.left = 1 THEN "idle" ELSE "sector"
    /\ UNCHANGED <<initialised, usedIdx, avail, used, buf, window, store, queue>>

-----------------------------------------------------------------------------
(* The device (external): it takes the offered chains in order, moves the  *)
(* data, writes the status byte and publishes the entry in the used ring.  *)

Take ==
    /\ queue.at = "idle"
    /\ queue.notified
    /\ IF queue.taken = avail.idx
       THEN queue' = [queue EXCEPT !.notified = FALSE]
       ELSE queue' = [queue EXCEPT !.taken = (@ + 1) % Wrap, !.at = "taken",
                                   !.head = avail.ring[queue.taken % NUM]]
    /\ UNCHANGED <<avail, used, buf, window, store, info, driverVars>>

Move ==
    /\ queue.at = "taken"
    /\ LET header == desc[queue.head]
           memory == desc[header.next].kind
       IN  IF header.write
           THEN /\ store' = [store EXCEPT ![header.sector] =
                               IF memory = "window" THEN window ELSE buf.data]
                /\ UNCHANGED <<buf, window>>
           ELSE /\ window' = IF memory = "window" THEN store[header.sector]
                             ELSE window
                /\ buf' = IF memory = "buf"
                          THEN [buf EXCEPT !.data = store[header.sector]]
                          ELSE buf
                /\ UNCHANGED store
    /\ queue' = [queue EXCEPT !.at = "moved"]
    /\ UNCHANGED <<avail, used, driverVars>>

Answer(status) ==
    /\ queue' = [queue EXCEPT !.at = "answered"]
    /\ LET last == desc[desc[desc[queue.head].next].next].of
       IN  info' = [info EXCEPT ![last].status = status]
    /\ UNCHANGED <<pc, initialised, desc, free, usedIdx, avail, used, buf,
                   window, call, store>>

Succeed == queue.at = "moved" /\ Answer(0)
Fail == Faulty /\ queue.at = "taken" /\ Answer(1)

Publish ==
    /\ queue.at = "answered"
    /\ used' = [idx |-> (queue.done + 1) % Wrap,
                ring |-> [used.ring EXCEPT ![queue.done % NUM] = queue.head]]
    /\ queue' = [queue EXCEPT !.at = "idle", !.done = (@ + 1) % Wrap,
                              !.head = None]
    /\ UNCHANGED <<avail, buf, window, store, info, driverVars>>

-----------------------------------------------------------------------------

Init ==
    /\ pc = "idle"
    /\ initialised = FALSE
    /\ desc = [i \in Slots |-> NoDesc]
    /\ free = [i \in Slots |-> FALSE]
    /\ usedIdx = 0
    /\ info = [i \in Slots |-> [b |-> None, status |-> 0]]
    /\ avail = ZeroRing
    /\ used = ZeroRing
    /\ buf = [sector |-> 0, write |-> FALSE, disk |-> FALSE, head |-> 0,
              data |-> Zero]
    /\ window = Zero
    /\ call = NoCall
    /\ store = [s \in Sectors |-> Zero]
    /\ queue \in [present : BOOLEAN, taken : {0}, done : {0}, head : {None},
                  at : {"idle"}, notified : {FALSE}]

Rw == Format \/ Ring \/ Offer \/ Notify \/ Wait \/ Intr \/ Entry \/ Finish

Device == Take \/ Move \/ Succeed \/ Fail \/ Publish

Next ==
    \/ disk_initialize
    \/ \E s \in Sectors : \E n \in 1 .. MaxSector + 1 - s : disk_read(s, n)
    \/ \E s \in Sectors : \E n \in 1 .. MaxSector + 1 - s :
           \E data \in [1 .. n -> Data] : disk_write(s, data)
    \/ Rw
    \/ Device

(* The driver spins, and the device works on what it was given.            *)
Spec == Init /\ [][Next]_vars /\ WF_vars(Rw) /\ WF_vars(Device)
=============================================================================
