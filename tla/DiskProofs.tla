----------------------------- MODULE DiskProofs -----------------------------
(***************************************************************************)
(* Proofs about the disk driver, for any number of descriptors, any width  *)
(* of the ring indices and any size of the disk.  All descriptors are free  *)
(* when a request begins, so its chain is always 0, 1, 2: both rings only  *)
(* ever name descriptor 0, and what the device can still have to do        *)
(* follows from the distance of avail->idx from what it has taken (Stage). *)
(***************************************************************************)
EXTENDS DiskSafety, FiniteSetTheorems, TLAPS

-----------------------------------------------------------------------------
(* The inductive invariant. *)

Index == 0 .. Wrap - 1
Rings == [idx : Index, ring : [Slots -> {0}]]

Pcs == {"idle", "sector", "ring", "offer", "notify", "wait", "intr", "entry", "done"}

BufType == [sector : Sectors, write : BOOLEAN, disk : BOOLEAN, head : {0}, data : Data]
QueueType == [present : BOOLEAN, taken : Index, done : Index, head : {0, None},
              at : {"idle", "taken", "moved", "answered"}, notified : BOOLEAN]

DiskTypeOK ==
    /\ pc \in Pcs
    /\ initialised \in BOOLEAN
    /\ desc = [i \in Slots |-> desc[i]]
    /\ free \in [Slots -> BOOLEAN]
    /\ usedIdx \in Index
    /\ info = [i \in Slots |-> info[i]]
    /\ info[0] \in [b : {"buf", None}, status : {0, 1, Pending}]
    /\ avail \in Rings
    /\ used \in Rings
    /\ buf \in BufType
    /\ window \in Data
    /\ store \in [Sectors -> Data]
    /\ queue \in QueueType
    /\ queue.at # "idle" => queue.head = 0

\* What is left of the call in progress.
CallOK ==
    pc # "idle" =>
        /\ call \in [op : {"read", "write"}, sector : Sectors, left : Nat \ {0},
                     buff : Seq(Data), res : {"none", "RES_OK"}]
        /\ call.op = "write" => call.left <= Len(call.buff)

\* The device has nothing to do.
Quiet == queue.taken = avail.idx /\ queue.at \in {"idle", "answered"}

\* How far the device is with the request that was offered to it.
Stage ==
    \/ /\ avail.idx = (queue.taken + 1) % Wrap
       /\ queue.at \in {"idle", "answered"} /\ info[0].status = Pending
    \/ /\ avail.idx = queue.taken
       /\ queue.at \in {"taken", "moved"} /\ queue.head = 0 /\ info[0].status = Pending
    \/ Quiet /\ info[0].status \in {0, 1}

\* The chain of the request in progress.
Chained ==
    /\ desc[0] = [kind |-> "header", write |-> buf.write, sector |-> buf.sector, next |-> 1]
    /\ desc[1] = [kind |-> IF buf.sector = Fixed THEN "window" ELSE "buf", next |-> 2]
    /\ desc[2] = [kind |-> "status", of |-> 0, next |-> None]
    /\ \A i \in Slots : free[i] <=> i \notin {0, 1, 2}

RequestOK ==
    /\ ~InRequest => /\ Quiet
                     /\ initialised => \A i \in Slots : free[i]
    /\ pc # "idle" => initialised
    /\ pc \in {"ring", "offer"} => Quiet /\ info[0].status = Pending
    /\ pc \in {"notify", "wait", "intr", "entry", "done"} => Stage
    /\ InRequest => Chained /\ info[0].b = "buf" /\ (buf.disk \/ info[0].status = 0)
    /\ pc = "done" => ~buf.disk

DiskInv == DiskTypeOK /\ CallOK /\ RequestOK

-----------------------------------------------------------------------------
(* Facts about the operators. *)

LEMMA FirstThree ==
    /\ 0 \in Slots /\ 1 \in Slots /\ 2 \in Slots
    /\ None # 0 /\ None # 1 /\ None # 2
  BY DiskAssumption DEF Slots

\* An index of a ring stays one, and adding one moves it.
LEMMA NextIndex ==
    ASSUME NEW i \in Index
    PROVE  /\ (i + 1) % Wrap \in Index /\ (i + 1) % Wrap # i
           /\ i % NUM \in Slots
  <1>1. Wrap \in Nat /\ NUM \in Nat /\ NUM > 0 /\ Wrap > 3 /\ i \in Nat /\ i < Wrap
    BY DiskAssumption DEF Index
  <1>2. CASE i + 1 < Wrap
    <2>1. (i + 1) % Wrap = i + 1
      BY <1>1, <1>2
    <2> QED BY <1>1, <1>2, <2>1 DEF Index, Slots
  <1>3. CASE i + 1 = Wrap
    <2>1. (i + 1) % Wrap = 0
      BY <1>1, <1>3
    <2> QED BY <1>1, <1>3, <2>1 DEF Index, Slots
  <1> QED
    BY <1>1, <1>2, <1>3

LEMMA FirstFree ==
    ASSUME NEW f, NEW i \in Slots, f[i], \A j \in 0 .. i - 1 : ~f[j]
    PROVE  alloc_desc(f) = i
  <1>1. \A k \in Slots : f[k] /\ (\A j \in 0 .. k - 1 : ~f[j]) => k = i
    BY DEF Slots
  <1> QED
    BY <1>1 DEF alloc_desc

\* With nothing in use the three first descriptors are taken.
LEMMA AllocThree ==
    ASSUME NEW f \in [Slots -> BOOLEAN], \A i \in Slots : f[i]
    PROVE  alloc3_desc(f) = <<0, 1, 2>>
  <1> DEFINE fa == [f EXCEPT ![0] = FALSE]
             fb == [fa EXCEPT ![1] = FALSE]
  <1>1. alloc_desc(f) = 0
    BY FirstThree, FirstFree
  <1>2. alloc_desc(fa) = 1
    <2>1. fa[1] /\ \A j \in 0 .. 1 - 1 : ~fa[j]
      BY FirstThree
    <2> QED BY <2>1, FirstThree, FirstFree
  <1>3. alloc_desc(fb) = 2
    <2>1. fb[2] /\ \A j \in 0 .. 2 - 1 : ~fb[j]
      BY FirstThree
    <2> QED BY <2>1, FirstThree, FirstFree
  <1>4. ~(Cardinality({i \in Slots : f[i]}) < 3)
    <2> DEFINE S == {i \in Slots : f[i]}
    <2>1. S = 0 .. NUM - 1
      BY DEF Slots
    <2> HIDE DEF S
    <2>2. Cardinality(S) = NUM
      BY <2>1, FS_Interval, DiskAssumption
    <2> QED BY <2>2, DiskAssumption DEF S
  <1> QED
    BY <1>1, <1>2, <1>3, <1>4 DEF alloc3_desc

LEMMA ThreeInChain ==
    ASSUME Chained
    PROVE  /\ chain(desc, 0) = {0, 1, 2}
           /\ Cardinality({0, 1, 2}) = 3
  <1>1. desc[0].next = 1 /\ desc[1].next = 2
    BY DEF Chained
  <1>2. chain(desc, 0) = {0, 1, 2}
    BY <1>1, FirstThree DEF chain
  <1>6. Cardinality({0}) = 1 /\ IsFiniteSet({0})
    BY FS_Singleton
  <1>3. Cardinality({0} \cup {1}) = 2 /\ IsFiniteSet({0} \cup {1})
    BY <1>6, FS_AddElement
  <1>4. Cardinality(({0} \cup {1}) \cup {2}) = 3
    BY <1>3, FS_AddElement
  <1>5. ({0} \cup {1}) \cup {2} = {0, 1, 2}
    OBVIOUS
  <1> QED
    BY <1>2, <1>4, <1>5

-----------------------------------------------------------------------------
(* Every step keeps the invariant.  First those of the driver. *)

LEMMA InitDiskInv == Init => DiskInv
  <1> SUFFICES ASSUME Init PROVE DiskInv
    OBVIOUS
  <1>1. 0 \in Index /\ 0 \in Sectors /\ Zero \in Data
    BY DiskAssumption DEF Index, Sectors
  <1>2. DiskTypeOK
    BY <1>1, FirstThree DEF Init, DiskTypeOK, BufType, QueueType, Pcs, ZeroRing, Rings
  <1>3. RequestOK
    BY DEF Init, RequestOK, InRequest, Quiet, ZeroRing
  <1> QED
    BY <1>2, <1>3 DEF DiskInv, CallOK, Init

\* Both rings and the device begin again, used_idx does not.
LEMMA InitializeInv ==
    ASSUME DiskInv, disk_initialize
    PROVE  DiskInv'
  <1> USE DEF DiskInv
  <1>0. 0 \in Index
    BY DiskAssumption DEF Index
  <1>1. pc = "idle" /\ pc' = "idle" /\ UNCHANGED <<usedIdx, info, buf, window, store>>
    BY DEF disk_initialize
  <1>2. CASE ~queue.present
    <2>1. UNCHANGED <<initialised, desc, free, avail, used, queue>>
      BY <1>2 DEF disk_initialize, virtio_disk_init
    <2> QED
      BY <1>1, <2>1 DEF DiskTypeOK, BufType, QueueType, CallOK, RequestOK, InRequest, Quiet
  <1>3. CASE queue.present
    <2>1. /\ desc' = [i \in Slots |-> NoDesc] /\ free' = [i \in Slots |-> TRUE]
          /\ initialised' = TRUE /\ avail' = ZeroRing /\ used' = ZeroRing
          /\ queue' = [queue EXCEPT !.taken = 0, !.done = 0, !.head = None,
                                    !.at = "idle", !.notified = FALSE]
      BY <1>3 DEF disk_initialize, virtio_disk_init
    <2>2. queue' = [present |-> queue.present, taken |-> 0, done |-> 0, head |-> None,
                    at |-> "idle", notified |-> FALSE]
      BY <2>1 DEF DiskTypeOK, BufType, QueueType
    <2>3. DiskTypeOK'
      BY <1>0, <1>1, <2>1, <2>2 DEF DiskTypeOK, BufType, QueueType, ZeroRing, Rings
    <2>4. RequestOK'
      BY <1>1, <2>1, <2>2 DEF RequestOK, InRequest, Quiet, ZeroRing
    <2> QED BY <1>1, <2>3, <2>4 DEF CallOK
  <1> QED
    BY <1>2, <1>3

LEMMA CallInv ==
    ASSUME DiskInv,
           \/ \E s \in Sectors : \E n \in 1 .. MaxSector + 1 - s : disk_read(s, n)
           \/ \E s \in Sectors : \E n \in 1 .. MaxSector + 1 - s :
                 \E data \in [1 .. n -> Data] : disk_write(s, data)
    PROVE  DiskInv'
  <1> USE DEF DiskInv
  <1>1. /\ pc = "idle"
        /\ UNCHANGED <<initialised, desc, free, usedIdx, info, avail, used, buf,
                       window, store, queue>>
    BY DEF disk_read, disk_write
  <1>2. pc' = "idle" \/ (pc' = "sector" /\ initialised)
    BY <1>1 DEF disk_read, disk_write, Refuse
  <1>3. DiskTypeOK' /\ RequestOK'
    BY <1>1, <1>2 DEF DiskTypeOK, BufType, QueueType, Pcs, RequestOK, InRequest, Quiet
  <1>4. ASSUME NEW s \in Sectors, NEW n \in 1 .. MaxSector + 1 - s, disk_read(s, n),
               pc' # "idle"
        PROVE  CallOK'
    <2>1. call' = [NoCall EXCEPT !.op = "read", !.sector = s, !.left = n]
      BY <1>1, <1>4 DEF disk_read, Refuse
    <2>2. call' = [op |-> "read", sector |-> s, left |-> n, buff |-> <<>>, res |-> "none"]
      BY <2>1 DEF NoCall
    <2>3. n \in Nat \ {0}
      BY DiskAssumption DEF Sectors
    <2>4. <<>> \in Seq(Data)
      OBVIOUS
    <2> QED BY <2>2, <2>3, <2>4 DEF CallOK
  <1>5. ASSUME NEW s \in Sectors, NEW n \in 1 .. MaxSector + 1 - s,
               NEW data \in [1 .. n -> Data], disk_write(s, data), pc' # "idle"
        PROVE  CallOK'
    <2>1. call' = [NoCall EXCEPT !.op = "write", !.sector = s, !.left = Len(data), !.buff = data]
      BY <1>1, <1>5 DEF disk_write, Refuse
    <2>3. n \in Nat \ {0}
      BY DiskAssumption DEF Sectors
    <2>4. data \in Seq(Data) /\ Len(data) = n
      BY <2>3
    <2>2. call' = [op |-> "write", sector |-> s, left |-> n, buff |-> data, res |-> "none"]
      BY <2>1, <2>4 DEF NoCall
    <2> QED BY <2>2, <2>3, <2>4 DEF CallOK
  <1> QED
    BY <1>1, <1>3, <1>4, <1>5 DEF CallOK

LEMMA FormatInv ==
    ASSUME DiskInv, Format
    PROVE  DiskInv'
  <1> USE DEF DiskInv
  <1>1. /\ pc = "sector" /\ pc' = "ring"
        /\ UNCHANGED <<initialised, usedIdx, avail, used, window, call, store, queue>>
    BY DEF Format, Formatted
  <1>2. alloc3_desc(free) = <<0, 1, 2>>
    BY <1>1, AllocThree DEF DiskTypeOK, BufType, QueueType, RequestOK, InRequest
  <1> DEFINE write == call.op = "write"
             output == IF call.sector = Fixed THEN "window" ELSE "buf"
             data == IF write THEN call.buff[Len(call.buff) - call.left + 1] ELSE Zero
  <1>3. /\ buf' = [sector |-> call.sector, write |-> write, disk |-> TRUE,
                   head |-> 0, data |-> data]
        /\ free' = [i \in Slots |-> free[i] /\ i \notin ToSet(<<0, 1, 2>>)]
        /\ desc' = [desc EXCEPT
                ![0] = [kind |-> "header", write |-> write, sector |-> call.sector, next |-> 1],
                ![1] = [kind |-> output, next |-> 2],
                ![2] = [kind |-> "status", of |-> 0, next |-> None]]
        /\ info' = [info EXCEPT ![0] = [b |-> "buf", status |-> Pending]]
    BY <1>2 DEF Format, Formatted
  <1>4. write \in BOOLEAN /\ data \in Data /\ call.sector \in Sectors
    <2>1. CASE write
      <3>1. /\ call.buff \in Seq(Data) /\ call.left \in Nat \ {0}
            /\ call.left <= Len(call.buff)
        BY <1>1, <2>1 DEF CallOK
      <3>2. Len(call.buff) - call.left + 1 \in 1 .. Len(call.buff)
        BY <3>1
      <3>3. data \in Data
        BY <2>1, <3>1, <3>2
      <3> QED BY <1>1, <3>3 DEF CallOK
    <2>2. CASE ~write
      BY <1>1, <2>2, DiskAssumption DEF CallOK
    <2> QED BY <2>1, <2>2
  <1> HIDE DEF write, output, data
  <1>5. /\ desc' = [i \in Slots |-> desc'[i]]
        /\ desc'[0] = [kind |-> "header", write |-> write, sector |-> call.sector, next |-> 1]
        /\ desc'[1] = [kind |-> output, next |-> 2]
        /\ desc'[2] = [kind |-> "status", of |-> 0, next |-> None]
    <2> DEFINE d0 == [kind |-> "header", write |-> write, sector |-> call.sector, next |-> 1]
               d1 == [kind |-> output, next |-> 2]
               d2 == [kind |-> "status", of |-> 0, next |-> None]
    <2>1. desc = [i \in Slots |-> desc[i]]
      BY DEF DiskTypeOK, BufType, QueueType
    <2>2. desc' = [desc EXCEPT ![0] = d0, ![1] = d1, ![2] = d2]
      BY <1>3
    <2> HIDE DEF d0, d1, d2
    <2> DEFINE f0 == [desc EXCEPT ![0] = d0]
               f1 == [f0 EXCEPT ![1] = d1]
    <2>4. f0 = [i \in Slots |-> f0[i]] /\ f0[0] = d0
      BY <2>1, FirstThree
    <2>5. desc' = [f1 EXCEPT ![2] = d2]
      BY <2>2
    <2> HIDE DEF f0
    <2>6. f1 = [i \in Slots |-> f1[i]] /\ f1[0] = d0 /\ f1[1] = d1
      BY <2>4, FirstThree
    <2> HIDE DEF f1
    <2>3. /\ desc' = [i \in Slots |-> desc'[i]]
          /\ desc'[0] = d0 /\ desc'[1] = d1 /\ desc'[2] = d2
      BY <2>5, <2>6, FirstThree
    <2> QED BY <2>3 DEF d0, d1, d2
  <1>6. /\ info' = [i \in Slots |-> info'[i]]
        /\ info'[0] = [b |-> "buf", status |-> Pending]
    <2>1. info = [i \in Slots |-> info[i]]
      BY DEF DiskTypeOK, BufType, QueueType
    <2> QED BY <1>3, <2>1, FirstThree
  <1>7. free' \in [Slots -> BOOLEAN] /\ \A i \in Slots : free'[i] <=> i \notin {0, 1, 2}
    <2>1. ToSet(<<0, 1, 2>>) = {0, 1, 2}
      BY DEF ToSet
    <2>2. \A i \in Slots : free[i]
      BY <1>1 DEF RequestOK, InRequest
    <2> QED BY <1>3, <2>1, <2>2
  <1>8. buf'.write = write /\ buf'.sector = call.sector /\ buf'.disk = TRUE
    BY <1>3
  <1>9. DiskTypeOK'
    BY <1>1, <1>3, <1>4, <1>5, <1>6, <1>7 DEF DiskTypeOK, BufType, QueueType, Pcs
  <1>10. Chained'
    BY <1>5, <1>7, <1>8 DEF Chained, output
  <1>11. RequestOK'
    BY <1>1, <1>6, <1>8, <1>10 DEF RequestOK, InRequest, Quiet
  <1> QED
    BY <1>1, <1>9, <1>11 DEF CallOK

LEMMA OfferInv ==
    ASSUME DiskInv, Ring \/ Offer \/ Notify
    PROVE  DiskInv'
  <1> USE DEF DiskInv
  <1>1. /\ UNCHANGED <<initialised, desc, free, usedIdx, info, used, buf, window, call, store>>
        /\ pc \in {"ring", "offer", "notify"} /\ pc' \in {"offer", "notify", "wait"}
    BY DEF Ring, Offer, Notify
  <1>2. CASE Ring
    <2>1. /\ avail' = [avail EXCEPT !.ring[avail.idx % NUM] = buf.head]
          /\ pc = "ring" /\ pc' = "offer" /\ queue' = queue
      BY <1>2 DEF Ring
    <2>2. avail.idx \in Index /\ avail.ring \in [Slots -> {0}] /\ buf.head = 0
      BY DEF DiskTypeOK, BufType, QueueType, Rings
    <2>3. avail' = [idx |-> avail.idx, ring |-> [avail.ring EXCEPT ![avail.idx % NUM] = 0]]
      BY <2>1, <2>2 DEF DiskTypeOK, BufType, QueueType, Rings
    <2>4. avail' \in Rings /\ avail'.idx = avail.idx
      BY <2>2, <2>3, NextIndex DEF Rings
    <2> QED
      BY <1>1, <2>1, <2>4
         DEF DiskTypeOK, BufType, QueueType, Pcs, CallOK, RequestOK, InRequest, Quiet, Chained
  <1>3. CASE Offer
    <2>1. /\ avail' = [avail EXCEPT !.idx = (@ + 1) % Wrap]
          /\ pc = "offer" /\ pc' = "notify" /\ queue' = queue
      BY <1>3 DEF Offer
    <2>2. avail.idx \in Index /\ avail.ring \in [Slots -> {0}]
      BY DEF DiskTypeOK, BufType, QueueType, Rings
    <2>3. avail' = [idx |-> (avail.idx + 1) % Wrap, ring |-> avail.ring]
      BY <2>1, <2>2 DEF DiskTypeOK, BufType, QueueType, Rings
    <2>4. avail' \in Rings /\ avail'.idx = (avail.idx + 1) % Wrap
      BY <2>2, <2>3, NextIndex DEF Rings
    <2>5. Stage'
      BY <1>1, <2>1, <2>4 DEF RequestOK, Quiet, Stage
    <2> QED
      BY <1>1, <2>1, <2>4, <2>5
         DEF DiskTypeOK, BufType, QueueType, Pcs, CallOK, RequestOK, InRequest, Chained
  <1>4. CASE Notify
    <2>1. /\ queue' = [queue EXCEPT !.notified = TRUE]
          /\ pc = "notify" /\ pc' = "wait" /\ avail' = avail
      BY <1>4 DEF Notify
    <2>2. /\ queue'.taken = queue.taken /\ queue'.at = queue.at /\ queue'.head = queue.head
          /\ queue' \in QueueType
      BY <2>1 DEF DiskTypeOK, BufType, QueueType
    <2>3. Stage'
      BY <1>1, <2>1, <2>2 DEF RequestOK, Stage, Quiet
    <2> QED
      BY <1>1, <2>1, <2>2, <2>3
         DEF DiskTypeOK, BufType, QueueType, Pcs, CallOK, RequestOK, InRequest, Chained
  <1> QED
    BY <1>2, <1>3, <1>4

\* The ring has nothing but the head of the one request.
LEMMA OnlyHead ==
    ASSUME DiskInv
    PROVE  used.ring[usedIdx % NUM] = 0 /\ avail.ring[queue.taken % NUM] = 0
  <1>1. usedIdx % NUM \in Slots /\ queue.taken % NUM \in Slots
    BY NextIndex DEF DiskInv, DiskTypeOK, BufType, QueueType
  <1> QED
    BY <1>1 DEF DiskInv, DiskTypeOK, BufType, QueueType, Rings

LEMMA WaitInv ==
    ASSUME DiskInv, Wait \/ Intr \/ Entry
    PROVE  DiskInv'
  <1> USE DEF DiskInv
  <1>1. /\ UNCHANGED <<initialised, desc, free, info, avail, used, window, call, store, queue>>
        /\ pc \in {"wait", "intr", "entry"} /\ pc' \in {"wait", "intr", "entry", "done"}
    BY DEF Wait, Intr, Entry
  <1>2. /\ usedIdx' \in Index
        /\ buf' = buf \/ (info[0].status = 0 /\ buf' = [buf EXCEPT !.disk = FALSE])
        /\ pc' = "done" => buf' = buf /\ ~buf.disk
    BY OnlyHead, NextIndex DEF Wait, Intr, Entry, DiskTypeOK, BufType, QueueType
  <1>3. /\ buf' \in BufType
        /\ buf'.sector = buf.sector /\ buf'.write = buf.write
        /\ buf'.disk \/ info[0].status = 0
    BY <1>1, <1>2 DEF DiskTypeOK, BufType, QueueType, RequestOK, InRequest
  <1>4. DiskTypeOK'
    BY <1>1, <1>2, <1>3 DEF DiskTypeOK, BufType, QueueType, Pcs
  <1>5. Stage' /\ Chained'
    BY <1>1, <1>3 DEF RequestOK, Stage, Quiet, Chained, InRequest
  <1> QED
    BY <1>1, <1>2, <1>3, <1>4, <1>5 DEF CallOK, RequestOK, InRequest

LEMMA FinishInv ==
    ASSUME DiskInv, Finish
    PROVE  DiskInv'
  <1> USE DEF DiskInv
  <1>1. /\ pc = "done" /\ pc' = IF call.left = 1 THEN "idle" ELSE "sector"
        /\ info' = [info EXCEPT ![buf.head] = [info[buf.head] EXCEPT !.b = None]]
        /\ UNCHANGED <<initialised, usedIdx, avail, used, buf, window, store, queue>>
        /\ free_chain(buf.head)
    BY DEF Finish
  <1>2. buf.head = 0 /\ chain(desc, 0) = {0, 1, 2} /\ initialised \in BOOLEAN
    BY <1>1, ThreeInChain DEF DiskTypeOK, BufType, QueueType, RequestOK, InRequest
  <1>3. /\ desc' = [i \in Slots |-> IF i \in {0, 1, 2} THEN NoDesc ELSE desc[i]]
        /\ free' = [i \in Slots |-> free[i] \/ i \in {0, 1, 2}]
    BY <1>1, <1>2 DEF free_chain
  <1>4. CallOK'
    <2> DEFINE buff == IF call.op = "read" THEN Append(call.buff, buf.data) ELSE call.buff
               res == IF call.left = 1 THEN "RES_OK" ELSE call.res
    <2>1. /\ call \in [op : {"read", "write"}, sector : Sectors, left : Nat \ {0},
                       buff : Seq(Data), res : {"none", "RES_OK"}]
          /\ call.op = "write" => call.left <= Len(call.buff)
      BY <1>1 DEF CallOK
    <2>2. call' = [call EXCEPT !.buff = buff, !.left = @ - 1, !.res = res]
      BY DEF Finish
    <2>3. buff \in Seq(Data) /\ (call.op = "write" => buff = call.buff)
      BY <2>1 DEF DiskTypeOK, BufType, QueueType
    <2>4. res \in {"none", "RES_OK"}
      BY <2>1
    <2> HIDE DEF buff, res
    <2>5. call' = [op |-> call.op, sector |-> call.sector, left |-> call.left - 1,
                   buff |-> buff, res |-> res]
      BY <2>1, <2>2
    <2>6. ASSUME call.left # 1 PROVE call.left - 1 \in Nat \ {0}
      BY <2>1, <2>6
    <2>7. call.op = "write" => call.left - 1 <= Len(buff)
      BY <2>1, <2>3
    <2> QED BY <1>1, <2>1, <2>3, <2>4, <2>5, <2>6, <2>7 DEF CallOK
  <1>5. desc' = [i \in Slots |-> desc'[i]] /\ free' \in [Slots -> BOOLEAN]
    BY <1>3 DEF DiskTypeOK, BufType, QueueType
  <1>6. /\ info' = [i \in Slots |-> info'[i]]
        /\ info'[0] \in [b : {"buf", None}, status : {0, 1, Pending}]
    <2>1. /\ info = [i \in Slots |-> info[i]]
          /\ info[0] \in [b : {"buf", None}, status : {0, 1, Pending}]
      BY DEF DiskTypeOK, BufType, QueueType
    <2> DEFINE r == [info[0] EXCEPT !.b = None]
    <2>2. r \in [b : {"buf", None}, status : {0, 1, Pending}]
      BY <2>1
    <2>3. info' = [info EXCEPT ![0] = r]
      BY <1>1, <1>2
    <2> HIDE DEF r
    <2> QED BY <2>1, <2>2, <2>3, FirstThree
  <1>7. DiskTypeOK'
    BY <1>1, <1>5, <1>6 DEF DiskTypeOK, BufType, QueueType, Pcs
  <1>8. Quiet'
    BY <1>1 DEF RequestOK, Stage, Quiet, InRequest, Pending
  <1>9. \A i \in Slots : free'[i]
    BY <1>1, <1>3 DEF RequestOK, Chained, InRequest
  <1>10. initialised
    BY <1>1 DEF RequestOK
  <1>11. RequestOK'
    BY <1>1, <1>8, <1>9, <1>10 DEF RequestOK, InRequest
  <1> QED
    BY <1>4, <1>7, <1>11

-----------------------------------------------------------------------------
(* The steps of the device. *)

LEMMA TakeInv ==
    ASSUME DiskInv, Take
    PROVE  DiskInv'
  <1> USE DEF DiskInv
  <1>1. /\ queue.at = "idle" /\ UNCHANGED <<avail, used, buf, window, store, info, driverVars>>
        /\ queue.taken = avail.idx => queue' = [queue EXCEPT !.notified = FALSE]
        /\ queue.taken # avail.idx => queue' =
              [queue EXCEPT !.taken = (@ + 1) % Wrap, !.at = "taken",
                            !.head = avail.ring[queue.taken % NUM]]
    BY DEF Take
  <1>2. UNCHANGED <<pc, initialised, desc, free, usedIdx, info, call, avail, used, buf,
                    window, store>>
    BY <1>1 DEF driverVars
  <1>3. CASE queue.taken = avail.idx
    <2>1. queue' = [queue EXCEPT !.notified = FALSE]
      BY <1>1, <1>3
    <2>2. /\ queue'.taken = queue.taken /\ queue'.at = queue.at /\ queue'.head = queue.head
          /\ queue' \in QueueType
      BY <2>1 DEF DiskTypeOK, BufType, QueueType
    <2> QED
      BY <1>2, <2>2
         DEF DiskTypeOK, BufType, CallOK, RequestOK, Quiet, InRequest, Stage, Chained, QueueType
  <1>4. CASE queue.taken # avail.idx
    <2>1. queue' = [queue EXCEPT !.taken = (@ + 1) % Wrap, !.at = "taken", !.head = 0]
      BY <1>1, <1>4, OnlyHead
    <2>2. queue' = [present |-> queue.present, taken |-> (queue.taken + 1) % Wrap,
                    done |-> queue.done, head |-> 0, at |-> "taken",
                    notified |-> queue.notified]
      BY <2>1 DEF DiskTypeOK, BufType, QueueType
    <2>3. (queue.taken + 1) % Wrap \in Index
      BY NextIndex DEF DiskTypeOK, BufType, QueueType
    <2>4. DiskTypeOK'
      BY <1>2, <2>2, <2>3 DEF DiskTypeOK, BufType, QueueType
    <2>5. pc \in {"notify", "wait", "intr", "entry", "done"} /\ Stage /\ ~Quiet
      BY <1>4 DEF RequestOK, Quiet, InRequest, DiskTypeOK, BufType, QueueType, Pcs
    <2>6. Stage'
      BY <1>1, <1>2, <2>2, <2>5 DEF Stage
    <2> QED
      BY <1>2, <2>4, <2>5, <2>6 DEF CallOK, RequestOK, InRequest, Chained
  <1> QED
    BY <1>3, <1>4

\* While the device has the chain, the driver waits for it.
LEMMA DeviceBusy ==
    ASSUME DiskInv, queue.at \in {"taken", "moved"}
    PROVE  /\ pc \in {"notify", "wait", "intr", "entry", "done"}
           /\ queue.head = 0 /\ info[0].status = Pending /\ avail.idx = queue.taken
           /\ Chained /\ info[0].b = "buf" /\ buf.disk
  BY
     DEF DiskInv, RequestOK, Stage, Quiet, InRequest, DiskTypeOK, BufType, QueueType, Pcs, Pending

LEMMA MoveInv ==
    ASSUME DiskInv, Move
    PROVE  DiskInv'
  <1> USE DEF DiskInv
  <1> DEFINE s == buf.sector
  <1>1. /\ queue' = [queue EXCEPT !.at = "moved"] /\ queue.at = "taken"
        /\ UNCHANGED <<avail, used, pc, initialised, desc, free, usedIdx, info, call>>
    BY DEF Move, driverVars
  <1>2. /\ queue'.taken = queue.taken /\ queue'.at = "moved" /\ queue'.head = queue.head
        /\ queue' \in QueueType
    BY <1>1 DEF DiskTypeOK, BufType, QueueType
  <1>3. PICK memory \in {"window", "buf"} :
           IF buf.write
           THEN /\ store' = [store EXCEPT ![s] = IF memory = "window" THEN window ELSE buf.data]
                /\ UNCHANGED <<buf, window>>
           ELSE /\ window' = IF memory = "window" THEN store[s] ELSE window
                /\ buf' = IF memory = "buf" THEN [buf EXCEPT !.data = store[s]] ELSE buf
                /\ UNCHANGED store
    BY <1>1, DeviceBusy DEF Move, Chained
  <1>4. /\ window' \in Data /\ store' \in [Sectors -> Data]
        /\ buf' \in BufType
        /\ buf'.sector = s /\ buf'.write = buf.write /\ buf'.disk = buf.disk
    <2>1. /\ buf \in BufType
          /\ store \in [Sectors -> Data] /\ window \in Data
      BY DEF DiskTypeOK, BufType, QueueType
    <2>2. CASE buf.write
      BY <1>3, <2>1, <2>2 DEF BufType
    <2>3. CASE ~buf.write
      BY <1>3, <2>1, <2>3 DEF BufType
    <2> QED BY <2>2, <2>3
  <1>5. DiskTypeOK'
    BY <1>1, <1>2, <1>4 DEF DiskTypeOK, BufType, QueueType
  <1>6. Stage' /\ Chained'
    BY <1>1, <1>2, <1>4, DeviceBusy DEF Stage, Chained
  <1> QED
    BY <1>1, <1>4, <1>5, <1>6, DeviceBusy DEF CallOK, RequestOK, InRequest

LEMMA AnswerIs ==
    ASSUME DiskInv, NEW status \in {0, 1}, queue.at \in {"taken", "moved"}, Answer(status)
    PROVE  /\ info' = [i \in Slots |-> info'[i]]
           /\ info'[0] = [b |-> "buf", status |-> status]
           /\ queue'.taken = queue.taken /\ queue'.at = "answered" /\ queue'.head = queue.head
           /\ queue' \in QueueType
           /\ UNCHANGED <<pc, initialised, desc, free, usedIdx, avail, used, buf,
                          window, call, store>>
  <1>1. queue' = [queue EXCEPT !.at = "answered"]
    BY DEF Answer
  <1>2. desc[desc[desc[queue.head].next].next].of = 0
    BY DeviceBusy DEF Chained
  <1>3. info' = [info EXCEPT ![0] = [info[0] EXCEPT !.status = status]]
    BY <1>2 DEF Answer
  <1>4. [info[0] EXCEPT !.status = status] = [b |-> "buf", status |-> status]
    BY DeviceBusy DEF DiskInv, DiskTypeOK, BufType, QueueType
  <1>5. info = [i \in Slots |-> info[i]]
    BY DEF DiskInv, DiskTypeOK, BufType, QueueType
  <1>6. info' = [i \in Slots |-> info'[i]] /\ info'[0] = [b |-> "buf", status |-> status]
    BY <1>3, <1>4, <1>5, FirstThree
  <1> QED
    BY <1>1, <1>6 DEF Answer, DiskInv, DiskTypeOK, BufType, QueueType

LEMMA AnswerInv ==
    ASSUME DiskInv, Succeed \/ Fail
    PROVE  DiskInv'
  <1> USE DEF DiskInv
  <1>1. PICK status \in {0, 1} : queue.at \in {"taken", "moved"} /\ Answer(status)
    BY DEF Succeed, Fail
  <1>2. /\ info' = [i \in Slots |-> info'[i]]
        /\ info'[0] = [b |-> "buf", status |-> status]
        /\ queue'.taken = queue.taken /\ queue'.at = "answered" /\ queue'.head = queue.head
        /\ queue' \in QueueType
        /\ UNCHANGED <<pc, initialised, desc, free, usedIdx, avail, used, buf,
                       window, call, store>>
    BY <1>1, AnswerIs
  <1>3. info'[0].b = "buf" /\ info'[0].status = status
    BY <1>2
  <1>4. DiskTypeOK'
    BY <1>1, <1>2, DeviceBusy DEF DiskTypeOK, BufType, QueueType
  <1>5. Stage' /\ Chained'
    BY <1>1, <1>2, <1>3, DeviceBusy DEF Stage, Quiet, Chained
  <1> QED
    BY <1>1, <1>2, <1>3, <1>4, <1>5, DeviceBusy DEF CallOK, RequestOK, InRequest

LEMMA PublishInv ==
    ASSUME DiskInv, Publish
    PROVE  DiskInv'
  <1> USE DEF DiskInv
  <1>1. /\ queue.at = "answered"
        /\ queue' = [queue EXCEPT !.at = "idle", !.done = (@ + 1) % Wrap, !.head = None]
        /\ used' = [idx |-> (queue.done + 1) % Wrap,
                    ring |-> [used.ring EXCEPT ![queue.done % NUM] = queue.head]]
        /\ UNCHANGED <<avail, buf, window, store, info, pc, initialised, desc, free,
                       usedIdx, call>>
    BY DEF Publish, driverVars
  <1>2. /\ queue.done \in Index /\ (queue.done + 1) % Wrap \in Index
        /\ queue.head = 0 /\ used.ring \in [Slots -> {0}]
    BY <1>1, NextIndex DEF DiskTypeOK, BufType, QueueType, Rings
  <1>3. used' \in Rings
    BY <1>1, <1>2 DEF Rings
  <1>4. queue' = [present |-> queue.present, taken |-> queue.taken,
                  done |-> (queue.done + 1) % Wrap, head |-> None, at |-> "idle",
                  notified |-> queue.notified]
    BY <1>1 DEF DiskTypeOK, BufType, QueueType
  <1>5. DiskTypeOK'
    BY <1>1, <1>2, <1>3, <1>4 DEF DiskTypeOK, BufType, QueueType
  <1>6. Quiet => Quiet'
    BY <1>1, <1>4 DEF Quiet
  <1>7. Stage => Stage'
    BY <1>1, <1>4, <1>6 DEF Stage
  <1> QED
    BY <1>1, <1>5, <1>6, <1>7 DEF CallOK, RequestOK, InRequest, Chained

LEMMA NextDiskInv == DiskInv /\ [Next]_vars => DiskInv'
  <1> SUFFICES ASSUME DiskInv, [Next]_vars PROVE DiskInv'
    OBVIOUS
  <1>1. CASE UNCHANGED vars
    BY <1>1
       DEF vars, DiskInv, DiskTypeOK, BufType, QueueType, CallOK, RequestOK, InRequest,
           Quiet, Stage, Chained
  <1>2. CASE Rw
    BY <1>2, FormatInv, OfferInv, WaitInv, FinishInv DEF Rw
  <1>3. CASE Device
    BY <1>3, TakeInv, MoveInv, AnswerInv, PublishInv DEF Device
  <1> QED
    BY <1>1, <1>2, <1>3, InitializeInv, CallInv DEF Next

LEMMA AlwaysDiskInv == Spec => []DiskInv
  BY InitDiskInv, NextDiskInv, PTL DEF Spec

-----------------------------------------------------------------------------
(* The theorems. *)

(***************************************************************************)
(* virtio_disk_rw never frees or reuses a descriptor of the chain the      *)
(* device is working on: free_chain runs only after the answer.            *)
(***************************************************************************)
THEOREM ChainIsHeld == Spec => []ChainHeld
  <1>1. DiskInv => ChainHeld
    <2> SUFFICES ASSUME DiskInv, queue.at \in {"taken", "moved"}
                 PROVE  /\ InRequest /\ queue.head = buf.head
                        /\ Cardinality(chain(desc, buf.head)) = 3
                        /\ \A i \in chain(desc, buf.head) : ~free[i]
      BY DEF ChainHeld
    <2>1. buf.head = 0
      BY DEF DiskInv, DiskTypeOK, BufType, QueueType
    <2>2. chain(desc, buf.head) = {0, 1, 2} /\ Cardinality({0, 1, 2}) = 3
      BY <2>1, DeviceBusy, ThreeInChain
    <2>3. \A i \in {0, 1, 2} : ~free[i]
      BY DeviceBusy, FirstThree DEF Chained
    <2> QED BY <2>1, <2>2, <2>3, DeviceBusy DEF InRequest
  <1> QED
    BY <1>1, AlwaysDiskInv, PTL

(***************************************************************************)
(* Whatever used_idx virtio_disk_intr begins with, the entry it completes  *)
(* is that of the request it waits for: with one request at a time every   *)
(* ring entry is descriptor 0.                                             *)
(***************************************************************************)
THEOREM CompletionIsOwn == Spec => []CompletesOwn
  <1>1. DiskInv => CompletesOwn
    BY OnlyHead DEF CompletesOwn, DiskInv, RequestOK, InRequest
  <1> QED
    BY <1>1, AlwaysDiskInv, PTL

-----------------------------------------------------------------------------
(* Step by step, what AtomicDisk does. *)

\* The device has moved the sector of the request in progress.
Done == queue.at = "moved" \/ info[0].status = 0

RequestShape ==
    /\ InRequest => /\ Request = [write |-> buf.write, sector |-> buf.sector,
                                  data |-> buf.data, done |-> Done]
                    /\ Request # None
    /\ ~InRequest => Request = None

LEMMA RequestIs == DiskInv => RequestShape
  <1> SUFFICES ASSUME DiskInv PROVE RequestShape
    OBVIOUS
  <1>1. /\ buf.head = 0 /\ buf.write \in BOOLEAN /\ buf.sector \in Sectors /\ buf.data \in Data
        /\ Done \in BOOLEAN
    BY DEF DiskInv, DiskTypeOK, BufType, QueueType, Done
  <1>2. InRequest => Request = [write |-> buf.write, sector |-> buf.sector,
                                data |-> buf.data, done |-> Done]
    BY <1>1 DEF Request, Done
  <1> QED
    BY <1>1, <1>2, NoRequest DEF Request, RequestShape

LEMMA RequestThen == DiskInv' => RequestShape'
  BY RequestIs, PTL

LEMMA StutterIs ==
    ASSUME DiskInv, DiskInv', InRequest' <=> InRequest,
           buf'.write = buf.write, buf'.sector = buf.sector, buf'.data = buf.data,
           InRequest => (Done' <=> Done), window' = window, store' = store
    PROVE  UNCHANGED <<store, window, Request>>
  <1>1. Done \in BOOLEAN /\ Done' \in BOOLEAN
    BY DEF Done
  <1>2. InRequest => Done' = Done
    BY <1>1
  <1> QED
    BY <1>2, RequestIs, RequestThen DEF RequestShape

LEMMA FormatIsBegin ==
    ASSUME DiskInv, Format
    PROVE  Atomic!Begin
  <1>1. DiskInv'
    BY FormatInv
  <1>2. Request = None /\ queue' = queue /\ store' = store /\ window' = window /\ InRequest'
    BY RequestIs DEF Format, Formatted, InRequest, RequestShape
  <1>3. ~Done'
    BY <1>1, <1>2 DEF Format, Formatted, Done, DiskInv, RequestOK, Quiet, Pending
  <1>4. Done' = FALSE
    BY <1>3
  <1>5. Request' = [write |-> buf'.write, sector |-> buf'.sector, data |-> buf'.data,
                    done |-> FALSE]
    BY <1>1, <1>2, <1>4, RequestThen DEF RequestShape
  <1>6. buf'.write \in BOOLEAN /\ buf'.sector \in Sectors /\ buf'.data \in Data
    BY <1>1 DEF DiskInv, DiskTypeOK, BufType, QueueType
  <1> QED
    BY <1>2, <1>5, <1>6 DEF Atomic!Begin, Atomic!Request

LEMMA MoveIsPerform ==
    ASSUME DiskInv, Move
    PROVE  Atomic!Perform
  <1>1. DiskInv' /\ queue.at = "taken" /\ queue'.at = "moved" /\ info' = info /\ pc' = pc
    BY MoveInv DEF Move, driverVars, DiskInv, DiskTypeOK, BufType, QueueType
  <1>2. InRequest /\ InRequest' /\ info[0].status = Pending
    BY <1>1, DeviceBusy DEF InRequest
  <1>3. Done = FALSE /\ Done' = TRUE
    BY <1>1, <1>2 DEF Done, Pending
  <1>4. /\ Request = [write |-> buf.write, sector |-> buf.sector, data |-> buf.data,
                      done |-> FALSE]
        /\ Request # None
        /\ Request' = [write |-> buf'.write, sector |-> buf'.sector, data |-> buf'.data,
                       done |-> TRUE]
    BY <1>1, <1>2, <1>3, RequestIs, RequestThen DEF RequestShape
  <1>5. /\ Request.write = buf.write /\ Request.sector = buf.sector /\ Request.data = buf.data
        /\ Request.done = FALSE
    BY <1>4
  <1> DEFINE s == buf.sector
             memory == IF s = Fixed THEN "window" ELSE "buf"
  <1>6. /\ IF buf.write
           THEN /\ store' = [store EXCEPT ![s] = IF memory = "window" THEN window ELSE buf.data]
                /\ UNCHANGED <<buf, window>>
           ELSE /\ window' = IF memory = "window" THEN store[s] ELSE window
                /\ buf' = IF memory = "buf" THEN [buf EXCEPT !.data = store[s]] ELSE buf
                /\ UNCHANGED store
    BY <1>1, DeviceBusy DEF Move, Chained
  <1>7. buf \in BufType
    BY DEF DiskInv, DiskTypeOK, BufType, QueueType
  <1>8. CASE buf.write
    <2>1. /\ store' = [store EXCEPT ![s] = IF s = Fixed THEN window ELSE buf.data]
          /\ UNCHANGED <<buf, window>>
      BY <1>6, <1>8
    <2>2. Request' = [Request EXCEPT !.done = TRUE]
      <3> DEFINE r == Request
                 new == Request'
                 w == buf.write
                 d == buf.data
                 yes == TRUE
                 no == FALSE
      <3>1. /\ r = [write |-> w, sector |-> s, data |-> d, done |-> no]
            /\ new = [write |-> w, sector |-> s, data |-> d, done |-> yes]
        BY <1>4, <2>1
      <3> HIDE DEF r, new, w, s, d, yes, no
      <3>2. new = [r EXCEPT !.done = yes]
        BY <3>1
      <3> QED BY <3>2 DEF r, new, yes
    <2> QED BY <1>4, <1>5, <1>8, <2>1, <2>2 DEF Atomic!Perform, Atomic!Source
  <1>9. CASE ~buf.write
    <2>1. /\ window' = IF s = Fixed THEN store[s] ELSE window
          /\ buf' = IF s = Fixed THEN buf ELSE [buf EXCEPT !.data = store[s]]
          /\ store' = store
      BY <1>6, <1>9
    <2>2. /\ buf'.write = buf.write /\ buf'.sector = s
          /\ buf'.data = IF s = Fixed THEN buf.data ELSE store[s]
      BY <1>7, <2>1
    <2>3. Request' = [Request EXCEPT !.done = TRUE,
                                     !.data = IF s = Fixed THEN @ ELSE store[s]]
      <3> DEFINE r == Request
                 new == Request'
                 w == buf.write
                 d == buf.data
                 e == IF s = Fixed THEN Request.data ELSE store[s]
                 yes == TRUE
                 no == FALSE
      <3>1. /\ r = [write |-> w, sector |-> s, data |-> d, done |-> no]
            /\ new = [write |-> w, sector |-> s, data |-> e, done |-> yes]
        BY <1>4, <1>5, <2>2
      <3> HIDE DEF r, new, w, s, d, e, yes, no
      <3> DEFINE q == [r EXCEPT !.done = yes]
      <3>2. q = [write |-> w, sector |-> s, data |-> d, done |-> yes]
        BY <3>1
      <3>3. [r EXCEPT !.done = yes, !.data = e] = [q EXCEPT !.data = e]
        OBVIOUS
      <3> HIDE DEF q
      <3>4. new = [q EXCEPT !.data = e]
        BY <3>1, <3>2
      <3> QED BY <3>3, <3>4 DEF r, new, e, yes
    <2> QED BY <1>4, <1>5, <1>9, <2>1, <2>3 DEF Atomic!Perform
  <1> QED
    BY <1>8, <1>9

LEMMA FinishIsEnd ==
    ASSUME DiskInv, Finish
    PROVE  Atomic!End
  <1>1. DiskInv' /\ InRequest /\ ~InRequest' /\ store' = store /\ window' = window
    BY FinishInv DEF Finish, InRequest
  <1>2. Done = TRUE
    BY <1>1 DEF Done, Finish, DiskInv, RequestOK
  <1>3. /\ Request # None /\ Request' = None
        /\ Request = [write |-> buf.write, sector |-> buf.sector, data |-> buf.data,
                      done |-> TRUE]
    BY <1>1, <1>2, RequestIs, RequestThen DEF RequestShape
  <1>4. Request.done = TRUE
    BY <1>3
  <1> QED
    BY <1>1, <1>3, <1>4 DEF Atomic!End

\* The other steps leave the disk as it is.
LEMMA OthersStutter ==
    ASSUME DiskInv, DiskInv',
           \/ disk_initialize \/ Ring \/ Offer \/ Notify \/ Wait \/ Intr \/ Entry
           \/ Take \/ Succeed \/ Fail \/ Publish
    PROVE  UNCHANGED <<store, window, Request>>
  <1> USE DEF DiskInv
  <1>1. CASE disk_initialize
    <2>1. ~InRequest /\ ~InRequest' /\ buf' = buf /\ window' = window /\ store' = store
      BY <1>1 DEF disk_initialize, InRequest
    <2> QED BY <2>1, StutterIs
  <1>2. CASE Ring \/ Offer \/ Notify
    <2>1. /\ InRequest /\ InRequest' /\ buf' = buf /\ window' = window /\ store' = store
          /\ info' = info /\ queue'.at = queue.at
      BY <1>2 DEF Ring, Offer, Notify, InRequest, DiskTypeOK, BufType, QueueType
    <2> QED BY <2>1, StutterIs DEF Done
  <1>3. CASE Wait \/ Intr \/ Entry
    <2>1. /\ InRequest /\ InRequest' /\ window' = window /\ store' = store
          /\ info' = info /\ queue' = queue
          /\ buf' = buf \/ buf' = [buf EXCEPT !.disk = FALSE]
      BY <1>3 DEF Wait, Intr, Entry, InRequest
    <2>2. buf'.write = buf.write /\ buf'.sector = buf.sector /\ buf'.data = buf.data
      BY <2>1 DEF DiskTypeOK, BufType, QueueType
    <2> QED BY <2>1, <2>2, StutterIs DEF Done
  <1>4. CASE Take \/ Publish
    <2>1. /\ pc' = pc /\ buf' = buf /\ window' = window /\ store' = store /\ info' = info
          /\ queue.at # "moved" /\ queue'.at # "moved"
      BY ZenonT(30), <1>4 DEF Take, Publish, driverVars, DiskTypeOK, BufType, QueueType
    <2> QED BY <2>1, StutterIs DEF Done, InRequest
  <1>5. CASE Succeed
    <2>1. /\ pc' = pc /\ buf' = buf /\ window' = window /\ store' = store
          /\ queue.at = "moved" /\ info'[0] = [b |-> "buf", status |-> 0]
      BY <1>5, AnswerIs DEF Succeed
    <2>2. Done /\ Done'
      BY <2>1 DEF Done
    <2> QED BY <2>1, <2>2, StutterIs DEF InRequest
  <1>6. CASE Fail
    <2>1. /\ pc' = pc /\ buf' = buf /\ window' = window /\ store' = store
          /\ queue.at = "taken" /\ queue'.at = "answered"
          /\ info'[0] = [b |-> "buf", status |-> 1]
          /\ info[0].status = Pending
      BY <1>6, AnswerIs, DeviceBusy DEF Fail
    <2>2. ~Done /\ ~Done'
      BY <2>1 DEF Done, Pending
    <2> QED BY <2>1, <2>2, StutterIs DEF InRequest
  <1> QED
    BY <1>1, <1>2, <1>3, <1>4, <1>5, <1>6

LEMMA StepIsAtomic ==
    DiskInv /\ [Next]_vars => [Atomic!Next]_<<store, window, Request>>
  <1> SUFFICES ASSUME DiskInv, [Next]_vars, DiskInv'
               PROVE  Atomic!Next \/ UNCHANGED <<store, window, Request>>
    BY NextDiskInv
  <1>1. CASE UNCHANGED vars
    BY <1>1, StutterIs DEF vars, InRequest, Done
  <1>2. CASE Rw
    BY <1>2, FormatIsBegin, FinishIsEnd, OthersStutter DEF Rw, Atomic!Next
  <1>3. CASE Device
    BY <1>3, MoveIsPerform, OthersStutter DEF Device, Atomic!Next
  <1>4. CASE \/ \E s \in Sectors : \E n \in 1 .. MaxSector + 1 - s : disk_read(s, n)
             \/ \E s \in Sectors : \E n \in 1 .. MaxSector + 1 - s :
                   \E data \in [1 .. n -> Data] : disk_write(s, data)
    <2>1. /\ ~InRequest /\ ~InRequest'
          /\ buf' = buf /\ window' = window /\ store' = store
      BY <1>4 DEF disk_read, disk_write, Refuse, InRequest
    <2> QED BY <2>1, StutterIs
  <1> QED
    BY <1>1, <1>2, <1>3, <1>4, OthersStutter DEF Next

LEMMA InitIsAtomic == Init => Atomic!Init
  BY DiskAssumption DEF Init, Atomic!Init, Request, InRequest

(***************************************************************************)
(* Driver, rings and device implement the disk of atomic requests: a turn  *)
(* of virtio_disk_rw moves its sector once and returns only afterwards,    *)
(* also when the answer of an earlier request is published only during it  *)
(* or the disk was initialised again.                                      *)
(***************************************************************************)
THEOREM AtomicDiskImplemented == Spec => ImplementsAtomicDisk
  BY InitIsAtomic, StepIsAtomic, AlwaysDiskInv, PTL
     DEF Spec, ImplementsAtomicDisk, Atomic!Spec
=============================================================================
