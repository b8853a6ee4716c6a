# S3K in TLA+

This directory is a verification development of the S3K separation kernel
(`src/s3k/kernel`), a small capability kernel for RISC-V that runs on several
harts without a big scheduler: time slots, memory, PMP frames, control over
other processes and IPC channels are all given out as capabilities, which
processes derive, move, delete and revoke.  It also covers the user library
with which programs call the kernel (`src/s3k/common`) and the file system
program (`src/s3k/projects/fs/app0`): a virtio disk driver and FatFs.

The modules model the control of the code: every state change, guard, early
return and lock section of the modelled operations.  Data is abstracted to what
the properties can tell apart: permission bits are sets, a register's contents
are who wrote them, a message is its sender's tag and four words, a sector is
two cells.

## 1. The system

| component | state | operations | properties that make it correct |
|---|---|---|---|
| capability types (`cap_types.h`, `cap_util.c`) | none | constructors, `cap_is_valid`, `cap_is_derivable` | derived capabilities lie in the free part of their source |
| capability table (`cap_table.c`) | `ctable[]`: capability, `next`, `prev` of every entry | `cte_insert`, `cte_move`, `cte_delete` | one circular list of exactly the occupied entries; descendants follow their ancestor |
| capability operations (`cap_ops.c`, `cap_pmp.c`) | the table, and through it slots, PMP registers and channels | move, delete, derive, one revocation step, reset, PMP load and unload | a resource is free in at most one capability; slot table and PMP registers agree with the capabilities; revocation takes the descendants and only them |
| system calls (`syscall.c`) | `regs`, and the lock sections of `sys_cap_revoke` | 24 calls, arguments checked by `validate_arguments` | the above under every interleaving of calls on different harts; a preempted call has done nothing |
| monitor (`cap_monitor.c`) | none of its own | suspend, resume, yield, register access, move and PMP calls on another process | the other process is touched only while it rests suspended |
| processes (`proc.c`) | `state` word (busy, blocked, suspended, channel), `timeout`, PMP registers | acquire (compare-exchange), release, suspend, resume, IPC wait and acquire, `proc_pmp_sync` | one hart runs a process, with that process's PMP registers; a suspended process comes to rest |
| scheduler (`sched.c`) | `slots[hart][slot]` | `sched_update`, `sched_delete`, `sched_fetch` | nobody sees a half-written slot table; some hart serves every slice, one hart claims it |
| scheduler semaphore (`semaphore.h`) | two counters | acquire n, release n | reader/writer exclusion, no starvation |
| kernel lock (`mcslock.c`, `kernel.c`) | a queue of nodes | acquire, try-acquire that gives up on a timer interrupt, release | mutual exclusion, progress |
| IPC (`cap_ipc.c`) | `channels[]`: waiting server and client, receive entry | send, reply, call, replyrecv, `cap_sock_clear` | an answer reaches the client that asked; capabilities do not vanish on the way; nobody waits for an answer that cannot come |
| trap entry and boot (`trap.S`, `head.S`, `kernel.c`) | saved registers, `mscratch`, the hart's PMP registers | save, dispatch, release of the old process, restore | the process that leaves the kernel is the one the hart acquired |
| exceptions (`exception.c`) | virtual exception registers | deliver, return, suspend without handler | none shared between processes |
| user library (`common/src/s3k/s3k.c`) | none | constructors, its own derivability and revokability tests, calls repeated after preemption | its tests agree with the kernel's |
| disk driver (`virtio_disk.c`, `diskio.c`) | `struct disk`: descriptors, rings, `used_idx`, `info` | `disk_initialize`, `disk_read`, `disk_write` by polling | requests are atomic; no descriptor the device holds is touched; every call returns |
| FatFs (`ff.c`) | volume object with its window, file objects, the disk | mount, open, read, write, seek, truncate, sync, close, unlink, rename, mkdir, stat, readdir, free-cluster count | a tree of files; chains, table copies and counters consistent; a power cut costs nobody else's file |

**How they interact.** A trap saves the registers of the current process and
calls a handler.  Handlers of capability, monitor and socket calls take the
kernel lock, so capability operations are serialised; `sys_cap_revoke` alone
releases it between two descendants.  Capability operations call into the
scheduler (`sched_update`, `sched_delete`), into the process table
(`proc_pmp_load`, `proc_pmp_unload`) and into IPC (`cap_sock_clear`): three
caches of what the capabilities say.  The scheduler runs on every hart
*without* the kernel lock: it reads the slot table under one ticket of its
semaphore while writers take all of them, and acquires a process with a
compare-exchange on its state word.  Suspension, resumption and IPC write the
same word under the kernel lock; `trap.S` clears its busy flag outside it.
The file system program runs as a process of its own: FatFs calls the driver
sector by sector, the driver shares descriptors and rings with a device that
works concurrently.

**What is hard.** Interleaved revocations over one shared list; a pointer kept
over an unlock; caches (slot table, PMP registers, channel table) that many
operations must update with the right interval; the state word that several
harts change with and without the lock; a queue lock whose waiters leave in the
middle; calls that are cut off and made again; answers that race with timeouts
and suspensions; interval arithmetic with marks, blocks, tags and NAPOT frames;
descriptors shared with a device; one window and two buffers over one disk, and
power that fails between two sector writes.  `PROJECT.json` lists each hazard at
its line with the properties that cover it.

## 2. The modules

| module | models | properties in | proofs in |
|---|---|---|---|
| `Semaphore` | `kernel/inc/semaphore.h` | itself | `SchedProofs` |
| `Sched`, `SlotTable` | `sched.c` under the semaphore; what the slot table promises | `Sched` | `SchedProofs` |
| `McsLock`, `LockQueue` | `mcslock.c`, the lock of `kernel.c`; a queue whose first hart may go in | `McsLock` | `McsLockProofs` |
| `CapTypes` | `cap_types.h`, `cap_util.c`, `cap_util.h` | | |
| `CapTable` | `cap_table.c` | itself | `CapProofs` |
| `CapOps` | `cap_ops.c`, `cap_pmp.c`, `sched_update`, `sched_delete`, `proc_pmp_*`, `cap_sock_clear` | | |
| `CapSys` | the capability and monitor calls of `syscall.c`, `cap_monitor.c`, boot, and when processes run | `CapSafety` | `CapProofs`, `CapResourceProofs` |
| `Library` | the rules of `common/src/s3k/s3k.c` | `LibrarySafety` | `LibraryProofs` |
| `Proc` | `trap.S`, `proc.c`, the acquisition of `sched.c`, and the calls that change who runs | `IpcSafety` | `IpcProofs` |
| `Ipc` | `cap_ipc.c` on top of `Proc` | `IpcSafety` | `IpcProofs` |
| `Disk`, `AtomicDisk` | `virtio_disk.c`, `diskio.c` and the device; a disk of atomic requests | `DiskSafety` | `DiskProofs` |
| `FatTable` | `ff.c`: the window and the allocation table | `FatSafety` | `FatTableProofs` |
| `FatVolume` | `ff.c` below the API: chains, directories, mounting | | |
| `Fat`, `FileTree` | the API of `ff.c` and the power; a tree of files | `FatSafety` | |
| `MCSched`, `MCMcsLock`, `MCCap`, `MCFamilies`, `MCIpc`, `MCDisk`, `MCFat` | instances for TLC | | |

`CapTypes`, `CapTable`, `CapOps`, `CapSys`, `CapSafety` each extend the one
before: operators on capabilities, links, operations, calls, properties;
`LibrarySafety` brings kernel and library together.
`Sched` extends `Semaphore`, `Ipc` extends `Proc`, `Fat` extends `FatVolume`,
which extends `FatTable`.

**Capabilities.** `cap`, `next` and `prev` are the three fields of
`ctable`; entry `c` belongs to process `c \div CapCnt` as in `cte_pid`.
`slots`, `pmp` and `channels` are the arrays of `sched.c`, of the process
control blocks and of `cap_ipc.c`.  `state[p]` is the state word, as a set of
flags and a channel.  `call[p]` says where in `sys_cap_revoke` process `p` is.
A system call under the kernel lock is one action; `sys_cap_revoke` is one
action per lock section (`sys_cap_revoke`, `RevokeStep`, `RevokeReturn`,
`RevokeToReset`, `RevokeReset`).  A call that would return an error changes
nothing and is not an action.  `Dispatch` is the scheduler's acquisition of a
process, `Preempt` the timer interrupt, which also stands for a call that gives
up because the lock refuses a hart with a pending timer.

**Harts and processes.** In `Proc` a hart is at one of a few places: in the
scheduler, in user mode, inside the lock, on its way out of a handler (`done`),
about to release the process it does not go on with (`drop`), or hung in a
failed assertion.  `cur` is `tp` of `trap.S`, the process whose registers are
saved; `nxt` is `a0`, the one the handler returns; `gone` remembers that the
handler has already released `cur`, and `stray` that some hart has, on its way
out, released such a process once more although another hart had taken it
(`trap.S:87`); both are history and no action reads `stray`.  What a handler does to a state word is one
step, because other harts read and change the word without the lock;
everything else of the handler goes with it.  The program of a process is a set
of calls, made in any order for ever, each again while it reports
`ERR_PREEMPTED`, as the library's loops do.  `pmp[p]` is who set the PMP
registers of the process last, `hartPmp[h]` whose registers, and set by whom,
the hart has in its own.

**Messages.** `Ipc` adds `channels` and the buffers and registers that receive.
A server answers with the tag of the request it received last, so an answer
that reaches the wrong client is seen.

**Scheduler.** In `Semaphore`, `released` and `acquired` are the two counters,
`ticket[h]` and `want[h]` are `my_ticket` and `n` of hart `h`; a hart's way
through is three atomic accesses (`Acquire`, `Enter`, `Release`).  In `Sched`
every read and every write of an entry of `slots` is a step of its own.

**Lock.** In `McsLock` each access to a field that another hart may change
is an action: `Acquire` (lines 27-31, up to the exchange), `Link` (32), `Enter`
and `GiveUp` (33-39), and for `_release` `Exchange` (12), `ReadNext` (15),
`Unlink` or `Retry` (16) and `Relink` (20); `prev` and `next` are the fields of
the nodes, `before` and `after` the locals `prev` and `next`.

**Disk.** What the driver writes before it moves `avail->idx` is private to it
and is one step (`Format`); ring entry, index, notification, the polling loop
and each access of `virtio_disk_intr` are steps, and so are the device's: it
takes a chain, moves the data, answers.  `Fixed` is sector 49, which
`virtio_disk_rw` always moves to and from address 0x80020000.  The device is
external code: it is assumed to restart its queue when it is given the queue's
page again, and to take and answer chains in the order of the rings.

**Files.** FatFs is sequential, so a call is one step, computed by an operator
of the same name over the record of disk, volume object and file object.  Each
`disk_write` appends to `log`; `PowerFails` lets a call stop after any of its
sector writes, `PowerCut` between two calls.  The abstract tree and the positions
that `FileTree` speaks of are the variables `tree` and `files`: they are
recomputed after every step from the disk and from what waits in memory, by
definitions of `FatSafety` that share nothing with the operators of `ff.c`.

**Facts about the build** are constants.  `ErrSigned` says whether the
compiler represents `enum err_t`, which has no negative enumerator, by a signed
type: on RISC-V it is unsigned, and then the -1 that ends the loop of
`sys_cap_revoke` counts as an error.  `LengthRange` is 256: slot lengths are
kept modulo it.  `Wrap` and `NUM` are the range of the ring indices and the
size of the rings.

**Assumptions about the programs.** `Pinned` are entries that processes do not
move, delete or unload.  It contains entry 0, the boot process's PMP frame; the
kernel does not enforce it, but `cte_move` corrupts the links of an entry that is
alone in the list, so some entry has to stay.  In the instances it also contains
the monitor and time capability that process 0 uses to drive process 1, which
keeps the state space to the family of capabilities under test.  The
application of FatFs keeps to what `ffconf.h` asks of it when `FF_FS_LOCK` is 0:
it does not open, remove or rename an object that is open; nor does it move a
directory below itself, which `f_rename` does not notice.

**The stray release.**  A hart that gives up its process inside a handler (a
sync, a yield, a receive) clears the busy flag once more when it comes out of the
kernel (the `amoand` of `trap.S:87`).  If another hart has acquired the process in
between and still has it, that flag is lost, and with it most of what the code
means to ensure: `FindDoubleRelease` shows it.  The model leaves these
interleavings in.  The properties of `Ipc` say what holds up to the first such
release (`~stray`): that nothing else in the code breaks them, and in particular
that taking over a process that was released early is harmless where the first
hart comes out before the other acquires it or after the other has given it up.

## 3. What the runs check

| run | checks | instance | states |
|---|---|---|---|
| `Sched` | `WriterExcludes`, `SlotServed`, `ClaimUnique`, `EveryoneServed`; implements `SlotTable` | 3 harts, 2 slots, 2 updates, 6 tickets in all | 207 000 |
| `McsLock` | type (with it: NULL is never dereferenced), `MutualExclusion`, `QueueOK`; implements `LockQueue` | 3 harts, symmetric | 33 000 |
| `Families` | type and list invariant, slices, slot table and PMP registers against capabilities, one server per channel, what revocations delete, keep and give back, the library against the kernel, `RevokeTerminates` | five initial tables, 2 processes with 6 entries | 88 000 |
| `Ipc` | up to the first stray release: one owner per process, no failed assertion, answers, PMP registers of the harts, waiting processes known, suspension, preemption, capabilities in messages, `SuspendStops`, `ClientReturns` | 2 harts, 3 processes, 2 channels, four images | 195 000 |
| `Disk` | `ChainHeld`, `CompletesOwn`, `CallsReturn`; implements `AtomicDisk` | 2 sectors, 4 descriptors, indices modulo 8, faulty device | 30 000 |
| `Fat` | `VolumeSound`, `ReadsContent`, `FindsNames`, `SurvivesPowerCut`; implements `FileTree` | FAT32 and partitioned FAT16 volumes, 2 file objects, 3 paths | 24 000 |

Six more runs each expect one violation; they are explained below.

**What they show.**  `Sched`: the semaphore makes a table that is rewritten
entry by entry behave as if it changed at once, and of the harts on which a
process owns a slot one goes on to run it.  `Families`: whatever the order of
derivations, moves, deletions and interleaved revocations, resources are neither
copied nor left in a cache.  Revocation deletes descendants only, its target is
not exchanged while the lock is free, and it ends once others stop deriving.
`Ipc`: until a hart releases a process another one has taken, no process is run
twice or lost and no assertion fails, a call that reports
preemption did nothing, a client gets the answer to its own request after any
timeouts and suspensions, and a suspended process stops.  `Disk`: a polling
driver and a device at its own pace implement atomic requests, initialisations
in between included.  `Fat`: every call is one step on a tree of files; after any
sequence of calls the chains are disjoint, closed and of the right length, no
cluster is lost and the copies of the table agree (`VolumeSound`); and a power
failure after any sector write costs at most the object a call was about and
the files that were open and modified.

**Bounds of `Families`.** Each behaviour begins with the table of one family:
the boot frame, what process 0 needs to start process 1, and the capabilities
of one kind, those of memory with PMP frames.  `total` bounds the occupied
entries, `perProc` those of a process.  `FirstFree` lets an operation fill only
the first of the empty entries of a process that are alike, or one that a
revocation still holds: which one it is makes no difference to any operation.
`FamilyView` describes the table by its list from the boot frame on, for the
same reason; it keeps which entries are pinned and which a revocation holds,
and describes a broken list entry by entry.  The tables are large enough for:
slices of slices, a frame loaded in a process that is not the revoker, two
revocations one of which deletes the other's entry, refilling of a deleted entry
while a revocation still points to it, and a monitor that moves capabilities in
and out of a suspended process.  One hart owns the slots; interleaving comes
from the processes that are busy at once, which `sys_mon_yield` allows freely.
Capabilities of different families meet in the list, where a revocation stops at
the first entry of another type.

**Bounds of `Ipc`.** Two harts are a victim and a thief for every race on a
state word; three processes are a starter and a pair, or two clients and a
server.  An image is what was loaded at boot: which processes own time on which
hart, which calls each makes and with which sockets.  The four have the calls
of monitors (suspension, writing registers, PMP registers, yields, faults,
syncs), a client and a server that hand the processor over and exchange
capabilities, the same with the socket of the server revoked, and two clients of
one server that do not yield.  Programs have no order and no end, so nothing
else is bounded; the clock is replaced by deadlines that pass at any time.

**Other bounds.** `MaxAcquired` bounds the semaphore's counter: six tickets are
two full turns of a writer.  `McsLock` needs no bound; three harts are a holder
and two neighbours that leave at once, the least for every pair of steps that
touch the same links.  In `Disk`, four descriptors are one chain and one
more, indices that wrap at twice the ring's size wrap often, and calls move one
or two sectors.  In `Fat`, sectors have two cells and a cell is a byte of a
file, a table entry or a directory entry, so that files cross sectors and
clusters with five cells; reads and writes are of three cells, seeks go to 0 and
past the end; files grow to six cells (`MaxSize`), three calls change something
(`MaxChange`) before the disk is made anew, and the volume is mounted once
(`MaxMount`) and then possibly again from the beginning.  `MAX_FAT16` is 3
clusters, so that five are FAT32.  The volumes are nearly full: most sequences
meet the end of the free clusters.

**Symmetry** is used where it is sound: harts of `McsLock`, file objects of
`Fat`; neither run checks liveness.

**Memory order.** `McsLock` lets all harts see a store at once.  The stores to
`next` are plain ones, and RISC-V may delay them; no property but `CallsReturn`
depends on `next`, in particular no theorem of `McsLockProofs` on mutual
exclusion does.  The driver has fences between its accesses to the rings, which
`Disk` takes as order.

**Deadlock** is not checked in `Sched` (the counter is bounded), `Families` and
`Ipc`: a system whose processes are all suspended, or that has given its time
away, stops.  `McsLock`, `Disk` and `Fat` are checked for it.

**Fairness.**

- `Sched`: a hart in the kernel runs with interrupts disabled, so one that can
  leave the spin loop, do its next access or release does so; beginning to look
  for work or to write is not fair.
- `Families`: a revocation in progress takes its next step (weak fairness of
  `FamilyRevoking(p)`); no fairness of the scheduler, of the timer or of other
  calls.  `RevokeTerminates` assumes that the other processes stop running at
  some point, since they can derive new descendants as fast as one deletes them.
- `Ipc`: a handler comes to its end; a timer interrupt stays pending until
  interrupts are on, so that a hart that is in user mode again and again is
  interrupted (strong fairness); a deadline of a watched process passes; a
  process that can be acquired again and again gets one of its slots, because
  the slot table is cyclic and `sched` visits every slot (strong fairness of
  `Dispatch`).
- `Disk`: the driver spins and the device works on what it was given.
  `CallsReturn` excepts a device that answers with an error, for which the
  driver waits for ever.
- `FairLockSpec`: a hart in the lock does its next step; one that waits for ever
  sees its timer interrupt, since `sched` sets a timeout for every process it
  starts.

**Disagreements with comments, assertions and documentation.** Six runs expect a
violation.

- `FindStaleNext` checks that a system call returns (`API.md:23`: a call that is
  preempted "will be aborted" or retried).  With three harts, of which h1 has the
  lock and h2 and h3 wait: h2 gives up and makes h3 the successor of h1 (line 16);
  before it stores h1's `next` (line 20), h3 gives up too, unlinks itself and sets
  h1's `next` to the tail; then h2's late store makes it h3 again.  h1 repeats its
  compare-exchange on a node that is not in the queue.  Only a hart that queues up
  behind h1 gets it out, by its own line 32.
- `FindDoubleRelease` checks the assertions of `proc.c:56` and `proc.c:77`,
  where `Ipc` checks that they hold up to the first stray release.  A sync, a yield or a receive releases the process in the
  handler; another hart acquires it; then `trap.S:87` clears its busy flag.  The
  process runs on without the flag and its next release fails the assertion, or
  a third hart takes it.
- `FindRun` checks what `diskio.c:63-64` say of `disk_read`: the loop advances the
  buffer and not the sector, so a run of two sectors is the first one twice.
  `disk_write` puts the pieces of a run one over the other.  `Fat` reads and
  writes runs the same way (`ReadFrom`, `WriteWhole`).  The calls it makes are of
  three cells, at most one whole sector, so the trees it goes through are those
  of a correct disk; `ReadsContent` tries reads of every length from every
  position, across clusters too, and leaves out the ones that ask for two
  sectors of a cluster at once (`LongRun`), which come out wrong.
- `FindRestore`, `FindFrames`, `FindSiblings` check what `API.md:179` says of
  `s3k_cap_revoke` ("Recursively deletes the children of the i'th capability,
  then restore the i'th capability to its original state").  With an unsigned
  `err_t`, `sys_cap_revoke` returns before `cap_reset` (`syscall.c:314`), so a mark
  that no deleted descendant handed back stays.  `cap_revoke_memory` compares the
  size of a PMP frame with the address of the slice (`cap_ops.c:133-135`) and
  stops at a frame of a slice that begins above that size; it also takes a
  frame larger than the slice's address for a descendant wherever it lies.  The test of
  `cap_revoke_channel` (`cap_ops.c:172`) has parent and child exchanged, so a
  revocation deletes sibling channel slices.

The properties hold where the tests are right: `DeletesDescendants` is checked
for time, memory, monitor slices and sockets (frames that are taken for children
because of their size are named there, `TakenForChild`),
`RevokeTakesClients` for sockets, `SignedRestores` for monitors under
`ErrSigned`.

Things a first reading of the code shows need no run: the first data
words of a message are copied twice (`syscall.c:488`, `519`); `cap_mk_memory` puts
an address where the mark belongs (`cap_util.c:22`), which the instances choose
to be the same number; `proc_acquire` takes a process that waits on another
channel than 0 before its deadline (`proc.c:46`).  The modules do the same as the
code there.

## 4. What is proved

TLAPS proves for every value of the constants: any number of harts, processes,
entries, slots and descriptors, any platform table, any programs and any
capability that processes may ask for.  The assumptions on the constants are
named in the modules that declare them, and TLC evaluates them on the instances.
Where a theorem needs a hypothesis beyond those, it says so in its ASSUME.

### Locks and scheduler

- `SchedProofs` begins with the semaphore: `SemaphoreTypeCorrect`,
  `SemaphoreTicketsUnique`, `SemaphoreCapacity`, `SemaphoreWriterExcludes`.  Capacity is not inductive; the
  invariant counts: the outstanding tickets are disjoint intervals below
  `acquired`, those above `released` all belong to harts that still spin, and
  `released + |Held| = Tickets + acquired`.  So the harts inside hold at most
  `Tickets` of them, and one that holds that many is alone.
- `McsLockProofs`: `LockTypeCorrect`, `LockQueueCorrect`, `LockMutualExclusion` and
  `LockServesInOrder`.
  A hart has the lock when nobody is in front of it, so the invariant `QueueOK`
  says that no two nodes of the queue, the tail included, have the same in
  front.  What a leaving hart has in front is in its local variable from the
  exchange to the compare-exchange (`InFront`); with that, every access either
  leaves `InFront` alone, adds a node at the tail or takes one out.  That the lock
  implements `LockQueue` rests on one more invariant, that some sequence lists the
  harts of the queue (`Lists`).  The mapping `Line` follows `prev` from the tail by
  recursion; the list gives both a function that satisfies its equation and, by
  the least place where they could differ, its value.
- `SchedProofs` goes on with the slot table: the semaphore keeps its theorems with the scheduler's jobs
  around it (`TableAloneWritten`), and `SlotTableImplemented` shows that the table
  which is written and read entry by entry implements one that is updated and
  looked up at once.  The invariant `SchedInv` ties the job of a hart to its
  phase and says that what a reader has compared so far (`Ahead`) is still so,
  because no writer is inside.  The abstract table is the one there will be when
  the writer inside is through (`Table`), so an update happens when its writer gets
  in; the abstract answer is the one a hart leaves the loops with (`Fetched`).  `SliceIsServed` and `SliceClaimedOnce` hold of every table: the
  hart that goes on is a least one in the order of `Defers`, which exists because
  `<` is well-founded.

### Capabilities

- `CapProofs` begins with the links: each of the three updates keeps a circular
  doubly linked list (`LinkInsertKeepsList`, `LinkMoveKeepsList`,
  `LinkDeleteKeepsList`).  "One cycle" is stated as: a nonempty set of entries
  closed under `next` is all of them, which needs no recursion; a set closed
  under the new `next` is turned into one closed under the old.
- Then `CapTypeCorrect` and `CapListCorrect`.  The list is not inductive
  by itself, for moving the only entry breaks it.  The invariant adds that the
  boot frame is in entry 0 and that no memory capability there is can take it for
  a descendant (`BootFrame`); with it every other entry has a neighbour.  The
  latter needs `BootFrameAssumption`: no memory capability of the platform, and
  none that processes ask for, begins at an address as low as the size of the boot
  frame.  `plat/virt` satisfies it (frame of 64 KiB, lowest capability at
  0x200b000).  `TargetIsStable` is about
  `sys_cap_revoke`, which lets go of the lock between two descendants: the
  capability it works on is not exchanged meanwhile.  The invariant adds that only the
  process itself moves an entry it is busy with.
- `CapResourceProofs` shows that the resources go with the capabilities.
  `RegistersMatchCaps` has an invariant of its own, `PmpInv`.  All else rests on
  `SliceInv`, which describes the derivation tree without recursion.  It gives
  every entry a place in the list.  Of two slices of one resource the later ends
  below the mark of the earlier (`Descending`), or lies inside what it has given
  away (`Nested`), and the clients of a server socket follow it without a gap
  (`Together`).  So the next entry, which is all a revocation looks at, is the
  child given away last.  From it follow `NothingFreeTwice`, `MarksStayInside`,
  `ServerIsUnique`, `ClientsAreTaken`, `OnlyGivenAwayGoes` and, with one
  more invariant (`TimeInv`), `ScheduleFollowsCaps`.

The hypotheses of these theorems, and where they hold:

| hypothesis | says | holds |
|---|---|---|
| `AsBuilt` | the loop of `sys_cap_revoke` ends in an error, as with the unsigned `err_t` of RISC-V, so `cap_reset` is not reached | on every platform |
| `Inside` | the types of slices whose marks are inside the slice at boot, and channels only if no process derives a channel from a channel | time and monitor slices on every platform; not memory, for `cap_mk_memory` stores an address in a mark that counts blocks (`cap_util.c:22`) |
| `WholePeriod` | each hart's period is one time capability at boot | `qemu_virt`, `sifive` |

`NothingFreeTwice`, `ServerIsUnique` and `ClientsAreTaken` need `AsBuilt` only, and
so hold of what processes make of the kernel as it is, subchannels included.
`Inside` is not an assumption: `MarksStayInside`, `OnlyGivenAwayGoes` and
`LibraryForetellsRevoke` speak of each type of slices by itself, of those in
`Inside`.  On the platforms of the repository these are time and monitors; they
say nothing there of the memory below the RAM root, nor of frames, nor of
channels derived from channels, where `FindFrames` and `FindSiblings` show the
tests of `cap_revoke` to be wrong.

### User library

`LibraryProofs` compares the library with the kernel for any capabilities.
`LibraryForetellsDerive` needs the invariant of `CapProofs` only: rule by rule the
two tests of derivability agree, and for frames, where the library takes the size
for the end, it errs on the side of yes.  That rests on what
`s3k_napot_encode` and `pmp_napot_decode` compute: the lowest set bit of a number
divides it and is at most the number, and `FrameIsMeant` shows that decoding an
encoded frame gives its place and its size.  `LibraryForetellsRevoke` is
about what a revocation of a slice or of a server socket deletes, frames
excepted.  The kernel tests one bound of an interval, the
library both; the missing one comes from the place of the slices in the list
(`SliceInv`), the rest from `OnlyGivenAwayGoes`.  Two assumptions are there for the
provers, which know nothing of exponents: `PowersOfTwo` (twice a power of two is
the next one) and `AddressesFit` (frames that processes ask for have addresses of
`AddrBits` bits); TLC evaluates both.

### Processes and IPC

`IpcProofs`, with no assumption on the harts but up to the first stray release:
`OwnerIsOne`, `HangNeedsStray` (the assertions of `proc.c` fail for that one
reason), `RunsWithOwnRegisters`, `AnswerIsOwn`, `WaiterIsKnown`, `SuspensionStays`,
`NothingDoneTwice`, `CapIsKept`.  The inductive invariant has two parts.
`HartInv` says what a hart holds at each place of its way through the kernel: a
process has its busy flag exactly while one hart has it as `cur` and has not
given it up, or has it as `nxt` (`Exclusive`), and a
word that says blocked says nothing else (`WordShape`).  Others may take what a
hart has given up before that hart is out; the one step that then breaks
`Exclusive` is its release, and that is the step that sets `stray`.  `ChanInv` says that
channels know processes in their roles, that a server which waits has no client,
and that the tag a server answers with is its client's (`ServesLast`).  The
programs may be any sets of calls with any sockets; `SocketAssumption` asks for
one server per channel, which `ServerIsUnique` proves of the capabilities.

### Disk driver

`DiskProofs`: `ChainIsHeld`, `CompletionIsOwn`, and that driver, rings and device
implement `AtomicDisk` (`AtomicDiskImplemented`).  In `DiskInv`, how far the
device is follows from the distance of `avail->idx` from what the device has taken
(`Stage`), modulo the range of the indices, which the theorem takes to be any
number above 3.  The request takes place, in `AtomicDisk`, when the device moves
the data; `Request` maps everything before and after to waiting and done.

### Allocation table

`FatTableProofs` is about the operators of `FatTable`, for a disk of any size, any
number of cells to a sector, FAT16 or FAT32, one or two copies of the table.  `GeometryFits`: on a volume whose first sector
`mount_volume` accepts, the table has an entry for every cluster, the table and its
copy lie between that sector and the clusters, and the sectors of the clusters lie
in the volume and apart from each other.  Numbers are unbounded there: that
sector numbers stay within 32 bits is not shown.  The rest is about such a
volume at work.  What
a sector holds (`Held`) is the window if it is the sector in it, the disk
otherwise, and `Table` reads the entries from that.  `WindowTransparent`: moving
the window changes what no sector holds, those of the copy aside, which are never
read.  From it `GetFatReads` and `PutFatWrites` (one entry changes, because
quotient and remainder determine a cluster), `WriteSparesTable` and
`SyncFsWritesAll`.  What is kept is `TableWhole`:

- `Formatted`: the table is laid out and large enough, as `mount_volume` tests;
- `Coherent`: the window is what the disk holds of its sector, or is to be written;
- `CopiesAgree`: the two copies on the disk are the same, also while a sector of
  the table waits in the window;
- `Chained`: links lead to used clusters, no two to the same, and no nonempty set
  of clusters is closed under them, which says without recursion that every chain
  ends;
- `CountExact`: `free_clst`, where it is known, is the number of free clusters.

`FreeOneKeepsWhole`, `CutKeepsWhole` and `TakenKeepsWhole` show that clearing an
entry, ending a chain and taking a cluster keep it.  They ask for what
`remove_chain` and `create_chain` see to: a freed cluster is used and no other
links to it, a taken one is free and goes to the end of a chain.  The first
two also conclude what the next turn of the loop asks for.  `VolumeSound` has
`TableWhole` as a part, so the run `Fat` checks it after every call, from the
volumes it mounts.

### What is only model-checked

- Liveness (`EveryoneServed`, `RevokeTerminates`, `SuspendStops`,
  `ClientReturns`, `CallsReturn` of the driver) and fairness, which the proof
  system does not reach.  The refinements are proved without the fairness of the
  detailed specification.
- FatFs above the allocation table.  Chains, directories and paths are followed by
  recursion, so `VolumeSound`, `ReadsContent`, `FindsNames`, `SurvivesPowerCut` and
  `ImplementsFileTree` are TLC's; the table's part of `VolumeSound` is `TableWhole`,
  which `FatTableProofs` shows each operation on the table to keep.  That
  `remove_chain` as a whole keeps it needs an induction over the turns of its loop.
- `SlicesSound` as a whole and `DeletesDescendants`: of slices whose marks are
  outside at boot (the RAM root of the platforms) their parts are not true, and of
  the others `NothingFreeTwice`, `MarksStayInside`, `OnlyGivenAwayGoes` and
  `LibraryForetellsRevoke` prove them.  The memory root of the instances has its
  mark inside.
- `SignedRestores`, about a build that RISC-V does not give: there `FindRestore`
  is what happens.
- `RevokeRestores`, `RevokeTakesFrames`, `RevokeOnlyDescendants` and `ReadsTheRun`
  are the claims the code does not meet.

## 5. Plan

The plan is done.  Where a next step would pay most: a volume that is used again
after a power cut, with the cluster leaks and the two names for one chain that
FatFs then leaves to a disk checker; and the clock of the scheduler, which would
say how long a process runs.

## Not modelled

- **System calls without state**: `sys_get_info`, `sys_reg_read`, `sys_reg_write`
  of the caller; `cap_read`; `sys_sock_recv` with `cap_sock_recv`, which no process
  can call, as `validate_arguments` has no case for it.
- **Exceptions with a handler**: delivery and the emulated return change
  only virtual registers of the process itself.
- **Boot**: `head.S` (zeroing bss, parking the other harts until the first is
  through).  `kernel_init` gives the initial states.
- **The clock**: `sched` waits for the beginning of the next slot; in `Proc` and
  `Sched` any slot can come next.  How long a process runs is not modelled.
- **The RISC-V memory model**, see "Memory order".
- **FatFs**: the packed table of FAT12; errors of the disk (`FR_DISK_ERR`) and of
  a damaged volume (`FR_INT_ERR`), which the driver never reports and a sound
  volume does not have; limits far above the volumes of the run: the
  wrap-around of a position at 4 GiB (`ff.c:4065`) and `MAX_DIR` (`ff.c:1785`); an
  FSINFO sector that is missing or not signed (`ff.c:3598-3605`), the volumes have
  a valid one; time stamps; GPT; directory objects that
  stay open while the directory changes; a volume used after a power cut without
  being made anew; and what `ffconf.h` leaves out (long names, exFAT, locks,
  volume labels, `f_mkfs`, `f_fdisk`, several volumes).
- **Driver**: `disk_ioctl`, which answers the sector size and nothing else;
  negotiation with the device beyond whether its queue is ready.
- **Other programs**: the example projects make one fixed sequence of calls
  each, which the programs and capabilities of `Ipc` and `CapSys` include; AES is
  a pure computation; `altc`, UART, CSR access and the macros have no shared
  state.
