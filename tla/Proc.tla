------------------------------- MODULE Proc -------------------------------
(***************************************************************************)
(* The harts and the processes they run: kernel/src/trap.S, proc.c, sched.c*)
(* and the calls of syscall.c and cap_monitor.c that change who runs.      *)
(*                                                                         *)
(* A hart goes from the scheduler to user mode and through a handler back. *)
(* What a handler does to a process's state word is a step, because other  *)
(* harts read and change the word without the kernel lock: the scheduler   *)
(* acquires a process with a compare-exchange, and trap.S clears the busy  *)
(* flag of the old process once more after the handler.  Everything else   *)
(* of a handler runs with interrupts off, on data of the process it serves *)
(* or under the lock, and goes with the step that reads or writes the word.*)
(***************************************************************************)
EXTENDS Integers, FiniteSets

CONSTANTS Hart, Process, Chan,
          Images      \* the systems looked at, see image

ASSUME ProcAssumption ==
    /\ 0 \in Process /\ Process \subseteq Nat
    /\ 0 \in Chan /\ Chan \subseteq Nat
    /\ \A i \in Images : i.slices \in [Hart -> SUBSET Process]
                         /\ DOMAIN i.program = Process

NULL == -1

VARIABLES image,     \* what was loaded at boot: slices[h], the processes that own
                     \* time on hart h, and program[p], the calls p makes
          state,     \* proc->state
          timeout,   \* proc->timeout, seen from now
          T0,        \* proc->regs[REG_T0] after a call
          pending,   \* the call in proc->regs that the library is waiting for
          at,        \* where each hart is
          cur,       \* the process it runs or serves, tp in trap.S
          nxt,       \* what the handler returns, a0 in trap.S
          res,       \* the error code before it is stored in T0
          gone,      \* the handler has already given cur up (history)
          stray,     \* a hart has cleared the busy flag of a process that another
                     \* hart had taken (history)
          lock,      \* the hart that has the kernel lock, a set
          pmp,       \* who set proc->pmpcfg and proc->pmpaddr last
          hartPmp    \* the hart's PMP registers: whose, and as set by whom

pmpVars == <<pmp, hartPmp>>
procVars == <<image, state, timeout, T0, pending, at, cur, nxt, res, gone, stray,
              lock, pmpVars>>

NoRegisters == [pid |-> NULL, by |-> "boot"]

Slices == image.slices
Program == image.program

Flag == {"busy", "blocked", "suspended"}
Word == [flags : SUBSET Flag, chan : Chan]

Is(flags, c) == [flags |-> flags, chan |-> c]
Ready == Is({}, 0)
Busy == Is({"busy"}, 0)
Suspended == Is({"suspended"}, 0)
Blocked(c) == Is({"blocked"}, c)

proc_init ==
    /\ state = [p \in Process |-> IF p = 0 THEN Ready ELSE Suspended]
    /\ timeout = [p \in Process |-> "later"]
    /\ T0 = [p \in Process |-> "SUCCESS"]
    /\ pending = [p \in Process |-> {}]
    /\ pmp = [p \in Process |-> "boot"]

ProcInit ==
    /\ image \in Images
    /\ proc_init
    /\ at = [h \in Hart |-> "sched"]
    /\ cur = [h \in Hart |-> NULL]
    /\ nxt = [h \in Hart |-> NULL]
    /\ res = [h \in Hart |-> "SUCCESS"]
    /\ gone = [h \in Hart |-> FALSE]
    /\ stray = FALSE
    /\ lock = {}
    /\ hartPmp = [h \in Hart |-> NoRegisters]

-----------------------------------------------------------------------------
(* proc.c: the state word. *)

\* Mutant of Acquirable: a busy process can be taken.
AcquirableBusy(p) ==
    /\ "suspended" \notin state[p].flags
    /\ state[p] = Blocked(0) => timeout[p] = "passed"

\* Mutant of Acquirable: a suspended process can be taken.
AcquirableSuspended(p) ==
    /\ "busy" \notin state[p].flags
    /\ state[p] = Blocked(0) => timeout[p] = "passed"

\* The word is compared with PSF_BLOCKED alone: a process that waits on another
\* channel than 0 is taken before its time.
Acquirable(p) ==
    /\ state[p].flags \cap {"busy", "suspended"} = {}
    /\ state[p] = Blocked(0) => timeout[p] = "passed"

\* The checks and the compare-exchange that succeeds only on the word they saw.
proc_acquire(p) == Acquirable(p)

\* Mutant of Released: the word is exchanged only if it is still PSF_BUSY.
ReleasedIfBusy(w, p) == IF w[p] = Busy THEN [w EXCEPT ![p] = Ready] ELSE w

\* w with p's busy flag cleared, by proc_release and by trap.S.
Released(w, p) == [w EXCEPT ![p].flags = @ \ {"busy"}]

\* The fetch-or and the store are one step: no hart acquires a process that is
\* suspended, and the other writers of its word hold the kernel lock.
proc_suspend(p) ==
    IF "blocked" \in state[p].flags
    THEN /\ state' = [state EXCEPT ![p] = Suspended]
         /\ T0' = [T0 EXCEPT ![p] = "ERR_SUSPENDED"]
    ELSE /\ state' = [state EXCEPT ![p].flags = @ \cup {"suspended"}]
         /\ UNCHANGED T0

proc_resume(p) ==
    state' = [state EXCEPT ![p].flags = @ \ {"suspended"}]

proc_is_suspended(p) == state[p] = Suspended

-----------------------------------------------------------------------------
(* Moves of one hart. *)
Go(h, where) == at' = [at EXCEPT ![h] = where]

\* Process p runs in user mode on h.  The library's loops call again after
\* ERR_PREEMPTED; any other result they hand to the program, and T0 is free.
Enter(h, p, t0) ==
    /\ Go(h, "user")
    /\ IF t0[p] = "ERR_PREEMPTED" THEN UNCHANGED pending /\ T0' = t0
       ELSE /\ pending' = [pending EXCEPT ![p] = {}]
            /\ T0' = [t0 EXCEPT ![p] = "SUCCESS"]

proc_pmp_sync(h, p) == hartPmp' = [hartPmp EXCEPT ![h] = [pid |-> p, by |-> pmp[p]]]

\* The way out of the kernel with another process than the hart came with.
trap_exit_pmp(h, p) == Enter(h, p, T0) /\ proc_pmp_sync(h, p)

(***************************************************************************)
(* One successful turn of sched(): the slot that begins belongs to p.      *)
(***************************************************************************)
Dispatch(h, p) ==
    /\ at[h] = "sched" /\ p \in Slices[h]
    /\ proc_acquire(p)
    /\ state' = [state EXCEPT ![p] = Busy]
    /\ timeout' = [timeout EXCEPT ![p] = "later"]
    /\ cur' = [cur EXCEPT ![h] = p]
    /\ trap_exit_pmp(h, p)
    /\ UNCHANGED <<nxt, res, gone, lock, pmp>>

(***************************************************************************)
(* The timer interrupt, in user mode (_user_yield) or where the kernel     *)
(* comes and goes with interrupts on (_machine_yield): the process is      *)
(* released and resumes later where it was saved.                          *)
(***************************************************************************)
Timer(h) ==
    /\ at[h] = "user"
    /\ state' = Released(state, cur[h])
    /\ cur' = [cur EXCEPT ![h] = NULL]
    /\ Go(h, "sched")
    /\ UNCHANGED <<timeout, T0, pending, nxt, res, gone, lock, pmpVars>>

\* Mutant of Drop: the process yielded to runs with the registers of the other.
DropNoLoad(h) ==
    /\ at[h] = "drop"
    /\ state' = Released(state, cur[h])
    /\ cur' = [cur EXCEPT ![h] = nxt[h]]
    /\ nxt' = [nxt EXCEPT ![h] = NULL]
    /\ gone' = [gone EXCEPT ![h] = FALSE]
    /\ IF nxt[h] = NULL THEN Go(h, "sched") /\ UNCHANGED <<T0, pending>>
       ELSE Enter(h, nxt[h], T0)
    /\ UNCHANGED <<timeout, res, lock, pmpVars>>

\* After a handler that does not return the process it served: trap.S clears
\* its busy flag, whether or not the handler has done so.
Drop(h) ==
    /\ at[h] = "drop"
    /\ state' = Released(state, cur[h])
    /\ cur' = [cur EXCEPT ![h] = nxt[h]]
    /\ nxt' = [nxt EXCEPT ![h] = NULL]
    /\ gone' = [gone EXCEPT ![h] = FALSE]
    /\ IF nxt[h] = NULL THEN Go(h, "sched") /\ UNCHANGED <<T0, pending, hartPmp>>
       ELSE trap_exit_pmp(h, nxt[h])
    /\ UNCHANGED <<timeout, res, lock, pmp>>

\* A deadline is reached; it means something only to a process that waits.
Elapse(p) ==
    /\ timeout[p] = "later" /\ "blocked" \in state[p].flags
    /\ timeout' = [timeout EXCEPT ![p] = "passed"]
    /\ UNCHANGED <<state, T0, pending, at, cur, nxt, res, gone, lock, pmpVars>>

-----------------------------------------------------------------------------
(* Handlers that take no lock. *)

\* The call p makes next: the library's loop repeats a preempted one.
Calls(p, c) == c \in (IF pending[p] = {} THEN Program[p] ELSE pending[p])

Trapped(h, c) == at[h] = "user" /\ Calls(cur[h], c)

\* Register TPC is 0, the process has no handler and suspends itself.
handle_exception(h) ==
    /\ Trapped(h, [op |-> "fault"])
    /\ proc_suspend(cur[h])
    /\ Go(h, "drop")
    /\ UNCHANGED <<timeout, pending, cur, nxt, res, gone, lock, pmpVars>>

\* KASSERT(proc->state & PSF_BUSY) of proc_release; a failed assertion hangs.
KassertBusy(h, p) == "busy" \in state[p].flags

Hang(h) == Go(h, "hang") /\ UNCHANGED <<state, gone>>

sys_sync_full(h) ==
    LET p == cur[h] IN
    /\ Trapped(h, [op |-> "sync"])
    /\ T0' = [T0 EXCEPT ![p] = "SUCCESS"]
    /\ IF KassertBusy(h, p)
       THEN /\ state' = Released(state, p)
            /\ gone' = [gone EXCEPT ![h] = TRUE]
            /\ Go(h, "drop")
       ELSE Hang(h)
    /\ UNCHANGED <<timeout, pending, cur, nxt, res, lock, pmpVars>>

\* The hart stays with the process.
sys_sync_mem(h) ==
    LET p == cur[h] IN
    /\ Trapped(h, [op |-> "sync_mem"])
    /\ Enter(h, p, [T0 EXCEPT ![p] = "SUCCESS"])
    /\ proc_pmp_sync(h, p)
    /\ UNCHANGED <<state, timeout, cur, nxt, res, gone, lock, pmp>>

-----------------------------------------------------------------------------
(* Handlers under the kernel lock. *)
Locked == {"suspend", "resume", "state_get", "yield", "reg_write", "pmp_load",
           "mon_pmp_load", "send", "sendrecv", "revoke"}

LockFree == lock = {}

\* handle_syscall up to kernel_lock_acquire, which gives up when the timer is
\* pending: then the handler returns NULL.
Syscall(h, c) ==
    LET p == cur[h] IN
    /\ Trapped(h, c) /\ c.op \in Locked
    /\ pending' = [pending EXCEPT ![p] = {c}]
    /\ T0' = [T0 EXCEPT ![p] = "ERR_PREEMPTED"]
    /\ \/ /\ LockFree
          /\ lock' = {h}
          /\ nxt' = [nxt EXCEPT ![h] = p]
          /\ Go(h, "inside")
       \/ Go(h, "drop") /\ UNCHANGED <<lock, nxt>>
    /\ UNCHANGED <<state, timeout, cur, res, gone, pmpVars>>

\* What the hart inside was asked for.
Serves(h, c) == at[h] = "inside" /\ c \in pending[cur[h]]

Result(h, err) == res' = [res EXCEPT ![h] = err] /\ Go(h, "done")

\* The result goes to T0, the lock is released, trap.S compares a0 with tp.  If
\* another hart runs p already, the next trap overwrites what is stored here.
Done(h) ==
    LET p == cur[h]
        t0 == IF \E g \in Hart : at[g] = "user" /\ cur[g] = p THEN T0
              ELSE [T0 EXCEPT ![p] = res[h]]
    IN  /\ at[h] = "done"
        /\ lock' = {}
        /\ IF nxt[h] = p
           THEN Enter(h, p, t0) /\ nxt' = [nxt EXCEPT ![h] = NULL]
           ELSE Go(h, "drop") /\ T0' = t0 /\ UNCHANGED <<pending, nxt>>
        /\ res' = [res EXCEPT ![h] = "SUCCESS"]
        /\ UNCHANGED <<state, timeout, cur, gone, pmpVars>>

\* check_monitor succeeds: the programs' monitor capabilities cover their calls.
cap_monitor_suspend(h, q) ==
    /\ Serves(h, [op |-> "suspend", pid |-> q])
    /\ proc_suspend(q)
    /\ Result(h, "SUCCESS")
    /\ UNCHANGED <<timeout, pending, cur, nxt, gone, lock, pmpVars>>

cap_monitor_resume(h, q) ==
    /\ Serves(h, [op |-> "resume", pid |-> q])
    /\ proc_resume(q)
    /\ Result(h, "SUCCESS")
    /\ UNCHANGED <<timeout, T0, pending, cur, nxt, gone, lock, pmpVars>>

\* The word goes to A0.
cap_monitor_state_get(h, q) ==
    /\ Serves(h, [op |-> "state_get", pid |-> q])
    /\ Result(h, "SUCCESS")
    /\ UNCHANGED <<state, timeout, T0, pending, cur, nxt, gone, lock, pmpVars>>

\* The process yielded to is acquired first, then the monitor released; trap.S
\* releases the monitor again.
cap_monitor_yield(h, q) ==
    LET p == cur[h] IN
    /\ Serves(h, [op |-> "yield", pid |-> q])
    /\ IF ~Acquirable(q)
       THEN Result(h, "ERR") /\ UNCHANGED <<state, nxt, gone>>
       ELSE /\ nxt' = [nxt EXCEPT ![h] = q]
            /\ IF KassertBusy(h, p)
               THEN /\ state' = Released([state EXCEPT ![q] = Busy], p)
                    /\ gone' = [gone EXCEPT ![h] = TRUE]
                    /\ Result(h, "SUCCESS")
               ELSE Hang(h) /\ UNCHANGED res
    /\ UNCHANGED <<timeout, T0, pending, cur, lock, pmpVars>>

\* The calls that touch another process's registers, capabilities or PMP
\* configuration all begin with check_monitor(mon, pid, true).
cap_monitor_reg_write(h, q) ==
    /\ Serves(h, [op |-> "reg_write", pid |-> q])
    /\ Result(h, IF proc_is_suspended(q) THEN "SUCCESS" ELSE "ERR")
    /\ UNCHANGED <<state, timeout, T0, pending, cur, nxt, gone, lock, pmpVars>>

\* There is a frame to load and a register for it (see CapOps).
cap_monitor_pmp_load(h, q) ==
    /\ Serves(h, [op |-> "mon_pmp_load", pid |-> q])
    /\ IF proc_is_suspended(q)
       THEN Result(h, "SUCCESS") /\ pmp' = [pmp EXCEPT ![q] = "monitor"]
       ELSE Result(h, "ERR") /\ UNCHANGED pmp
    /\ UNCHANGED <<state, timeout, T0, pending, cur, nxt, gone, lock, hartPmp>>

\* The hart keeps the registers it has until the process asks for a sync.
sys_pmp_load(h) ==
    /\ Serves(h, [op |-> "pmp_load"])
    /\ pmp' = [pmp EXCEPT ![cur[h]] = "itself"]
    /\ Result(h, "SUCCESS")
    /\ UNCHANGED <<state, timeout, T0, pending, cur, nxt, gone, lock, hartPmp>>

-----------------------------------------------------------------------------
HartNext(h) ==
    \/ \E p \in Process : Dispatch(h, p)
    \/ Timer(h) \/ Drop(h)
    \/ handle_exception(h) \/ sys_sync_full(h) \/ sys_sync_mem(h)
    \/ \E p \in Process : \E c \in Program[p] : Syscall(h, c)
    \/ sys_pmp_load(h) \/ Done(h)
    \/ \E q \in Process :
          \/ cap_monitor_suspend(h, q) \/ cap_monitor_resume(h, q)
          \/ cap_monitor_state_get(h, q) \/ cap_monitor_yield(h, q)
          \/ cap_monitor_reg_write(h, q) \/ cap_monitor_pmp_load(h, q)

\* trap.S releases what the handler has given up already, but it was taken since.
ClearsTaken(h) ==
    at[h] = "drop" /\ at'[h] # "drop" /\ gone[h] /\ "busy" \in state[cur[h]].flags

Watch == stray' = (stray \/ \E h \in Hart : ClearsTaken(h))

ProcNext ==
    /\ \/ \E h \in Hart : HartNext(h)
       \/ \E p \in Process : Elapse(p)
    /\ UNCHANGED image
=============================================================================
