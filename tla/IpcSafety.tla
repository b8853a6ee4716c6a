----------------------------- MODULE IpcSafety -----------------------------
(***************************************************************************)
(* What the state words, the trap code and the channels achieve together,  *)
(* until for the first time a hart releases a process that another one has *)
(* taken since: what follows such a release is not spoken of.              *)
(***************************************************************************)
EXTENDS Ipc

\* The processes hart h may run or write to: the one it came with until the
\* handler gives it up, and the one it goes on with.
Owned(h) ==
    {p \in Process : (cur[h] = p /\ at[h] # "sched" /\ ~gone[h]) \/ nxt[h] = p}

(***************************************************************************)
(* A process is busy exactly while one hart has it, and never in the hands *)
(* of two.  (Busy without a hart, it would never run again.)  It is lost in*)
(* one way only: released early, by a full sync, a yield or a receive, and *)
(* taken over by another hart, it is released once more when the first hart*)
(* comes out of the kernel (trap.S:87), which stray records.               *)
(***************************************************************************)
OneOwner ==
    ~stray => \A p \in Process :
                 Cardinality({h \in Hart : p \in Owned(h)}) =
                     IF "busy" \in state[p].flags THEN 1 ELSE 0

(***************************************************************************)
(* The assertions of proc_release (proc.c:56) and proc_ipc_wait (proc.c:77)*)
(* hold: no hart hangs.                                                    *)
(***************************************************************************)
AssertHolds == \A h \in Hart : at[h] # "hang"

(***************************************************************************)
(* They fail for one reason only: a process was released that another hart *)
(* had taken.                                                              *)
(***************************************************************************)
StrayBeforeHang == ~stray => AssertHolds

(***************************************************************************)
(* Only a monitor's resume ends a suspension, whatever the process and the *)
(* harts that run it, send to it or release it did to the word meanwhile.  *)
(***************************************************************************)
StaysSuspended ==
    [][~stray => \A p \in Process :
          "suspended" \in state[p].flags /\ "suspended" \notin state'[p].flags
             => \E h \in Hart : cap_monitor_resume(h, p)]_vars

(***************************************************************************)
(* A call that reports ERR_PREEMPTED has done nothing, as the library makes*)
(* it once more: otherwise a message would be sent, or a capability moved, *)
(* twice, or the one that waited be forgotten.                             *)
(***************************************************************************)
PreemptedDidNothing ==
    [][~stray => \A h \in Hart :
          (at[h] = "inside" /\ at'[h] = "done" /\ res'[h] = "ERR_PREEMPTED")
             => UNCHANGED <<state, timeout, T0, pmp, ipcVars>>]_vars

(***************************************************************************)
(* What a client receives is the answer to its own request, even after     *)
(* timeouts, suspensions and calls of other clients in between.            *)
(***************************************************************************)
AnswersOwnRequest ==
    \A p \in DOMAIN Socket :
        ~IsServer(p) /\ msg[p] # NoMsg => msg[p].data[1] = Tag(p)

(***************************************************************************)
(* A process that waits without a deadline can be reached: its channel     *)
(* knows it, in its role, unless its socket or the server's was revoked.   *)
(***************************************************************************)
WaiterKnown ==
    \A p \in DOMAIN Socket :
        LET c == Socket[p].chan IN
        /\ state[p] = Blocked(c) /\ timeout[p] = "never"
        /\ \A q \in DOMAIN Socket : q \in sock \/ (q # p /\ ~IsServer(q))
        => channels[c][Role(p)] = p

(***************************************************************************)
(* A capability leaves a client's buffer only into another buffer: a call  *)
(* that finds no receiver, or no room, does not lose it.  (A server's does *)
(* get lost with the answer to a client that has gone.)                    *)
(***************************************************************************)
ClientKeepsCap ==
    [][~stray => \A p \in DOMAIN Socket :
          ~IsServer(p) /\ buf[p] # NULL /\ buf'[p] # buf[p] =>
             \E q \in Process : buf'[q] = buf[p]]_vars

(***************************************************************************)
(* A process never runs with the PMP registers of another, nor with those  *)
(* it had before a monitor changed them, although a hart that stays with   *)
(* its process does not load them again.  (What the process loads itself   *)
(* takes effect when it asks for a sync, or when a hart takes it anew.)    *)
(***************************************************************************)
OwnRegisters ==
    \A h \in Hart : at[h] = "user" =>
        /\ hartPmp[h].pid = cur[h]
        /\ pmp[cur[h]] = "monitor" => hartPmp[h].by = "monitor"

-----------------------------------------------------------------------------
CONSTANT Watched   \* the processes that liveness is asked of

(***************************************************************************)
(* The timer interrupt of a hart stays pending until interrupts are on, a  *)
(* handler comes to its end, time goes on, and a process that can be       *)
(* acquired again and again gets one of its slots, as the slot table is    *)
(* cyclic.                                                                 *)
(***************************************************************************)
Leaves(h) == Drop(h) \/ Done(h) \/ (at[h] = "inside" /\ HartNext(h))

Alone(A) == A /\ UNCHANGED <<image, ipcVars>> /\ Watch

Fairness ==
    /\ \A h \in Hart : /\ SF_vars(Alone(Timer(h)))
                       /\ WF_vars(Alone(Leaves(h)) \/ (IpcNext(h) /\ UNCHANGED image /\ Watch))
    /\ \A p \in Watched : /\ WF_vars(Alone(Elapse(p)))
                          /\ SF_vars(\E h \in Hart : Alone(Dispatch(h, p)))

\* Nothing is asked of what follows a stray release, and the runs end there.
UntilStray == Init /\ [][Next /\ ~stray]_vars

FairSpec == UntilStray /\ Fairness

(***************************************************************************)
(* A suspended process stops: within the slice it runs in it comes to rest,*)
(* and proc_is_suspended holds, unless a monitor resumes it first.         *)
(***************************************************************************)
SuspendStops ==
    \A p \in Watched :
        "suspended" \in state[p].flags
           ~> (state[p] = Suspended \/ "suspended" \notin state[p].flags \/ stray)

ClientWaits(p) ==
    /\ p \in DOMAIN Socket
    /\ ~IsServer(p) /\ Yields(p) /\ "blocked" \in state[p].flags

(***************************************************************************)
(* A client that yields its time to the server does not wait for ever, be  *)
(* the answer lost, the server suspended or the channel revoked.           *)
(***************************************************************************)
ClientReturns == \A p \in Watched : ClientWaits(p) ~> (~ClientWaits(p) \/ stray)
=============================================================================
