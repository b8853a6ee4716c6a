----------------------------- MODULE IpcProofs -----------------------------
(***************************************************************************)
(* Proofs about harts, processes and channels together, for any harts, any *)
(* processes and channels, and any programs, in every behaviour up to the  *)
(* first stray release, if there is one (FindDoubleRelease has one).       *)
(*                                                                         *)
(* None of the properties of IpcSafety is inductive.  That a process has   *)
(* one owner rests on where each hart is and what it has given up; that an *)
(* answer reaches the client that asked rests on a server that waits       *)
(* having no client, which rests on who owns whom.  IInv is all of it.     *)
(***************************************************************************)
EXTENDS IpcSafety, FiniteSetTheorems, TLAPS

-----------------------------------------------------------------------------
(* The inductive invariant. *)

Where == {"sched", "user", "inside", "done", "drop", "hang"}
SomeProcess == Process \cup {NULL}
Err == {"SUCCESS", "ERR", "ERR_PREEMPTED", "ERR_SUSPENDED", "ERR_TIMEOUT",
        "ERR_NO_RECEIVER"}
SetBy == {"boot", "itself", "monitor"}
AnyCall == UNION {i.program[p] : i \in Images, p \in Process}
Channel == [server : SomeProcess, client : SomeProcess, cap_buf : SomeProcess]

HartTypeOK ==
    /\ at \in [Hart -> Where]
    /\ cur \in [Hart -> SomeProcess]
    /\ nxt \in [Hart -> SomeProcess]
    /\ res \in [Hart -> Err]
    /\ gone \in [Hart -> BOOLEAN]
    /\ lock \in SUBSET Hart
    /\ hartPmp \in [Hart -> [pid : SomeProcess, by : SetBy]]

ProcTypeOK ==
    /\ image \in Images
    /\ state \in [Process -> Word]
    /\ timeout \in [Process -> {"later", "passed", "never"}]
    /\ T0 \in [Process -> Err]
    /\ pending \in [Process -> SUBSET AnyCall]
    /\ pmp \in [Process -> SetBy]

IpcTypeOK ==
    /\ sock \in SUBSET DOMAIN Socket
    /\ channels \in [Chan -> Channel]
    /\ buf \in [Process -> Int]
    /\ msg \in [Process -> [tag : Int, cap : Int, data : Int \X Int \X Int \X Int]]

TypeOK == HartTypeOK /\ ProcTypeOK /\ IpcTypeOK

\* What a hart holds at each place of its way through the kernel.
HartShape ==
    \A h \in Hart :
        /\ at[h] = "sched" <=> cur[h] = NULL
        /\ at[h] \in {"sched", "user"} => nxt[h] = NULL /\ ~gone[h]
        /\ at[h] = "inside" => nxt[h] = cur[h] /\ ~gone[h]
        /\ at[h] = "drop" \/ gone[h] => nxt[h] # cur[h]

LockShape ==
    /\ \A h \in Hart : h \in lock <=> at[h] \in {"inside", "done"}
    /\ \A g, h \in lock : g = h

\* A process that waits is neither busy nor suspended, and only its word names
\* a channel.
WordShape ==
    \A p \in Process : IF "blocked" \in state[p].flags
                       THEN state[p].flags = {"blocked"} ELSE state[p].chan = 0

IsBusy(p) == "busy" \in state[p].flags

Has(h, p) == (cur[h] = p /\ at[h] # "sched" /\ ~gone[h]) \/ nxt[h] = p

Exclusive ==
    /\ \A h \in Hart, p \in Process : Has(h, p) => IsBusy(p)
    /\ \A p \in Process : IsBusy(p) => \E h \in Hart : Has(h, p)
    /\ \A g, h \in Hart, p \in Process : Has(g, p) /\ Has(h, p) => g = h

\* OwnRegisters, also in the kernel as long as the hart may go back.
RegistersLoaded ==
    \A h \in Hart : at[h] # "sched" /\ ~gone[h] =>
        /\ hartPmp[h].pid = cur[h]
        /\ pmp[cur[h]] = "monitor" => hartPmp[h].by = "monitor"

Serving(s, c) == s \in DOMAIN Socket /\ IsServer(s) /\ Socket[s].chan = c
Client(p, c) == p \in DOMAIN Socket /\ ~IsServer(p) /\ Socket[p].chan = c

\* Channels know processes in their roles, and a buffer whenever they know one.
Registered ==
    \A c \in Chan :
        /\ channels[c].server # NULL => Serving(channels[c].server, c)
        /\ channels[c].client # NULL => Client(channels[c].client, c)
        /\ channels[c].server # NULL \/ channels[c].client # NULL
              => channels[c].cap_buf # NULL

\* A server that waits has no client; otherwise its client is who asked last.
ServesLast ==
    \A c \in Chan, s \in Process :
        Serving(s, c) /\ channels[c].client # NULL =>
            /\ state[s] # Blocked(c)
            /\ msg[s].tag = Tag(channels[c].client)

HartInv == HartTypeOK /\ ProcTypeOK /\ HartShape /\ LockShape /\ WordShape /\ AssertHolds
           /\ Exclusive /\ RegistersLoaded
ChanInv == IpcTypeOK /\ Registered /\ ServesLast /\ AnswersOwnRequest /\ WaiterKnown

IInv == HartInv /\ ChanInv

-----------------------------------------------------------------------------
(* What every step of one hart has in common. *)

\* Hart h moves: where the others are and what they hold stays.
Moves(h) ==
    /\ h \in Hart
    /\ image' = image
    /\ \A g \in Hart \ {h} :
          /\ at'[g] = at[g] /\ cur'[g] = cur[g] /\ nxt'[g] = nxt[g]
          /\ gone'[g] = gone[g] /\ hartPmp'[g] = hartPmp[g]

LEMMA NullIsNoProcess == NULL \notin Process
  BY ProcAssumption DEF NULL

(***************************************************************************)
(* Ownership follows if the step makes busy what h takes, releases what h  *)
(* gives up, and takes nothing that was busy.                              *)
(***************************************************************************)
LEMMA ExclusiveStep ==
    ASSUME Exclusive, NEW h, Moves(h),
           \A p \in Process :
              /\ Has(h, p)' => Has(h, p) \/ ~IsBusy(p)
              /\ IsBusy(p)' <=> IF Has(h, p) \/ Has(h, p)' THEN Has(h, p)' ELSE IsBusy(p)
    PROVE  Exclusive'
  <1>0. h \in Hart
    BY DEF Moves
  <1>1. \A g \in Hart \ {h}, p \in Process : Has(g, p)' <=> Has(g, p)
    BY DEF Moves, Has
  <1>2. \A g \in Hart \ {h}, p \in Process : Has(g, p) => ~Has(h, p) /\ ~Has(h, p)'
    BY <1>0 DEF Exclusive
  <1>3. \A g \in Hart, p \in Process : Has(g, p)' => IsBusy(p)'
    BY <1>0, <1>1, <1>2 DEF Exclusive
  <1>4. \A p \in Process : IsBusy(p)' => \E g \in Hart : Has(g, p)'
    BY <1>0, <1>1, <1>2 DEF Exclusive
  <1>5. \A f, g \in Hart, p \in Process : Has(f, p)' /\ Has(g, p)' => f = g
    BY <1>0, <1>1, <1>2 DEF Exclusive
  <1> QED
    BY <1>3, <1>4, <1>5 DEF Exclusive

\* Only the registers of a process that no hart has change under a hart's feet.
LEMMA RegistersStep ==
    ASSUME HartTypeOK, HartShape, Exclusive, RegistersLoaded, NEW h, Moves(h),
           \A p \in Process : pmp'[p] = "monitor" => pmp[p] = "monitor" \/ ~IsBusy(p),
           at'[h] # "sched" /\ ~gone'[h] =>
              /\ hartPmp'[h].pid = cur'[h]
              /\ pmp'[cur'[h]] = "monitor" => hartPmp'[h].by = "monitor"
    PROVE  RegistersLoaded'
  <1> SUFFICES ASSUME NEW g \in Hart, g # h, at[g] # "sched", ~gone[g]
               PROVE  /\ hartPmp[g].pid = cur[g]
                      /\ pmp'[cur[g]] = "monitor" => hartPmp[g].by = "monitor"
    BY DEF Moves, RegistersLoaded
  <1>1. cur[g] \in Process /\ IsBusy(cur[g])
    BY DEF HartTypeOK, HartShape, Exclusive, Has, SomeProcess
  <1> QED
    BY <1>1 DEF RegistersLoaded

(***************************************************************************)
(* A step that leaves the channels alone keeps all there is to say of them,*)
(* if it lets nobody wait.                                                 *)
(***************************************************************************)
LEMMA ChannelsAlone ==
    ASSUME ChanInv, ProcTypeOK, image' = image, UNCHANGED ipcVars,
           \A p \in Process :
              /\ "blocked" \in state'[p].flags => state'[p] = state[p]
              /\ timeout'[p] = "never" => timeout[p] = "never"
    PROVE  ChanInv'
  <1> USE SocketAssumption DEF ipcVars, Socket, Tag, IsServer, Role, Serving, Client
  <1>1. IpcTypeOK'
    BY DEF ChanInv, IpcTypeOK, Channel, SomeProcess
  <1>2. Registered'
    BY DEF ChanInv, Registered
  <1>3. \A p \in Process, c \in Chan : state'[p] = Blocked(c) => state[p] = Blocked(c)
    BY DEF Blocked, Is
  <1>4. ServesLast'
    BY <1>3 DEF ChanInv, ServesLast
  <1>5. AnswersOwnRequest'
    BY DEF ChanInv, AnswersOwnRequest
  <1>6. WaiterKnown'
    <2> SUFFICES ASSUME NEW p \in DOMAIN image.socket,
                        state'[p] = Blocked(Socket[p].chan), timeout'[p] = "never",
                        \A q \in DOMAIN image.socket : q \in sock \/ (q # p /\ ~IsServer(q))
                 PROVE  channels[Socket[p].chan][Role(p)] = p
      BY DEF WaiterKnown
    <2>1. p \in Process /\ Socket[p].chan \in Chan
      BY DEF ProcTypeOK
    <2>2. state[p] = Blocked(Socket[p].chan) /\ timeout[p] = "never"
      BY <2>1, <1>3
    <2> QED BY <2>2 DEF ChanInv, WaiterKnown
  <1> QED
    BY <1>1, <1>2, <1>4, <1>5, <1>6 DEF ChanInv

(***************************************************************************)
(* What a step of hart h has to show: its new place fits what it holds, it *)
(* makes busy what it takes and releases what it gives up, and goes to user*)
(* mode with the right registers.                                          *)
(***************************************************************************)
ShapeOf(h) ==
    /\ at[h] = "sched" <=> cur[h] = NULL
    /\ at[h] \in {"sched", "user"} => nxt[h] = NULL /\ ~gone[h]
    /\ at[h] = "inside" => nxt[h] = cur[h] /\ ~gone[h]
    /\ at[h] = "drop" \/ gone[h] => nxt[h] # cur[h]
    /\ at[h] # "hang"

LEMMA HartStep ==
    ASSUME HartInv, NEW h, Moves(h),
           HartTypeOK', ProcTypeOK', ShapeOf(h)', LockShape', WordShape',
           \A p \in Process :
              /\ Has(h, p)' => Has(h, p) \/ ~IsBusy(p)
              /\ IsBusy(p)' <=> IF Has(h, p) \/ Has(h, p)' THEN Has(h, p)' ELSE IsBusy(p)
              /\ pmp'[p] = "monitor" => pmp[p] = "monitor" \/ ~IsBusy(p),
           at'[h] # "sched" /\ ~gone'[h] =>
              /\ hartPmp'[h].pid = cur'[h]
              /\ pmp'[cur'[h]] = "monitor" => hartPmp'[h].by = "monitor"
    PROVE  HartInv'
  <1>1. HartShape'
    BY DEF HartInv, HartShape, ShapeOf, Moves
  <1>2. AssertHolds'
    BY DEF HartInv, AssertHolds, ShapeOf, Moves
  <1>3. Exclusive'
    BY ExclusiveStep DEF HartInv
  <1>4. RegistersLoaded'
    BY RegistersStep DEF HartInv
  <1> QED
    BY <1>1, <1>2, <1>3, <1>4 DEF HartInv

-----------------------------------------------------------------------------
(* What the operators on state words do. *)

WordsOK(w) ==
    /\ w \in [Process -> Word]
    /\ \A p \in Process : IF "blocked" \in w[p].flags
                          THEN w[p].flags = {"blocked"} ELSE w[p].chan = 0

LEMMA ReleasedWord ==
    ASSUME NEW w, WordsOK(w), NEW p \in Process
    PROVE  /\ WordsOK(Released(w, p))
           /\ \A q \in Process : q # p => Released(w, p)[q] = w[q]
           /\ Released(w, p)[p].flags = w[p].flags \ {"busy"}
           /\ "blocked" \in w[p].flags => Released(w, p) = w
  <1> DEFINE r == Released(w, p)
  <1>1. /\ r \in [Process -> Word]
        /\ \A q \in Process : q # p => r[q] = w[q]
        /\ r[p].flags = w[p].flags \ {"busy"} /\ r[p].chan = w[p].chan
    BY DEF Released, Word, WordsOK
  <1>2. {"blocked"} \ {"busy"} = {"blocked"}
    OBVIOUS
  <1>3. CASE "blocked" \in w[p].flags
    <2>1. w[p].flags \ {"busy"} = w[p].flags
      BY <1>2, <1>3 DEF WordsOK
    <2>2. r[p] = w[p]
      <3>1. \A x, y \in Word : x.flags = y.flags /\ x.chan = y.chan => x = y
        BY DEF Word
      <3> QED BY <3>1, <2>1, <1>1 DEF WordsOK
    <2>3. r = w
      BY <2>2, <1>1 DEF WordsOK
    <2> QED BY <1>1, <2>3
  <1>4. CASE "blocked" \notin w[p].flags
    BY <1>1, <1>4 DEF WordsOK
  <1> QED
    BY <1>3, <1>4

LEMMA WordsOKState == HartInv => WordsOK(state)
  BY DEF HartInv, ProcTypeOK, WordShape, WordsOK

LEMMA WordValues ==
    /\ Ready \in Word /\ Ready.flags = {} /\ Ready.chan = 0
    /\ Busy \in Word /\ Busy.flags = {"busy"} /\ Busy.chan = 0
    /\ Suspended \in Word /\ Suspended.flags = {"suspended"} /\ Suspended.chan = 0
    /\ \A c \in Chan : /\ Blocked(c) \in Word
                       /\ Blocked(c).flags = {"blocked"} /\ Blocked(c).chan = c
  BY ProcAssumption DEF Ready, Busy, Suspended, Blocked, Is, Word, Flag

LEMMA EnterTypes ==
    ASSUME ProcTypeOK, NEW h, NEW p \in Process, NEW t0 \in [Process -> Err],
           Enter(h, p, t0), image' = image
    PROVE  /\ T0' \in [Process -> Err]
           /\ pending' \in [Process -> SUBSET AnyCall]
           /\ at' = [at EXCEPT ![h] = "user"]
  <1>0. at' = [at EXCEPT ![h] = "user"]
    BY DEF Enter, Go
  <1>1. CASE t0[p] = "ERR_PREEMPTED"
    <2>1. T0' \in [Process -> Err]
      BY <1>1 DEF Enter
    <2>2. pending' \in [Process -> SUBSET AnyCall]
      BY <1>1 DEF Enter, ProcTypeOK
    <2> QED BY <1>0, <2>1, <2>2
  <1>2. CASE t0[p] # "ERR_PREEMPTED"
    <2>1. T0' \in [Process -> Err]
      BY <1>2 DEF Enter, Err
    <2>2. pending' = [pending EXCEPT ![p] = {}]
      BY <1>2 DEF Enter
    <2>3. pending' \in [Process -> SUBSET AnyCall]
      BY <2>2 DEF ProcTypeOK
    <2> QED BY <1>0, <2>1, <2>3
  <1> QED
    BY <1>1, <1>2

LEMMA SuspendWord ==
    ASSUME WordsOK(state), ProcTypeOK, NEW q \in Process, proc_suspend(q)
    PROVE  /\ WordsOK(state') /\ T0' \in [Process -> Err]
           /\ \A r \in Process : r # q => state'[r] = state[r]
           /\ \A r \in Process : IsBusy(r)' <=> IsBusy(r)
           /\ "blocked" \notin state'[q].flags /\ "suspended" \in state'[q].flags
  <1>1. CASE "blocked" \in state[q].flags
    <2>1. state' = [state EXCEPT ![q] = Suspended] /\ T0' = [T0 EXCEPT ![q] = "ERR_SUSPENDED"]
      BY <1>1 DEF proc_suspend
    <2>2. T0' \in [Process -> Err]
      BY <2>1 DEF ProcTypeOK, Err
    <2>3. WordsOK(state')
      BY <2>1, WordValues DEF WordsOK
    <2>4. \A r \in Process : state'[r] = IF r = q THEN Suspended ELSE state[r]
      BY <2>1 DEF WordsOK
    <2>5. ~IsBusy(q) /\ ~IsBusy(q)'
      BY <1>1, <2>4, WordValues DEF IsBusy, WordsOK
    <2>6. \A r \in Process : IsBusy(r)' <=> IsBusy(r)
      BY <2>4, <2>5 DEF IsBusy
    <2> QED BY <2>2, <2>3, <2>4, <2>6, WordValues
  <1>2. CASE "blocked" \notin state[q].flags
    <2>1. state' = [state EXCEPT ![q].flags = @ \cup {"suspended"}] /\ T0' = T0
      BY <1>2 DEF proc_suspend
    <2>2. /\ state' \in [Process -> Word]
          /\ \A r \in Process : r # q => state'[r] = state[r]
          /\ state'[q].flags = state[q].flags \cup {"suspended"}
          /\ state'[q].chan = state[q].chan
      BY <2>1 DEF WordsOK, Word, Flag
    <2>3. WordsOK(state') /\ "blocked" \notin state'[q].flags
      BY <1>2, <2>2 DEF WordsOK
    <2>4. \A r \in Process : IsBusy(r)' <=> IsBusy(r)
      BY <2>2 DEF IsBusy
    <2> QED BY <2>1, <2>2, <2>3, <2>4 DEF ProcTypeOK
  <1> QED
    BY <1>1, <1>2

LEMMA ResumeWord ==
    ASSUME WordsOK(state), NEW q \in Process, proc_resume(q)
    PROVE  /\ WordsOK(state')
           /\ \A r \in Process : r # q => state'[r] = state[r]
           /\ \A r \in Process : IsBusy(r)' <=> IsBusy(r)
           /\ "blocked" \in state'[q].flags => state' = state
  <1>1. /\ state' \in [Process -> Word]
        /\ \A r \in Process : r # q => state'[r] = state[r]
        /\ state'[q].flags = state[q].flags \ {"suspended"}
        /\ state'[q].chan = state[q].chan
    BY DEF proc_resume, WordsOK, Word, Flag
  <1>2. \A r \in Process : IsBusy(r)' <=> IsBusy(r)
    BY <1>1 DEF IsBusy
  <1>3. CASE "blocked" \in state[q].flags
    <2>1. state'[q].flags = state[q].flags
      BY <1>1, <1>3 DEF WordsOK
    <2>2. \A x, y \in Word : x.flags = y.flags /\ x.chan = y.chan => x = y
      BY DEF Word
    <2>3. state'[q] = state[q]
      BY <2>1, <2>2, <1>1 DEF WordsOK
    <2>4. state' = state
      BY <2>3, <1>1 DEF WordsOK
    <2> QED BY <2>4, <1>1, <1>2
  <1>4. CASE "blocked" \notin state[q].flags
    <2>1. "blocked" \notin state'[q].flags
      BY <1>1, <1>4
    <2>2. WordsOK(state')
      BY <1>1, <1>4, <2>1 DEF WordsOK
    <2> QED BY <1>1, <1>2, <2>1, <2>2
  <1> QED
    BY <1>3, <1>4

-----------------------------------------------------------------------------
(* The steps of Proc. *)

LEMMA TimerIInv ==
    ASSUME IInv, NEW h \in Hart, Timer(h), UNCHANGED <<image, ipcVars>>
    PROVE  IInv'
  <1> USE DEF IInv, HartInv
  <1>1. Moves(h)
    BY DEF Moves, Timer, Go, pmpVars, HartTypeOK
  <1>2. cur[h] \in Process /\ Has(h, cur[h]) /\ nxt[h] = NULL
    BY DEF Timer, HartTypeOK, HartShape, SomeProcess, Has
  <1>3. HartTypeOK'
    BY DEF Timer, Go, pmpVars, HartTypeOK, Where, SomeProcess
  <1>4. /\ WordsOK(state')
        /\ \A q \in Process : q # cur[h] => state'[q] = state[q]
        /\ state'[cur[h]].flags = state[cur[h]].flags \ {"busy"}
        /\ "blocked" \in state[cur[h]].flags => state' = state
    BY <1>2, ReleasedWord, WordsOKState DEF Timer
  <1>5. ProcTypeOK' /\ WordShape'
    BY <1>4 DEF Timer, pmpVars, ProcTypeOK, WordsOK, WordShape
  <1>6. ShapeOf(h)' /\ LockShape'
    BY DEF Timer, Go, HartTypeOK, HartShape, LockShape, ShapeOf
  <1>8. \A p \in Process : Has(h, p) <=> p = cur[h]
    BY <1>2, NullIsNoProcess DEF Has
  <1>9. \A p \in Process : ~Has(h, p)'
    BY <1>2, NullIsNoProcess DEF Timer, Has, HartTypeOK
  <1>10. \A p \in Process : IsBusy(p)' <=> IsBusy(p) /\ p # cur[h]
    BY <1>2, <1>4 DEF IsBusy
  <1>11. at'[h] = "sched" /\ ~gone'[h] /\ pmp' = pmp
    BY <1>6 DEF Timer, Go, pmpVars, HartTypeOK, ShapeOf
  <1>12. HartInv'
    BY <1>1, <1>3, <1>5, <1>6, <1>8, <1>9, <1>10, <1>11, HartStep
  <1>13. ChanInv'
    BY <1>4, <1>2, ChannelsAlone DEF Timer
  <1> QED
    BY <1>12, <1>13

LEMMA DispatchIInv ==
    ASSUME IInv, NEW h \in Hart, NEW p \in Process, Dispatch(h, p),
           UNCHANGED <<image, ipcVars>>
    PROVE  IInv'
  <1> USE DEF IInv, HartInv
  <1>1. Enter(h, p, T0) /\ Acquirable(p) /\ nxt[h] = NULL /\ ~gone[h]
    BY DEF Dispatch, trap_exit_pmp, proc_acquire, HartShape
  <1>2. /\ at' = [at EXCEPT ![h] = "user"]
        /\ T0' \in [Process -> Err] /\ pending' \in [Process -> SUBSET AnyCall]
    BY <1>1, EnterTypes DEF ProcTypeOK
  <1>3. hartPmp' = [hartPmp EXCEPT ![h] = [pid |-> p, by |-> pmp[p]]] /\ pmp' = pmp
    BY DEF Dispatch, trap_exit_pmp, proc_pmp_sync
  <1>4. Moves(h)
    BY <1>2, <1>3 DEF Moves, Dispatch, HartTypeOK
  <1>5. HartTypeOK'
    BY <1>2, <1>3 DEF Dispatch, HartTypeOK, ProcTypeOK, Where, SomeProcess
  <1>6. WordsOK(state') /\ \A q \in Process : state'[q] = IF q = p THEN Busy ELSE state[q]
    BY WordValues, WordsOKState DEF Dispatch, WordsOK
  <1>7. ProcTypeOK' /\ WordShape'
    BY <1>2, <1>3, <1>6 DEF Dispatch, ProcTypeOK, WordsOK, WordShape
  <1>8. ShapeOf(h)' /\ LockShape'
    BY <1>1, <1>2, NullIsNoProcess DEF Dispatch, HartTypeOK, LockShape, ShapeOf
  <1>9. \A q \in Process : ~Has(h, q)
    BY <1>1, NullIsNoProcess DEF Dispatch, Has
  <1>10. \A q \in Process : Has(h, q)' <=> q = p
    BY <1>1, <1>2, NullIsNoProcess DEF Dispatch, Has, HartTypeOK
  <1>11. ~IsBusy(p) /\ \A q \in Process : IsBusy(q)' <=> q = p \/ IsBusy(q)
    <2>1. ~IsBusy(p)
      BY <1>1 DEF Acquirable, IsBusy
    <2>2. \A q \in Process : IsBusy(q)' <=> q = p \/ IsBusy(q)
      BY <1>6, WordValues DEF IsBusy
    <2> QED BY <2>1, <2>2
  <1>12. cur'[h] = p /\ hartPmp'[h] = [pid |-> p, by |-> pmp[p]] /\ ~gone'[h]
    BY <1>1, <1>3 DEF Dispatch, HartTypeOK
  <1>13. HartInv'
    BY <1>1, <1>3, <1>4, <1>5, <1>7, <1>8, <1>9, <1>10, <1>11, <1>12, HartStep
  <1>14. ChanInv'
    BY <1>6, WordValues, ChannelsAlone DEF Dispatch, ProcTypeOK
  <1> QED
    BY <1>13, <1>14

LEMMA DropIInv ==
    ASSUME IInv, NEW h \in Hart, Drop(h), gone[h] => ~IsBusy(cur[h]),
           UNCHANGED <<image, ipcVars>>
    PROVE  IInv'
  <1> USE DEF IInv, HartInv
  <1> DEFINE p == cur[h]
             n == nxt[h]
  <1>1. p \in Process /\ n # p /\ n \in SomeProcess
    BY DEF Drop, HartTypeOK, HartShape, SomeProcess
  <1>2. n # NULL => n \in Process /\ Enter(h, n, T0)
    BY <1>1 DEF Drop, trap_exit_pmp, SomeProcess
  <1>3. /\ at' = [at EXCEPT ![h] = IF n = NULL THEN "sched" ELSE "user"]
        /\ T0' \in [Process -> Err] /\ pending' \in [Process -> SUBSET AnyCall]
    <2>1. CASE n = NULL
      BY <2>1 DEF Drop, Go, ProcTypeOK
    <2>2. CASE n # NULL
      BY <2>2, <1>2, EnterTypes DEF ProcTypeOK
    <2> QED BY <2>1, <2>2
  <1>4. /\ pmp' = pmp
        /\ hartPmp' = IF n = NULL THEN hartPmp
                      ELSE [hartPmp EXCEPT ![h] = [pid |-> n, by |-> pmp[n]]]
    BY DEF Drop, trap_exit_pmp, proc_pmp_sync
  <1>5. Moves(h)
    BY <1>3, <1>4 DEF Moves, Drop, HartTypeOK
  <1>6. HartTypeOK'
    BY <1>2, <1>3, <1>4 DEF Drop, HartTypeOK, ProcTypeOK, Where, SomeProcess
  <1>7. /\ WordsOK(state')
        /\ \A q \in Process : q # p => state'[q] = state[q]
        /\ state'[p].flags = state[p].flags \ {"busy"}
        /\ "blocked" \in state[p].flags => state' = state
    BY <1>1, ReleasedWord, WordsOKState DEF Drop
  <1>8. ProcTypeOK' /\ WordShape'
    BY <1>3, <1>4, <1>7 DEF Drop, ProcTypeOK, WordsOK, WordShape
  <1>9. ShapeOf(h)' /\ LockShape'
    BY <1>3, NullIsNoProcess DEF Drop, HartTypeOK, LockShape, ShapeOf
  <1>10. \A q \in Process : Has(h, q) <=> (q = p /\ ~gone[h]) \/ q = n
    BY DEF Drop, Has
  <1>11. \A q \in Process : Has(h, q)' <=> q = n
    BY <1>3, NullIsNoProcess DEF Drop, Has, HartTypeOK
  <1>12. \A q \in Process : IsBusy(q)' <=> IsBusy(q) /\ q # p
    BY <1>1, <1>7 DEF IsBusy
  <1>13. gone[h] => ~IsBusy(p)
    OBVIOUS
  <1>14. n # NULL => IsBusy(n)
    BY <1>2, <1>10 DEF Exclusive
  <1>15. /\ cur'[h] = n /\ ~gone'[h]
         /\ n # NULL => hartPmp'[h] = [pid |-> n, by |-> pmp[n]]
         /\ n = NULL => at'[h] = "sched"
    BY <1>3, <1>4 DEF Drop, HartTypeOK
  <1>16. \A q \in Process :
            /\ Has(h, q)' => Has(h, q) \/ ~IsBusy(q)
            /\ IsBusy(q)' <=> IF Has(h, q) \/ Has(h, q)' THEN Has(h, q)' ELSE IsBusy(q)
            /\ IsBusy(q)' => IsBusy(q)
    BY <1>1, <1>10, <1>11, <1>12, <1>13, <1>14, NullIsNoProcess
  <1>17. HartInv'
    BY <1>4, <1>5, <1>6, <1>8, <1>9, <1>15, <1>16, HartStep
  <1>18. ChanInv'
    BY <1>1, <1>7, ChannelsAlone DEF Drop
  <1> QED
    BY <1>17, <1>18

LEMMA ExceptionIInv ==
    ASSUME IInv, NEW h \in Hart, handle_exception(h), UNCHANGED <<image, ipcVars>>
    PROVE  IInv'
  <1> USE DEF IInv, HartInv
  <1> DEFINE p == cur[h]
  <1>1. p \in Process /\ at[h] = "user" /\ nxt[h] = NULL /\ ~gone[h]
    BY DEF handle_exception, Trapped, HartTypeOK, HartShape, SomeProcess
  <1>2. /\ WordsOK(state') /\ T0' \in [Process -> Err]
        /\ \A q \in Process : q # p => state'[q] = state[q]
        /\ \A q \in Process : IsBusy(q)' <=> IsBusy(q)
        /\ "blocked" \notin state'[p].flags
    BY <1>1, SuspendWord, WordsOKState DEF handle_exception
  <1>3. /\ at' = [at EXCEPT ![h] = "drop"]
        /\ UNCHANGED <<timeout, pending, cur, nxt, res, gone, lock, pmp, hartPmp>>
    BY DEF handle_exception, Go, pmpVars
  <1>4. Moves(h)
    BY <1>3 DEF Moves, HartTypeOK
  <1>5. HartTypeOK'
    BY <1>3 DEF HartTypeOK, Where
  <1>6. ProcTypeOK' /\ WordShape'
    BY <1>2, <1>3 DEF ProcTypeOK, WordsOK, WordShape
  <1>7. ShapeOf(h)' /\ LockShape'
    BY <1>1, <1>3, NullIsNoProcess DEF HartTypeOK, LockShape, ShapeOf
  <1>8. \A q \in Process : (Has(h, q) <=> q = p) /\ (Has(h, q)' <=> q = p)
    BY <1>1, <1>3, NullIsNoProcess DEF Has, HartTypeOK
  <1>9. IsBusy(p)
    BY <1>1, <1>8 DEF Exclusive
  <1>10. at[h] # "sched" /\ hartPmp[h].pid = p /\ (pmp[p] = "monitor" => hartPmp[h].by = "monitor")
    BY <1>1 DEF RegistersLoaded
  <1>11. HartInv'
    BY <1>1, <1>2, <1>3, <1>4, <1>5, <1>6, <1>7, <1>8, <1>9, <1>10, HartStep
  <1>12. ChanInv'
    BY <1>1, <1>2, <1>3, ChannelsAlone
  <1> QED
    BY <1>11, <1>12

LEMMA SyncFullIInv ==
    ASSUME IInv, NEW h \in Hart, sys_sync_full(h), UNCHANGED <<image, ipcVars>>
    PROVE  IInv'
  <1> USE DEF IInv, HartInv
  <1> DEFINE p == cur[h]
  <1>1. p \in Process /\ at[h] = "user" /\ nxt[h] = NULL /\ ~gone[h]
    BY DEF sys_sync_full, Trapped, HartTypeOK, HartShape, SomeProcess
  <1>2. \A q \in Process : Has(h, q) <=> q = p
    BY <1>1, NullIsNoProcess DEF Has
  <1>3. KassertBusy(h, p)
    BY <1>1, <1>2 DEF Exclusive, KassertBusy, IsBusy
  <1>4. /\ T0' = [T0 EXCEPT ![p] = "SUCCESS"] /\ state' = Released(state, p)
        /\ gone' = [gone EXCEPT ![h] = TRUE] /\ at' = [at EXCEPT ![h] = "drop"]
        /\ UNCHANGED <<timeout, pending, cur, nxt, res, lock, pmp, hartPmp>>
    BY <1>3 DEF sys_sync_full, Go, pmpVars
  <1>5. /\ WordsOK(state')
        /\ \A q \in Process : q # p => state'[q] = state[q]
        /\ state'[p].flags = state[p].flags \ {"busy"}
        /\ "blocked" \in state[p].flags => state' = state
    BY <1>1, <1>4, ReleasedWord, WordsOKState
  <1>6. Moves(h)
    BY <1>4 DEF Moves, HartTypeOK
  <1>7. HartTypeOK'
    BY <1>4 DEF HartTypeOK, Where
  <1>8. T0' \in [Process -> Err]
    BY <1>4 DEF ProcTypeOK, Err
  <1>9. ProcTypeOK' /\ WordShape'
    BY <1>4, <1>5, <1>8 DEF ProcTypeOK, WordsOK, WordShape
  <1>10. ShapeOf(h)' /\ LockShape' /\ gone'[h] /\ cur'[h] = p
    BY <1>1, <1>4, NullIsNoProcess DEF HartTypeOK, LockShape, ShapeOf
  <1>11. \A q \in Process : ~Has(h, q)'
    BY <1>1, <1>4, <1>10, NullIsNoProcess DEF Has
  <1>12. \A q \in Process : IsBusy(q)' <=> IsBusy(q) /\ q # p
    BY <1>1, <1>5 DEF IsBusy
  <1>13. HartInv'
    BY <1>1, <1>2, <1>4, <1>6, <1>7, <1>9, <1>10, <1>11, <1>12, HartStep
  <1>14. ChanInv'
    BY <1>1, <1>4, <1>5, ChannelsAlone
  <1> QED
    BY <1>13, <1>14

LEMMA SyncMemIInv ==
    ASSUME IInv, NEW h \in Hart, sys_sync_mem(h), UNCHANGED <<image, ipcVars>>
    PROVE  IInv'
  <1> USE DEF IInv, HartInv
  <1> DEFINE p == cur[h]
  <1>1. p \in Process /\ at[h] = "user" /\ nxt[h] = NULL /\ ~gone[h]
    BY DEF sys_sync_mem, Trapped, HartTypeOK, HartShape, SomeProcess
  <1>2. [T0 EXCEPT ![p] = "SUCCESS"] \in [Process -> Err]
    BY <1>1 DEF ProcTypeOK, Err
  <1>3. /\ at' = [at EXCEPT ![h] = "user"]
        /\ T0' \in [Process -> Err] /\ pending' \in [Process -> SUBSET AnyCall]
    BY <1>1, <1>2, EnterTypes DEF sys_sync_mem
  <1>4. /\ hartPmp' = [hartPmp EXCEPT ![h] = [pid |-> p, by |-> pmp[p]]]
        /\ UNCHANGED <<state, timeout, cur, nxt, res, gone, lock, pmp>>
    BY DEF sys_sync_mem, proc_pmp_sync
  <1>5. at' = at
    BY <1>1, <1>3 DEF HartTypeOK
  <1>6. Moves(h)
    BY <1>4, <1>5 DEF Moves, HartTypeOK
  <1>7. HartTypeOK'
    BY <1>1, <1>4, <1>5 DEF HartTypeOK, ProcTypeOK, SomeProcess
  <1>8. ProcTypeOK' /\ WordShape'
    BY <1>3, <1>4 DEF ProcTypeOK, WordShape
  <1>9. ShapeOf(h)' /\ LockShape'
    BY <1>1, <1>4, <1>5, NullIsNoProcess DEF LockShape, ShapeOf
  <1>10. \A q \in Process : (Has(h, q)' <=> Has(h, q)) /\ (IsBusy(q)' <=> IsBusy(q))
    BY <1>4, <1>5 DEF Has, IsBusy
  <1>11. \A q \in Process : Has(h, q) => IsBusy(q)
    BY DEF Exclusive
  <1>12. ~gone'[h] /\ cur'[h] = p /\ hartPmp'[h] = [pid |-> p, by |-> pmp[p]]
    BY <1>1, <1>4 DEF HartTypeOK
  <1>13. HartInv'
    BY <1>4, <1>6, <1>7, <1>8, <1>9, <1>10, <1>11, <1>12, HartStep
  <1>14. ChanInv'
    BY <1>4, ChannelsAlone
  <1> QED
    BY <1>13, <1>14

LEMMA SyscallIInv ==
    ASSUME IInv, NEW h \in Hart, NEW q \in Process, NEW c \in Program[q],
           Syscall(h, c), UNCHANGED <<image, ipcVars>>
    PROVE  IInv'
  <1> USE DEF IInv, HartInv
  <1> DEFINE p == cur[h]
  <1>1. p \in Process /\ at[h] = "user" /\ nxt[h] = NULL /\ ~gone[h]
    BY DEF Syscall, Trapped, HartTypeOK, HartShape, SomeProcess
  <1>2. /\ T0' = [T0 EXCEPT ![p] = "ERR_PREEMPTED"] /\ pending' = [pending EXCEPT ![p] = {c}]
        /\ UNCHANGED <<state, timeout, cur, res, gone, pmp, hartPmp>>
        /\ \/ /\ lock = {} /\ lock' = {h} /\ nxt' = [nxt EXCEPT ![h] = p]
              /\ at' = [at EXCEPT ![h] = "inside"]
           \/ at' = [at EXCEPT ![h] = "drop"] /\ UNCHANGED <<lock, nxt>>
    BY DEF Syscall, LockFree, Go, pmpVars
  <1>3. T0' \in [Process -> Err]
    BY <1>2 DEF ProcTypeOK, Err
  <1>4. c \in AnyCall
    BY DEF AnyCall, Program, ProcTypeOK
  <1>5. pending' \in [Process -> SUBSET AnyCall]
    BY <1>2, <1>4 DEF ProcTypeOK
  <1>6. Moves(h)
    BY <1>2 DEF Moves, HartTypeOK
  <1>7. HartTypeOK'
    BY <1>1, <1>2 DEF HartTypeOK, Where, SomeProcess
  <1>8. ProcTypeOK' /\ WordShape'
    BY <1>2, <1>3, <1>5 DEF ProcTypeOK, WordShape
  <1>9. ShapeOf(h)'
    BY <1>1, <1>2, NullIsNoProcess DEF HartTypeOK, ShapeOf
  <1>10. LockShape'
    BY <1>1, <1>2 DEF HartTypeOK, LockShape
  <1>11. \A r \in Process : (Has(h, r) <=> r = p) /\ (Has(h, r)' <=> r = p)
    BY <1>1, <1>2, NullIsNoProcess DEF Has, HartTypeOK
  <1>12. \A r \in Process : IsBusy(r)' <=> IsBusy(r)
    BY <1>2 DEF IsBusy
  <1>13. IsBusy(p)
    BY <1>1, <1>11 DEF Exclusive
  <1>14. at[h] # "sched" /\ hartPmp[h].pid = p /\ (pmp[p] = "monitor" => hartPmp[h].by = "monitor")
    BY <1>1 DEF RegistersLoaded
  <1>15. HartInv'
    BY <1>1, <1>2, <1>6, <1>7, <1>8, <1>9, <1>10, <1>11, <1>12, <1>13, <1>14, HartStep
  <1>16. ChanInv'
    BY <1>2, ChannelsAlone
  <1> QED
    BY <1>15, <1>16

LEMMA DoneIInv ==
    ASSUME IInv, NEW h \in Hart, Done(h), UNCHANGED <<image, ipcVars>>
    PROVE  IInv'
  <1> USE DEF IInv, HartInv
  <1> DEFINE p == cur[h]
             t0 == IF \E g \in Hart : at[g] = "user" /\ cur[g] = p THEN T0
                   ELSE [T0 EXCEPT ![p] = res[h]]
  <1>1. p \in Process /\ at[h] = "done" /\ h \in lock /\ (gone[h] => nxt[h] # p)
    BY DEF Done, HartTypeOK, HartShape, LockShape, SomeProcess
  <1>2. t0 \in [Process -> Err]
    BY <1>1 DEF ProcTypeOK, HartTypeOK
  <1>3. /\ lock' = {} /\ res' = [res EXCEPT ![h] = "SUCCESS"]
        /\ UNCHANGED <<state, timeout, cur, gone, pmp, hartPmp>>
    BY DEF Done, pmpVars
  <1>4. /\ T0' \in [Process -> Err] /\ pending' \in [Process -> SUBSET AnyCall]
        /\ \/ /\ nxt[h] = p /\ ~gone[h] /\ nxt' = [nxt EXCEPT ![h] = NULL]
              /\ at' = [at EXCEPT ![h] = "user"]
           \/ nxt[h] # p /\ at' = [at EXCEPT ![h] = "drop"] /\ nxt' = nxt
    <2>1. CASE nxt[h] = p
      <3>1. Enter(h, p, t0) /\ nxt' = [nxt EXCEPT ![h] = NULL]
        BY <2>1 DEF Done
      <3> QED BY <1>1, <1>2, <2>1, <3>1, EnterTypes
    <2>2. CASE nxt[h] # p
      BY <1>2, <2>2 DEF Done, Go, ProcTypeOK
    <2> QED BY <2>1, <2>2
  <1>5. Moves(h)
    BY <1>3, <1>4 DEF Moves, HartTypeOK
  <1>6. HartTypeOK'
    BY <1>3, <1>4 DEF HartTypeOK, Where, SomeProcess, Err
  <1>7. ProcTypeOK' /\ WordShape'
    BY <1>3, <1>4 DEF ProcTypeOK, WordShape
  <1>8. ShapeOf(h)'
    BY <1>1, <1>3, <1>4, NullIsNoProcess DEF HartTypeOK, ShapeOf
  <1>9. LockShape'
    BY <1>1, <1>3, <1>4 DEF HartTypeOK, LockShape
  <1>10. \A r \in Process : Has(h, r)' <=> Has(h, r)
    BY <1>1, <1>3, <1>4, NullIsNoProcess DEF Has, HartTypeOK
  <1>11. \A r \in Process : (IsBusy(r)' <=> IsBusy(r)) /\ (Has(h, r) => IsBusy(r))
    BY <1>3 DEF IsBusy, Exclusive
  <1>13. ~gone[h] => hartPmp[h].pid = p /\ (pmp[p] = "monitor" => hartPmp[h].by = "monitor")
    BY <1>1 DEF RegistersLoaded
  <1>14. HartInv'
    BY <1>3, <1>5, <1>6, <1>7, <1>8, <1>9, <1>10, <1>11, <1>13, HartStep DEF IsBusy
  <1>15. ChanInv'
    BY <1>3, ChannelsAlone
  <1> QED
    BY <1>14, <1>15

(***************************************************************************)
(* The calls that neither take a process nor give one up.                  *)
(***************************************************************************)
LEMMA ServedStep ==
    ASSUME HartInv, NEW h \in Hart, NEW err \in Err,
           at[h] = "inside", Result(h, err),
           UNCHANGED <<image, pending, cur, nxt, gone, lock, hartPmp>>,
           WordsOK(state'), T0' \in [Process -> Err],
           timeout' \in [Process -> {"later", "passed", "never"}],
           pmp' \in [Process -> SetBy],
           \A p \in Process : IsBusy(p)' <=> IsBusy(p),
           \A p \in Process : pmp'[p] = "monitor" => pmp[p] = "monitor" \/ ~IsBusy(p)
    PROVE  HartInv'
  <1> USE DEF HartInv
  <1> DEFINE p == cur[h]
  <1>1. p \in Process /\ nxt[h] = p /\ ~gone[h] /\ h \in lock
    BY DEF HartTypeOK, HartShape, LockShape, SomeProcess
  <1>2. /\ at' = [at EXCEPT ![h] = "done"] /\ res' = [res EXCEPT ![h] = err]
    BY DEF Result, Go
  <1>3. Moves(h)
    BY <1>2 DEF Moves, HartTypeOK
  <1>4. HartTypeOK'
    BY <1>2 DEF HartTypeOK, Where
  <1>5. ProcTypeOK' /\ WordShape'
    BY DEF ProcTypeOK, WordsOK, WordShape
  <1>6. ShapeOf(h)' /\ LockShape'
    BY <1>1, <1>2, NullIsNoProcess DEF HartTypeOK, LockShape, ShapeOf
  <1>7. \A r \in Process : (Has(h, r) <=> r = p) /\ (Has(h, r)' <=> r = p)
    BY <1>1, <1>2, NullIsNoProcess DEF Has, HartTypeOK
  <1>8. IsBusy(p)
    BY <1>1, <1>7 DEF Exclusive
  <1>9. at[h] # "sched" /\ hartPmp[h].pid = p /\ (pmp[p] = "monitor" => hartPmp[h].by = "monitor")
    BY <1>1 DEF RegistersLoaded
  <1> QED
    BY <1>1, <1>3, <1>4, <1>5, <1>6, <1>7, <1>8, <1>9, HartStep

LEMMA SuspendIInv ==
    ASSUME IInv, NEW h \in Hart, NEW q \in Process, cap_monitor_suspend(h, q),
           UNCHANGED <<image, ipcVars>>
    PROVE  IInv'
  <1>1. proc_suspend(q) /\ at[h] = "inside" /\ Result(h, "SUCCESS")
    BY DEF cap_monitor_suspend, Serves
  <1>2. UNCHANGED <<timeout, pending, cur, nxt, gone, lock, pmp, hartPmp>>
    BY DEF cap_monitor_suspend, pmpVars
  <1>3. /\ WordsOK(state') /\ T0' \in [Process -> Err]
        /\ \A r \in Process : r # q => state'[r] = state[r]
        /\ \A r \in Process : IsBusy(r)' <=> IsBusy(r)
        /\ "blocked" \notin state'[q].flags
    BY <1>1, SuspendWord, WordsOKState DEF IInv, HartInv
  <1>4. HartInv'
    BY <1>1, <1>2, <1>3, ServedStep DEF IInv, HartInv, ProcTypeOK, Err
  <1>5. ChanInv'
    BY <1>2, <1>3, ChannelsAlone DEF IInv, HartInv
  <1> QED
    BY <1>4, <1>5 DEF IInv

LEMMA ResumeIInv ==
    ASSUME IInv, NEW h \in Hart, NEW q \in Process, cap_monitor_resume(h, q),
           UNCHANGED <<image, ipcVars>>
    PROVE  IInv'
  <1>1. proc_resume(q) /\ at[h] = "inside" /\ Result(h, "SUCCESS")
    BY DEF cap_monitor_resume, Serves
  <1>2. UNCHANGED <<timeout, T0, pending, cur, nxt, gone, lock, pmp, hartPmp>>
    BY DEF cap_monitor_resume, pmpVars
  <1>3. /\ WordsOK(state')
        /\ \A r \in Process : r # q => state'[r] = state[r]
        /\ \A r \in Process : IsBusy(r)' <=> IsBusy(r)
        /\ "blocked" \in state'[q].flags => state' = state
    BY <1>1, ResumeWord, WordsOKState DEF IInv, HartInv
  <1>4. HartInv'
    BY <1>1, <1>2, <1>3, ServedStep DEF IInv, HartInv, ProcTypeOK, Err
  <1>5. ChanInv'
    BY <1>2, <1>3, ChannelsAlone DEF IInv, HartInv
  <1> QED
    BY <1>4, <1>5 DEF IInv

\* The calls that change no state word: state_get, reg_write and the PMP loads.
LEMMA QuietIInv ==
    ASSUME IInv, NEW h \in Hart, NEW err \in Err,
           at[h] = "inside", Result(h, err),
           UNCHANGED <<image, state, timeout, T0, pending, cur, nxt, gone, lock, hartPmp,
                       ipcVars>>,
           pmp' \in [Process -> SetBy],
           \A p \in Process : pmp'[p] = "monitor" => pmp[p] = "monitor" \/ ~IsBusy(p)
    PROVE  IInv'
  <1>1. WordsOK(state') /\ \A p \in Process : IsBusy(p)' <=> IsBusy(p)
    BY WordsOKState DEF IInv, IsBusy
  <1>2. HartInv'
    BY <1>1, ServedStep DEF IInv, HartInv, ProcTypeOK
  <1>3. ChanInv'
    BY ChannelsAlone DEF IInv, HartInv
  <1> QED
    BY <1>2, <1>3 DEF IInv

LEMMA StateGetIInv ==
    ASSUME IInv, NEW h \in Hart, NEW q \in Process, cap_monitor_state_get(h, q),
           UNCHANGED <<image, ipcVars>>
    PROVE  IInv'
  BY QuietIInv DEF cap_monitor_state_get, Serves, pmpVars, Err, IInv, HartInv, ProcTypeOK

LEMMA RegWriteIInv ==
    ASSUME IInv, NEW h \in Hart, NEW q \in Process, cap_monitor_reg_write(h, q),
           UNCHANGED <<image, ipcVars>>
    PROVE  IInv'
  <1>1. PICK err \in Err : Result(h, err)
    BY DEF cap_monitor_reg_write, Err
  <1> QED
    BY <1>1, QuietIInv DEF cap_monitor_reg_write, Serves, pmpVars, IInv, HartInv, ProcTypeOK

LEMMA MonPmpLoadIInv ==
    ASSUME IInv, NEW h \in Hart, NEW q \in Process, cap_monitor_pmp_load(h, q),
           UNCHANGED <<image, ipcVars>>
    PROVE  IInv'
  <1>1. PICK err \in Err : Result(h, err)
    BY DEF cap_monitor_pmp_load, Err
  <1>2. pmp' = pmp \/ (proc_is_suspended(q) /\ pmp' = [pmp EXCEPT ![q] = "monitor"])
    BY DEF cap_monitor_pmp_load
  <1>3. proc_is_suspended(q) => ~IsBusy(q)
    BY WordValues DEF proc_is_suspended, IsBusy
  <1>4. pmp' \in [Process -> SetBy]
    BY <1>2 DEF IInv, HartInv, ProcTypeOK, SetBy
  <1>5. \A p \in Process : pmp'[p] = "monitor" => pmp[p] = "monitor" \/ ~IsBusy(p)
    BY <1>2, <1>3 DEF IInv, HartInv, ProcTypeOK
  <1> QED
    BY <1>1, <1>4, <1>5, QuietIInv DEF cap_monitor_pmp_load, Serves

LEMMA PmpLoadIInv ==
    ASSUME IInv, NEW h \in Hart, sys_pmp_load(h), UNCHANGED <<image, ipcVars>>
    PROVE  IInv'
  <1>1. pmp' = [pmp EXCEPT ![cur[h]] = "itself"]
    BY DEF sys_pmp_load
  <1>2. pmp' \in [Process -> SetBy]
    BY <1>1 DEF IInv, HartInv, ProcTypeOK, SetBy
  <1>3. \A p \in Process : pmp'[p] = "monitor" => pmp[p] = "monitor"
    BY <1>1 DEF IInv, HartInv, ProcTypeOK
  <1> QED
    BY <1>2, <1>3, QuietIInv DEF sys_pmp_load, Serves, Err

LEMMA YieldIInv ==
    ASSUME IInv, NEW h \in Hart, NEW q \in Process, cap_monitor_yield(h, q),
           UNCHANGED <<image, ipcVars>>
    PROVE  IInv'
  <1> USE DEF IInv, HartInv
  <1> DEFINE p == cur[h]
  <1>1. p \in Process /\ at[h] = "inside" /\ nxt[h] = p /\ ~gone[h] /\ h \in lock
    BY DEF cap_monitor_yield, Serves, HartTypeOK, HartShape, LockShape, SomeProcess
  <1>2. UNCHANGED <<timeout, T0, pending, cur, lock, pmp, hartPmp>>
    BY DEF cap_monitor_yield, pmpVars
  <1>3. \A r \in Process : Has(h, r) <=> r = p
    BY <1>1, NullIsNoProcess DEF Has
  <1>4. IsBusy(p)
    BY <1>1, <1>3 DEF Exclusive
  <1>5. CASE ~Acquirable(q)
    BY <1>1, <1>2, <1>5, QuietIInv DEF cap_monitor_yield, Err, ProcTypeOK
  <1>6. CASE Acquirable(q)
    <2>1. ~IsBusy(q) /\ q # p
      BY <1>4, <1>6 DEF Acquirable, IsBusy
    <2>2. /\ nxt' = [nxt EXCEPT ![h] = q]
          /\ state' = Released([state EXCEPT ![q] = Busy], p)
          /\ gone' = [gone EXCEPT ![h] = TRUE]
          /\ at' = [at EXCEPT ![h] = "done"] /\ res' = [res EXCEPT ![h] = "SUCCESS"]
      BY <1>4, <1>6 DEF cap_monitor_yield, KassertBusy, IsBusy, Result, Go
    <2> DEFINE w == [state EXCEPT ![q] = Busy]
    <2>3. WordsOK(w) /\ \A r \in Process : w[r] = IF r = q THEN Busy ELSE state[r]
      BY WordValues, WordsOKState DEF WordsOK
    <2>0. state' = Released(w, p)
      BY <2>2
    <2> HIDE DEF w
    <2>4. /\ WordsOK(state')
          /\ \A r \in Process : r # p => state'[r] = w[r]
          /\ state'[p].flags = w[p].flags \ {"busy"}
          /\ "blocked" \in w[p].flags => state' = w
      BY <1>1, <2>0, <2>3, ReleasedWord
    <2>5. \A r \in Process : IsBusy(r)' <=> r = q \/ (IsBusy(r) /\ r # p)
      BY <1>1, <2>1, <2>3, <2>4, WordValues DEF IsBusy
    <2>6. Moves(h)
      BY <1>2, <2>2 DEF Moves, HartTypeOK
    <2>7. HartTypeOK'
      BY <1>2, <2>2 DEF HartTypeOK, Where, SomeProcess, Err
    <2>8. ProcTypeOK' /\ WordShape'
      BY <1>2, <2>4 DEF ProcTypeOK, WordsOK, WordShape
    <2>9. ShapeOf(h)' /\ LockShape'
      BY <1>1, <1>2, <2>1, <2>2, NullIsNoProcess DEF HartTypeOK, LockShape, ShapeOf
    <2>10. gone'[h] /\ cur'[h] = p
      BY <1>2, <2>2 DEF HartTypeOK
    <2>11. \A r \in Process : Has(h, r)' <=> r = q
      BY <1>2, <2>2, <2>10 DEF Has, HartTypeOK
    <2>12. HartInv'
      BY <1>1, <1>2, <1>3, <1>4, <2>1, <2>2, <2>5, <2>6, <2>7, <2>8, <2>9, <2>10, <2>11,
         HartStep
    <2>13. \A r \in Process : "blocked" \in state'[r].flags => state'[r] = state[r]
      BY <1>1, <2>1, <2>3, <2>4, WordValues
    <2>14. ChanInv'
      BY <1>2, <2>13, ChannelsAlone
    <2> QED BY <2>12, <2>14
  <1> QED
    BY <1>5, <1>6

LEMMA ElapseIInv ==
    ASSUME IInv, NEW p \in Process, Elapse(p), UNCHANGED <<image, ipcVars>>
    PROVE  IInv'
  <1> USE DEF IInv, HartInv
  <1>1. /\ timeout' = [timeout EXCEPT ![p] = "passed"]
        /\ UNCHANGED <<state, T0, pending, at, cur, nxt, res, gone, lock, pmp, hartPmp>>
    BY DEF Elapse, pmpVars
  <1>2. HartTypeOK'
    BY <1>1 DEF HartTypeOK
  <1>3. ProcTypeOK' /\ WordShape'
    BY <1>1 DEF ProcTypeOK, WordShape
  <1>4. HartShape' /\ LockShape' /\ AssertHolds'
    BY <1>1 DEF HartShape, LockShape, AssertHolds
  <1>5. Exclusive' /\ RegistersLoaded'
    BY <1>1 DEF Exclusive, RegistersLoaded, Has, IsBusy
  <1>6. ChanInv'
    BY <1>1, ChannelsAlone DEF ProcTypeOK
  <1> QED
    BY <1>2, <1>3, <1>4, <1>5, <1>6

-----------------------------------------------------------------------------
(* Socket calls.  First what the records that the steps of a call hand on    *)
(* contain, then what the call has made of the state.                        *)

\* What Now and the operators after it return.
Rec(st, ti, t0, ch, bf, ms, nx, er) ==
    [state |-> st, timeout |-> ti, T0 |-> t0, ch |-> ch, buf |-> bf, msg |-> ms,
     nx |-> nx, err |-> er]

\* What Deliver leaves in the registers of the receiver.
Message(p, dst, cap) ==
    [tag |-> Tag(p), cap |-> IF cap THEN buf[dst] ELSE NULL, data |-> Sent(p)]

\* channels after Forget, and buf after Deliver.
Forgotten(p) ==
    LET c == Socket[p].chan IN
    IF IsServer(p) THEN [channels EXCEPT ![c].client = NULL]
    ELSE [channels EXCEPT ![c].server = NULL]

Moved(p, cap) ==
    LET dst == channels[Socket[p].chan].cap_buf
    IN IF cap /\ buf[p] # NULL /\ buf[dst] = NULL
       THEN [buf EXCEPT ![dst] = buf[p], ![p] = NULL] ELSE buf

\* A chain of EXCEPTs as one record, for Forget, Deliver and Failed.
LEMMA ForgetNow ==
    ASSUME NEW h, NEW p
    PROVE  Forget(Now(h), p) =
              Rec(state, timeout, T0, Forgotten(p), buf, msg, cur[h], "SUCCESS")
  BY DEF Forget, Now, Forgotten, Rec

LEMMA DeliverNow ==
    ASSUME NEW h, NEW p, NEW r, NEW cap
    PROVE  Deliver(Forget(Now(h), p), p, r, cap) =
             Rec([state EXCEPT ![r] = Received(p)], timeout, [T0 EXCEPT ![r] = "SUCCESS"],
                 Forgotten(p), Moved(p, cap),
                 [msg EXCEPT ![r] = Message(p, channels[Socket[p].chan].cap_buf, cap)],
                 IF Yields(p) THEN r ELSE cur[h], "SUCCESS")
  <1> DEFINE ST == [state EXCEPT ![r] = Received(p)]
             TT == [T0 EXCEPT ![r] = "SUCCESS"]
             MM == [msg EXCEPT ![r] = Message(p, channels[Socket[p].chan].cap_buf, cap)]
             B  == Moved(p, cap)
             N  == IF Yields(p) THEN r ELSE cur[h]
             F  == Forgotten(p)
             s0 == Rec(state, timeout, T0, F, buf, msg, cur[h], "SUCCESS")
             s1 == Rec(ST, timeout, T0, F, buf, msg, cur[h], "SUCCESS")
             s2 == Rec(ST, timeout, TT, F, buf, msg, cur[h], "SUCCESS")
             s3 == Rec(ST, timeout, TT, F, buf, MM, cur[h], "SUCCESS")
             s4 == Rec(ST, timeout, TT, F, B, MM, cur[h], "SUCCESS")
             s5 == Rec(ST, timeout, TT, F, B, MM, N, "SUCCESS")
  <1>1. Deliver(s0, p, r, cap) =
          [s0 EXCEPT !.state = ST, !.T0 = TT, !.msg = MM, !.buf = B, !.nx = N]
    BY DEF Deliver, Moved, Message, Rec
  <1>2. [s0 EXCEPT !.state = ST] = s1
    BY DEF Rec
  <1>3. [s1 EXCEPT !.T0 = TT] = s2
    BY DEF Rec
  <1>4. [s2 EXCEPT !.msg = MM] = s3
    BY DEF Rec
  <1>5. [s3 EXCEPT !.buf = B] = s4
    BY DEF Rec
  <1>6. [s4 EXCEPT !.nx = N] = s5
    BY DEF Rec
  <1>7. Forget(Now(h), p) = s0
    BY ForgetNow
  <1> HIDE DEF s0, s1, s2, s3, s4, s5, ST, TT, MM, B, N, F
  <1>8. Deliver(Forget(Now(h), p), p, r, cap) = s5
    BY <1>1, <1>2, <1>3, <1>4, <1>5, <1>6, <1>7
  <1> QED
    BY <1>8 DEF s5, ST, TT, MM, B, N, F

(***************************************************************************)
(* What a socket call of the process p of hart h may have done to s:       *)
(* forgotten the receiver r, sent to it, left p to wait.                   *)
(***************************************************************************)
Outcome(s, h, r, did) ==
    LET p == cur[h]
        c == Socket[p].chan
        sent == "sent" \in did
        forgot == "forgot" \in did
        waits == "waits" \in did
        st == IF sent THEN [state EXCEPT ![r] = Received(p)] ELSE state
        ch == IF forgot THEN Forgotten(p) ELSE channels
    IN  /\ forgot \/ waits => p \in sock
        /\ forgot => r = Recv(Now(h), p) /\ r # NULL
        /\ sent => forgot /\ proc_ipc_acquire(r, c)
        /\ forgot /\ ~sent => ~proc_ipc_acquire(r, c)
        /\ waits => /\ "suspended" \notin state[p].flags
                    /\ IF IsServer(p) THEN forgot \/ Recv(Now(h), p) = NULL ELSE sent
        /\ s.state = IF waits THEN [st EXCEPT ![p] = Blocked(c)] ELSE st
        /\ s.timeout = IF waits
                       THEN [timeout EXCEPT ![p] = IF IsServer(p) \/ ~Yields(p)
                                                   THEN "never" ELSE timeout[p]]
                       ELSE timeout
        /\ s.T0 = IF sent THEN [T0 EXCEPT ![r] = "SUCCESS"] ELSE T0
        /\ s.ch = IF waits
                  THEN [ch EXCEPT ![c] = [[@ EXCEPT ![Role(p)] = p] EXCEPT !.cap_buf = p]]
                  ELSE ch
        /\ \E cap \in BOOLEAN :
              /\ s.msg = IF sent
                         THEN [msg EXCEPT ![r] = Message(p, channels[c].cap_buf, cap)]
                         ELSE msg
              /\ \/ s.buf = buf
                 \/ sent /\ s.buf = Moved(p, cap)
                 \/ forgot /\ IsServer(p) /\ s.buf = [buf EXCEPT ![p] = NULL]
        /\ sent /\ Yields(p) => s.nx = r
        /\ ~(sent /\ Yields(p)) => s.nx \in {p, NULL} /\ (waits => s.nx = NULL)
        /\ s.err \in Err
        /\ s.err = "ERR_PREEMPTED" => ~forgot /\ ~waits /\ s.buf = buf

\* s has the fields of such a record and no others.
IsRec(s) == s = Rec(s.state, s.timeout, s.T0, s.ch, s.buf, s.msg, s.nx, s.err)

LEMMA RecFields ==
    ASSUME NEW st, NEW ti, NEW t0, NEW ch, NEW bf, NEW ms, NEW nx, NEW er
    PROVE  LET s == Rec(st, ti, t0, ch, bf, ms, nx, er) IN
           /\ s.state = st /\ s.timeout = ti /\ s.T0 = t0 /\ s.ch = ch
           /\ s.buf = bf /\ s.msg = ms /\ s.nx = nx /\ s.err = er
           /\ IsRec(s)
  BY DEF Rec, IsRec

LEMMA FailedNow ==
    ASSUME NEW h, NEW e
    PROVE  Failed(Now(h), e) = Rec(state, timeout, T0, channels, buf, msg, cur[h], e)
  BY DEF Failed, Now, Rec

\* The same, and what do_send tells its caller.
SendsTo(d, h, r, did) ==
    /\ IsRec(d) /\ Outcome(d, h, r, did) /\ "waits" \notin did
    /\ d.err # "ERR_PREEMPTED" /\ IsServer(cur[h]) => "forgot" \in did \/ r = NULL
    /\ d.err = "SUCCESS" /\ ~IsServer(cur[h]) => "sent" \in did
    /\ ~("sent" \in did /\ Yields(cur[h])) => d.nx = cur[h]

\* do_send gives up, forgets, or forgets and sends, and waits never.
LEMMA SendOutcome ==
    ASSUME IpcTypeOK, NEW h \in Hart, cur[h] \in sock,
           NEW cap \in BOOLEAN, NEW late \in BOOLEAN, NEW short \in BOOLEAN,
           NEW r, r = Recv(Now(h), cur[h]),
           NEW d, d = do_send(Now(h), cur[h], cap, late, short)
    PROVE  \E did : SendsTo(d, h, r, did)
  <1> DEFINE p == cur[h]
             c == Socket[p].chan
  <1>1. CASE late
    <2>1. d = Rec(state, timeout, T0, channels, buf, msg, p, "ERR_PREEMPTED")
      BY <1>1, FailedNow DEF do_send, Failed
    <2>2. Outcome(d, h, r, {}) /\ IsRec(d) /\ d.err = "ERR_PREEMPTED" /\ d.nx = p
      BY <2>1, RecFields DEF Outcome, Err
    <2> QED BY <2>2 DEF SendsTo
  <1>2. CASE ~late /\ (r = NULL \/ (~IsServer(p) /\ Yields(p) /\ short))
    <2>1. d = Rec(state, timeout, T0, channels, buf, msg, p, "ERR_NO_RECEIVER")
      BY <1>2, FailedNow DEF do_send, Failed
    <2>2. Outcome(d, h, r, {}) /\ IsRec(d) /\ d.err = "ERR_NO_RECEIVER" /\ d.nx = p
      BY <2>1, RecFields DEF Outcome, Err
    <2> QED BY <1>2, <2>2 DEF SendsTo
  <1>3. CASE /\ ~late /\ ~(r = NULL \/ (~IsServer(p) /\ Yields(p) /\ short))
             /\ proc_ipc_acquire(r, c)
    <2>1. d = Deliver(Forget(Now(h), p), p, r, cap)
      BY <1>3 DEF do_send
    <2> DEFINE st == [state EXCEPT ![r] = Received(p)]
               t0 == [T0 EXCEPT ![r] = "SUCCESS"]
               ms == [msg EXCEPT ![r] = Message(p, channels[c].cap_buf, cap)]
               nx == IF Yields(p) THEN r ELSE p
    <2>2. d = Rec(st, timeout, t0, Forgotten(p), Moved(p, cap), ms, nx, "SUCCESS")
      BY <2>1, DeliverNow
    <2> HIDE DEF st, t0, ms, nx
    <2>3. /\ IsRec(d) /\ d.state = st /\ d.timeout = timeout /\ d.T0 = t0
          /\ d.ch = Forgotten(p) /\ d.buf = Moved(p, cap) /\ d.msg = ms /\ d.nx = nx
          /\ d.err = "SUCCESS"
      BY <2>2, RecFields
    <2>4. /\ IsRec(d) /\ d.state = [state EXCEPT ![r] = Received(p)] /\ d.timeout = timeout
          /\ d.T0 = [T0 EXCEPT ![r] = "SUCCESS"] /\ d.ch = Forgotten(p)
          /\ d.buf = Moved(p, cap)
          /\ d.msg = [msg EXCEPT ![r] = Message(p, channels[c].cap_buf, cap)]
          /\ d.nx = IF Yields(p) THEN r ELSE p
          /\ d.err = "SUCCESS"
      BY <2>3 DEF st, t0, ms, nx
    <2>5. Outcome(d, h, r, {"forgot", "sent"})
      BY <1>3, <2>4 DEF Outcome, Err
    <2> QED BY <2>4, <2>5 DEF SendsTo
  <1>4. CASE /\ ~late /\ ~(r = NULL \/ (~IsServer(p) /\ Yields(p) /\ short))
             /\ ~proc_ipc_acquire(r, c)
    <2> DEFINE b == IF IsServer(p) THEN [buf EXCEPT ![p] = IF cap THEN NULL ELSE buf[p]] ELSE buf
               e == IF IsServer(p) THEN "SUCCESS" ELSE "ERR_NO_RECEIVER"
    <2>1. d = Missed(Forget(Now(h), p), p, cap)
      BY <1>4 DEF do_send
    <2>2. d = Missed(Rec(state, timeout, T0, Forgotten(p), buf, msg, p, "SUCCESS"), p, cap)
      BY <2>1, ForgetNow
    <2>3. d = Rec(state, timeout, T0, Forgotten(p), b, msg, p, e)
      <3>1. CASE IsServer(p)
        BY <2>2, <3>1 DEF Missed, Rec
      <3>2. CASE ~IsServer(p)
        BY <2>2, <3>2 DEF Missed, Rec
      <3> QED BY <3>1, <3>2
    <2> HIDE DEF b, e
    <2>4. /\ IsRec(d) /\ d.state = state /\ d.timeout = timeout /\ d.T0 = T0 /\ d.nx = p
          /\ d.ch = Forgotten(p) /\ d.buf = b /\ d.msg = msg /\ d.err = e
      BY <2>3, RecFields
    <2>5. e \in Err /\ e # "ERR_PREEMPTED" /\ (~IsServer(p) => e # "SUCCESS")
      BY DEF e, Err
    <2>6. b = buf \/ (IsServer(p) /\ b = [buf EXCEPT ![p] = NULL])
      BY DEF b, IpcTypeOK
    <2>7. Outcome(d, h, r, {"forgot"})
      BY <1>4, <2>4, <2>5, <2>6 DEF Outcome
    <2> QED BY <2>4, <2>5, <2>7 DEF SendsTo
  <1> QED
    BY <1>1, <1>2, <1>3, <1>4

\* do_recv adds that the process waits.
LEMMA ThenRecvOutcome ==
    ASSUME NEW h \in Hart, NEW d, cur[h] \in sock, "suspended" \notin state[cur[h]].flags,
           NEW r, r = Recv(Now(h), cur[h]), NEW did, SendsTo(d, h, r, did),
           IF IsServer(cur[h]) THEN "forgot" \in did \/ r = NULL ELSE "sent" \in did,
           "sent" \in did => r # cur[h]
    PROVE  Outcome(ThenRecv(d, cur[h]), h, r, did \cup {"waits"})
  <1> DEFINE p == cur[h]
             c == Socket[p].chan
             s == ThenRecv(d, p)
  <1>1. /\ s.state = [d.state EXCEPT ![p] = Blocked(c)]
        /\ s.timeout = [d.timeout EXCEPT ![p] = IF IsServer(p) \/ ~Yields(p) THEN "never"
                                                ELSE d.timeout[p]]
        /\ s.T0 = d.T0
        /\ s.ch = [d.ch EXCEPT ![c] = [[@ EXCEPT ![Role(p)] = p] EXCEPT !.cap_buf = p]]
        /\ s.nx = IF d.nx = p THEN NULL ELSE d.nx
        /\ s.buf = d.buf /\ s.msg = d.msg /\ s.err = "ERR_TIMEOUT"
    <2> DEFINE R == Rec(d.state, d.timeout, d.T0, d.ch, d.buf, d.msg, d.nx, d.err)
    <2>1. d = R
      BY DEF IsRec, SendsTo
    <2> HIDE DEF R
    <2>2. s = ThenRecv(R, p)
      BY <2>1
    <2>3. /\ ThenRecv(R, p).state = [d.state EXCEPT ![p] = Blocked(c)]
          /\ ThenRecv(R, p).timeout = [d.timeout EXCEPT ![p] = IF IsServer(p) \/ ~Yields(p)
                                                       THEN "never" ELSE d.timeout[p]]
          /\ ThenRecv(R, p).T0 = d.T0
          /\ ThenRecv(R, p).ch =
               [d.ch EXCEPT ![c] = [[@ EXCEPT ![Role(p)] = p] EXCEPT !.cap_buf = p]]
          /\ ThenRecv(R, p).nx = IF d.nx = p THEN NULL ELSE d.nx
          /\ ThenRecv(R, p).buf = d.buf /\ ThenRecv(R, p).msg = d.msg
          /\ ThenRecv(R, p).err = "ERR_TIMEOUT"
      BY ZenonT(30) DEF R, Rec, ThenRecv, do_recv, Deadline
    <2> QED BY <2>2, <2>3
  <1> HIDE DEF s
  <1>2. "ERR_TIMEOUT" \in Err
    BY DEF Err
  <1>3. s.nx = IF "sent" \in did /\ Yields(p) THEN r ELSE NULL
    BY <1>1 DEF Outcome, SendsTo
  <1>4. Outcome(s, h, r, did \cup {"waits"})
    BY <1>1, <1>2, <1>3 DEF Outcome, SendsTo
  <1> QED
    BY <1>4 DEF s

\* A call that fails at once has done nothing.
LEMMA FailedOutcome ==
    ASSUME NEW h \in Hart, NEW e \in Err, NEW n \in {cur[h], NULL}, NEW s,
           s = Rec(state, timeout, T0, channels, buf, msg, n, e)
    PROVE  Outcome(s, h, NULL, {})
  <1>1. /\ s.state = state /\ s.timeout = timeout /\ s.T0 = T0 /\ s.ch = channels
        /\ s.buf = buf /\ s.msg = msg /\ s.nx = n /\ s.err = e
    BY RecFields
  <1> QED
    BY <1>1 DEF Outcome

\* A process that runs is not one that waits.
LEMMA OtherReceives ==
    ASSUME NEW h \in Hart, IsBusy(cur[h]), NEW r, NEW c \in Chan, proc_ipc_acquire(r, c)
    PROVE  r # cur[h]
  BY WordValues DEF IsBusy, proc_ipc_acquire

(***************************************************************************)
(* Every path through the entry points, kept to what the invariants ask.   *)
(***************************************************************************)
LEMMA SockOutcome ==
    ASSUME IpcTypeOK, NEW h \in Hart, IsBusy(cur[h]),
           cur[h] \in sock => Socket[cur[h]].chan \in Chan,
           NEW cap \in BOOLEAN, NEW late \in BOOLEAN, NEW short \in BOOLEAN, NEW s,
           \/ s = cap_sock_send(Now(h), cur[h], cap, late, short)
           \/ s = cap_sock_sendrecv(Now(h), cur[h], cap, late, short)
    PROVE  \E r, did : Outcome(s, h, r, did)
  <1> DEFINE p == cur[h]
             d == do_send(Now(h), p, cap, late, short)
             r == Recv(Now(h), p)
  <1>0. {"ERR", "ERR_PREEMPTED", "SUCCESS"} \subseteq Err
    BY DEF Err
  <1>1. CASE p \notin sock
    <2>1. s = Failed(Now(h), "ERR")
      BY <1>1 DEF cap_sock_send, cap_sock_sendrecv, Checked
    <2> QED BY <1>0, <2>1, FailedNow, FailedOutcome
  <1>2. CASE p \in sock /\ "suspended" \in state[p].flags
    <2>1. Now(h).state = state
      BY DEF Now
    <2>2. s = [Now(h) EXCEPT !.nx = NULL, !.err = "ERR_PREEMPTED"]
      BY <1>2, <2>1 DEF cap_sock_send, cap_sock_sendrecv, Checked
    <2>3. s = Rec(state, timeout, T0, channels, buf, msg, NULL, "ERR_PREEMPTED")
      BY <2>2 DEF Now, Rec
    <2> QED BY <1>0, <2>3, FailedOutcome
  <1>3. CASE p \in sock /\ "suspended" \notin state[p].flags
    <2>1. Now(h).state = state
      BY DEF Now
    <2> HIDE DEF d, r
    <2>9. d = do_send(Now(h), p, cap, late, short) /\ r = Recv(Now(h), p)
      BY DEF d, r
    <2>2. PICK did : SendsTo(d, h, r, did)
      BY <1>3, <2>9, SendOutcome
    <2>3. "sent" \in did => r # p
      BY <1>3, <2>2, OtherReceives DEF Outcome, SendsTo
    <2>4. \/ s = Failed(Now(h), "ERR") \/ s = d
          \/ IsServer(p) /\ d.err = "ERR_PREEMPTED" /\ s = [d EXCEPT !.nx = NULL]
          \/ IsServer(p) /\ d.err # "ERR_PREEMPTED" /\ s = ThenRecv(d, p)
          \/ ~IsServer(p) /\ d.err = "SUCCESS" /\ s = ThenRecv(d, p)
      <3> QED
        BY <1>3, <2>1 DEF cap_sock_send, cap_sock_sendrecv, Checked, send, call, replyrecv, d
    <2>5. CASE s = Failed(Now(h), "ERR")
      BY <1>0, <2>5, FailedNow, FailedOutcome
    <2>6. CASE s = d
      BY <2>2, <2>6 DEF SendsTo
    <2>7. CASE IsServer(p) /\ d.err = "ERR_PREEMPTED" /\ s = [d EXCEPT !.nx = NULL]
      <3>1. "forgot" \notin did /\ "sent" \notin did /\ "waits" \notin did /\ d.buf = buf
        BY <2>2, <2>7 DEF Outcome, SendsTo
      <3>2. [Rec(d.state, d.timeout, d.T0, d.ch, d.buf, d.msg, d.nx, d.err) EXCEPT !.nx = NULL]
              = Rec(d.state, d.timeout, d.T0, d.ch, d.buf, d.msg, NULL, d.err)
        BY DEF Rec
      <3>3. s = Rec(d.state, d.timeout, d.T0, d.ch, d.buf, d.msg, NULL, d.err)
        BY <2>2, <2>7, <3>2 DEF IsRec, SendsTo
      <3>4. d.state = state /\ d.timeout = timeout /\ d.T0 = T0 /\ d.ch = channels /\ d.msg = msg
        BY <2>2, <3>1 DEF Outcome, SendsTo
      <3>5. s = Rec(state, timeout, T0, channels, buf, msg, NULL, "ERR_PREEMPTED")
        BY <2>7, <3>1, <3>3, <3>4
      <3> QED BY <1>0, <3>5, FailedOutcome
    <2>8. CASE /\ s = ThenRecv(d, p)
               /\ IF IsServer(p) THEN "forgot" \in did \/ r = NULL ELSE "sent" \in did
      <3>1. Outcome(s, h, r, did \cup {"waits"})
        BY <1>3, <2>2, <2>3, <2>8, <2>9, ThenRecvOutcome
      <3> QED BY <3>1
    <2> QED BY <2>2, <2>4, <2>5, <2>6, <2>7, <2>8 DEF SendsTo
  <1> QED
    BY <1>1, <1>2, <1>3

(***************************************************************************)
(* The step itself, process by process.                                    *)
(***************************************************************************)
SockStep(h, r, did) ==
    LET p == cur[h]
        c == Socket[p].chan
        sent == "sent" \in did
        forgot == "forgot" \in did
        waits == "waits" \in did
    IN  /\ p \in Process /\ at[h] = "inside" /\ IsBusy(p)
        /\ forgot \/ waits => p \in sock /\ p \in DOMAIN Socket /\ c \in Chan
        /\ forgot => r \in Process /\ r = IF IsServer(p) THEN channels[c].client
                                          ELSE channels[c].server
        /\ sent => forgot /\ r # p /\ proc_ipc_acquire(r, c)
        /\ forgot /\ ~sent => ~proc_ipc_acquire(r, c)
        /\ waits => /\ "suspended" \notin state[p].flags
                    /\ IF IsServer(p) THEN forgot \/ channels[c].client = NULL ELSE sent
        /\ WordsOK(state')
        /\ \A q \in Process : state'[q] = IF waits /\ q = p THEN Blocked(c)
                                          ELSE IF sent /\ q = r THEN Received(p)
                                          ELSE state[q]
        /\ timeout' \in [Process -> {"later", "passed", "never"}]
        /\ \A q \in Process :
              IF waits /\ q = p
              THEN timeout'[p] = IF IsServer(p) \/ ~Yields(p) THEN "never" ELSE timeout[p]
              ELSE timeout'[q] = timeout[q]
        /\ T0' = IF sent THEN [T0 EXCEPT ![r] = "SUCCESS"] ELSE T0
        /\ channels' \in [Chan -> Channel]
        /\ \A d \in Chan :
              IF d # c THEN channels'[d] = channels[d]
              ELSE /\ channels'[d].server = IF waits /\ IsServer(p) THEN p
                                            ELSE IF forgot /\ ~IsServer(p) THEN NULL
                                            ELSE channels[d].server
                   /\ channels'[d].client = IF waits /\ ~IsServer(p) THEN p
                                            ELSE IF forgot /\ IsServer(p) THEN NULL
                                            ELSE channels[d].client
                   /\ channels'[d].cap_buf = IF waits THEN p ELSE channels[d].cap_buf
        /\ ~forgot /\ ~waits => channels' = channels
        /\ \E cap \in BOOLEAN :
              /\ msg' = IF sent THEN [msg EXCEPT ![r] = Message(p, channels[c].cap_buf, cap)]
                        ELSE msg
              /\ \/ buf' = buf
                 \/ sent /\ buf' = Moved(p, cap)
                 \/ forgot /\ IsServer(p) /\ buf' = [buf EXCEPT ![p] = NULL]
        /\ nxt' = [nxt EXCEPT ![h] = IF sent /\ Yields(p) THEN r
                                     ELSE IF waits THEN NULL ELSE nxt'[h]]
        /\ ~(sent /\ Yields(p)) /\ ~waits => nxt'[h] \in {p, NULL}
        /\ gone' \in [Hart -> BOOLEAN] /\ (gone'[h] <=> waits)
        /\ \A g \in Hart \ {h} : gone'[g] = gone[g]
        /\ at' = [at EXCEPT ![h] = "done"]
        /\ res' = [res EXCEPT ![h] = res'[h]] /\ res'[h] \in Err
        /\ res'[h] = "ERR_PREEMPTED" => ~forgot /\ ~waits /\ buf' = buf
        /\ UNCHANGED <<pending, cur, lock, pmp, hartPmp, sock>>

\* The call is that step; proc_ipc_wait's assertion holds, so it does not hang.
LEMMA SockCallStep ==
    ASSUME IInv, NEW h \in Hart, NEW c, NEW s, NEW r, NEW did,
           SockCall(h, c, s), Outcome(s, h, r, did)
    PROVE  SockStep(h, r, did)
  <1> USE DEF IInv, HartInv, ChanInv
  <1> DEFINE p == cur[h]
             k == Socket[p].chan
             sent == "sent" \in did
             forgot == "forgot" \in did
             waits == "waits" \in did
             st == IF sent THEN [state EXCEPT ![r] = Received(p)] ELSE state
             ch == IF forgot THEN Forgotten(p) ELSE channels
  <1>a. /\ forgot \/ waits => p \in sock
        /\ forgot => r = Recv(Now(h), p) /\ r # NULL
        /\ sent => forgot /\ proc_ipc_acquire(r, k)
    BY DEF Outcome
  <1>b. /\ s.state = IF waits THEN [st EXCEPT ![p] = Blocked(k)] ELSE st
        /\ s.timeout = IF waits
                       THEN [timeout EXCEPT ![p] = IF IsServer(p) \/ ~Yields(p)
                                                   THEN "never" ELSE timeout[p]]
                       ELSE timeout
    BY DEF Outcome
  <1>c. s.ch = IF waits
               THEN [ch EXCEPT ![k] = [[@ EXCEPT ![Role(p)] = p] EXCEPT !.cap_buf = p]]
               ELSE ch
    BY DEF Outcome
  <1>1. p \in Process /\ at[h] = "inside" /\ nxt[h] = p
    BY DEF SockCall, Serves, HartTypeOK, HartShape, SomeProcess
  <1>2. IsBusy(p)
    BY <1>1 DEF Exclusive, Has
  <1>3. forgot \/ waits => p \in sock /\ p \in DOMAIN Socket /\ k \in Chan
    BY SocketAssumption DEF Outcome, IpcTypeOK, ProcTypeOK, Socket
  <1>4. Recv(Now(h), p) = IF IsServer(p) THEN channels[k].client ELSE channels[k].server
    BY DEF Recv, Now
  <1>5. forgot => r \in Process /\ r = Recv(Now(h), p)
    <2>1. forgot => channels[k] \in Channel
      BY <1>3 DEF IpcTypeOK
    <2> QED BY <1>a, <1>4, <2>1 DEF Channel, SomeProcess
  <1>6. sent => forgot /\ r # p /\ proc_ipc_acquire(r, k)
    BY <1>a, <1>2, <1>3, OtherReceives
  <1>7. WordsOK(state) /\ state \in [Process -> Word]
    BY WordsOKState DEF WordsOK
  <1>8. Received(p) \in Word /\ "blocked" \notin Received(p).flags /\ Received(p).chan = 0
    BY WordValues DEF Received
  <1>9. /\ s.state \in [Process -> Word]
        /\ \A q \in Process : s.state[q] = IF waits /\ q = p THEN Blocked(k)
                                           ELSE IF sent /\ q = r THEN Received(p)
                                           ELSE state[q]
    <2>1. st \in [Process -> Word] /\ \A q \in Process : st[q] = IF sent /\ q = r THEN Received(p)
                                                                  ELSE state[q]
      BY <1>5, <1>6, <1>7, <1>8
    <2> HIDE DEF st
    <2>2. waits => Blocked(k) \in Word
      BY <1>3, WordValues
    <2> QED BY <1>1, <1>b, <2>1, <2>2
  <1>10. WordsOK(s.state)
    BY <1>3, <1>7, <1>8, <1>9, WordValues DEF WordsOK
  <1>11. "blocked" \in s.state[p].flags <=> waits
    <2>1. "blocked" \notin state[p].flags
      BY <1>1, <1>2, <1>7 DEF WordsOK, IsBusy
    <2> QED BY <1>1, <1>3, <1>6, <1>9, <2>1, WordValues
  <1>12. waits => KassertWait(p)
    <2>1. waits => "suspended" \notin state[p].flags
      BY DEF Outcome
    <2>2. waits => state[p].flags = {"busy"} /\ state[p].chan = 0
      BY <2>1, <1>1, <1>2, <1>7 DEF WordsOK, IsBusy, Word, Flag
    <2>3. \A x, y \in Word : x.flags = y.flags /\ x.chan = y.chan => x = y
      BY DEF Word
    <2>4. state[p] \in Word
      BY <1>1, <1>7
    <2>5. Busy \in Word /\ Busy.flags = {"busy"} /\ Busy.chan = 0
      BY WordValues
    <2>6. waits => state[p].flags = Busy.flags /\ state[p].chan = Busy.chan
      BY <2>2, <2>5
    <2>7. waits => state[p] = Busy
      BY <2>3, <2>4, <2>5, <2>6
    <2> QED BY <2>7 DEF KassertWait
  <1>13. Commit(h, s)
    BY <1>11, <1>12 DEF SockCall
  <1>15. /\ s.timeout \in [Process -> {"later", "passed", "never"}]
         /\ \A q \in Process :
              IF waits /\ q = p
              THEN s.timeout[p] = IF IsServer(p) \/ ~Yields(p) THEN "never" ELSE timeout[p]
              ELSE s.timeout[q] = timeout[q]
    BY <1>1, <1>b DEF ProcTypeOK
  <1>16. /\ s.ch \in [Chan -> Channel]
         /\ \A d \in Chan :
              IF d # k THEN s.ch[d] = channels[d]
              ELSE /\ s.ch[d].server = IF waits /\ IsServer(p) THEN p
                                       ELSE IF forgot /\ ~IsServer(p) THEN NULL
                                       ELSE channels[d].server
                   /\ s.ch[d].client = IF waits /\ ~IsServer(p) THEN p
                                       ELSE IF forgot /\ IsServer(p) THEN NULL
                                       ELSE channels[d].client
                   /\ s.ch[d].cap_buf = IF waits THEN p ELSE channels[d].cap_buf
         /\ ~forgot /\ ~waits => s.ch = channels
    <2>1. /\ ch \in [Chan -> Channel]
          /\ \A d \in Chan :
               IF d # k THEN ch[d] = channels[d]
               ELSE /\ ch[d].server = IF forgot /\ ~IsServer(p) THEN NULL ELSE channels[d].server
                    /\ ch[d].client = IF forgot /\ IsServer(p) THEN NULL ELSE channels[d].client
                    /\ ch[d].cap_buf = channels[d].cap_buf
      BY <1>3 DEF IpcTypeOK, Channel, SomeProcess, Forgotten
    <2>2. ~forgot => ch = channels
      OBVIOUS
    <2> HIDE DEF ch
    <2>3. CASE ~waits
      BY <1>c, <2>1, <2>2, <2>3
    <2>4. CASE waits
      <3> DEFINE v == [[ch[k] EXCEPT ![Role(p)] = p] EXCEPT !.cap_buf = p]
      <3>1. ch[k] \in Channel
        BY <1>3, <2>1, <2>4
      <3>2. /\ v \in Channel /\ v.cap_buf = p
            /\ v.server = IF IsServer(p) THEN p ELSE ch[k].server
            /\ v.client = IF IsServer(p) THEN ch[k].client ELSE p
        <4>1. CASE IsServer(p)
          BY <1>1, <3>1, <4>1 DEF Role, Channel, SomeProcess
        <4>2. CASE ~IsServer(p)
          BY <1>1, <3>1, <4>2 DEF Role, Channel, SomeProcess
        <4> QED BY <4>1, <4>2
      <3>3. s.ch = [ch EXCEPT ![k] = v]
        BY <1>c, <2>4
      <3> HIDE DEF v
      <3>4. s.ch \in [Chan -> Channel] /\ \A d \in Chan : s.ch[d] = IF d = k THEN v ELSE ch[d]
        BY <2>1, <3>2, <3>3
      <3> QED BY <1>3, <2>1, <2>4, <3>2, <3>4
    <2> QED BY <2>3, <2>4
  <1>17. /\ state' = s.state /\ timeout' = s.timeout /\ T0' = s.T0 /\ channels' = s.ch
         /\ buf' = s.buf /\ msg' = s.msg /\ nxt' = [nxt EXCEPT ![h] = s.nx]
         /\ gone' \in [Hart -> BOOLEAN] /\ (gone'[h] <=> waits)
         /\ \A g \in Hart \ {h} : gone'[g] = gone[g]
         /\ at' = [at EXCEPT ![h] = "done"]
         /\ res' = [res EXCEPT ![h] = s.err]
         /\ UNCHANGED <<pending, cur, lock, pmp, hartPmp, sock>>
    <2>1. gone' = [gone EXCEPT ![h] = "blocked" \in s.state[p].flags]
      BY <1>13 DEF Commit
    <2>3. gone' \in [Hart -> BOOLEAN] /\ \A g \in Hart \ {h} : gone'[g] = gone[g]
      BY <2>1 DEF HartTypeOK
    <2>4. gone'[h] <=> "blocked" \in s.state[p].flags
      BY <2>1 DEF HartTypeOK
    <2>2. gone'[h] <=> waits
      BY <2>4, <1>11
    <2> QED BY <1>13, <2>2, <2>3 DEF Commit, Result, Go, pmpVars
  <1>18. nxt'[h] = s.nx /\ res'[h] = s.err
    BY <1>17 DEF HartTypeOK
  <1> QED
    BY <1>1, <1>2, <1>3, <1>4, <1>5, <1>6, <1>9, <1>10, <1>15, <1>16, <1>17, <1>18
       DEF Outcome, SockStep

(***************************************************************************)
(* Ownership: whoever waits is given up, whoever is woken was nobody's.     *)
(***************************************************************************)
LEMMA SockHart ==
    ASSUME IInv, NEW h \in Hart, NEW r, NEW did, SockStep(h, r, did),
           image' = image
    PROVE  HartInv'
  <1> USE DEF IInv, HartInv
  <1> DEFINE p == cur[h]
             sent == "sent" \in did
             waits == "waits" \in did
  <1>1. p \in Process /\ at[h] = "inside" /\ nxt[h] = p /\ ~gone[h] /\ h \in lock /\ IsBusy(p)
    BY DEF SockStep, HartShape, LockShape
  <1>2. sent => r \in Process /\ r # p /\ ~IsBusy(r)
    BY WordValues DEF SockStep, proc_ipc_acquire, IsBusy
  <1>3. /\ at' = [at EXCEPT ![h] = "done"] /\ res'[h] \in Err
        /\ res' = [res EXCEPT ![h] = res'[h]]
        /\ gone' \in [Hart -> BOOLEAN] /\ (gone'[h] <=> waits)
        /\ \A g \in Hart \ {h} : gone'[g] = gone[g]
        /\ UNCHANGED <<pending, cur, lock, pmp, hartPmp>>
    BY DEF SockStep
  <1>4. PICK n \in SomeProcess : nxt' = [nxt EXCEPT ![h] = n]
    <2>1. sent /\ Yields(p) => r \in SomeProcess
      BY <1>2 DEF SomeProcess
    <2>2. ~(sent /\ Yields(p)) /\ ~waits => nxt'[h] \in SomeProcess
      BY <1>1 DEF SockStep, SomeProcess
    <2>3. NULL \in SomeProcess
      BY DEF SomeProcess
    <2> QED BY <2>1, <2>2, <2>3 DEF SockStep
  <1>5. n = nxt'[h]
    BY <1>4 DEF HartTypeOK
  <1>6. IF sent /\ Yields(p) THEN n = r ELSE n \in {p, NULL} /\ (waits => n = NULL)
    BY <1>4, <1>5 DEF SockStep, HartTypeOK
  <1>7. \A q \in Process : IsBusy(q)' <=> IF q = p THEN ~waits
                                          ELSE IF sent /\ q = r THEN Yields(p) ELSE IsBusy(q)
    <2>1. \A q \in Process : state'[q] = IF waits /\ q = p THEN Blocked(Socket[p].chan)
                                         ELSE IF sent /\ q = r THEN Received(p)
                                         ELSE state[q]
      BY DEF SockStep
    <2>2. waits => "busy" \notin Blocked(Socket[p].chan).flags
      BY DEF Blocked, Is
    <2>3. "busy" \in Received(p).flags <=> Yields(p)
      BY WordValues DEF Received
    <2> QED BY <1>1, <1>2, <2>1, <2>2, <2>3 DEF IsBusy
  <1>8. Moves(h)
    BY <1>3, <1>4 DEF Moves, HartTypeOK
  <1>9. HartTypeOK'
    BY <1>3, <1>4 DEF HartTypeOK, Where
  <1>10. T0' \in [Process -> Err]
    <2>1. T0' = T0 \/ T0' = [T0 EXCEPT ![r] = "SUCCESS"]
      BY DEF SockStep
    <2> QED BY <2>1 DEF ProcTypeOK, Err
  <1>11. WordsOK(state') /\ timeout' \in [Process -> {"later", "passed", "never"}]
    BY DEF SockStep
  <1>12. ProcTypeOK' /\ WordShape'
    BY <1>3, <1>10, <1>11 DEF ProcTypeOK, WordsOK, WordShape
  <1>13. ShapeOf(h)'
    BY <1>1, <1>2, <1>3, <1>5, <1>6, NullIsNoProcess DEF HartTypeOK, ShapeOf
  <1>14. LockShape'
    BY <1>1, <1>3 DEF HartTypeOK, LockShape
  <1>15. \A q \in Process : Has(h, q) <=> q = p
    BY <1>1, NullIsNoProcess DEF Has
  <1>16. at'[h] = "done" /\ cur'[h] = p
    BY <1>3 DEF HartTypeOK
  <1>17. \A q \in Process : Has(h, q)' <=> (q = p /\ ~waits) \/ q = n
    BY <1>3, <1>5, <1>16 DEF Has
  <1>18. \A q \in Process :
            /\ Has(h, q)' => Has(h, q) \/ ~IsBusy(q)
            /\ IsBusy(q)' <=> IF Has(h, q) \/ Has(h, q)' THEN Has(h, q)' ELSE IsBusy(q)
    BY <1>1, <1>2, <1>6, <1>7, <1>15, <1>17, NullIsNoProcess
  <1>19. at[h] # "sched" /\ hartPmp[h].pid = p /\ (pmp[p] = "monitor" => hartPmp[h].by = "monitor")
    BY <1>1 DEF RegistersLoaded
  <1> QED
    BY <1>1, <1>3, <1>7, <1>8, <1>9, <1>12, <1>13, <1>14, <1>16, <1>18, <1>19, HartStep

\* A process plays one role on one channel.
LEMMA Roles ==
    ASSUME IInv, NEW c \in Chan
    PROVE  /\ \A p, q \in Process : Serving(p, c) /\ Serving(q, c) => p = q
           /\ \A d \in Chan, p \in Process :
                (Serving(p, c) \/ Client(p, c)) /\ (Serving(p, d) \/ Client(p, d)) => c = d
           /\ \A p \in Process : ~(Serving(p, c) /\ Client(p, c))
           /\ channels[c].server \in Process => Serving(channels[c].server, c)
           /\ channels[c].client \in Process => Client(channels[c].client, c)
  BY SocketAssumption, NullIsNoProcess
     DEF IInv, HartInv, ChanInv, ProcTypeOK, Registered, Serving, Client, IsServer, Tag, Socket

(***************************************************************************)
(* Channels: a server that waits has no client, so what is sent to it makes*)
(* the sender its client; what it sends goes to that client.               *)
(***************************************************************************)
LEMMA SockChannels ==
    ASSUME IInv, NEW h \in Hart, NEW r, NEW did, SockStep(h, r, did), image' = image
    PROVE  ChanInv'
  <1> DEFINE p == cur[h]
             c == Socket[p].chan
             sent == "sent" \in did
             forgot == "forgot" \in did
             waits == "waits" \in did
  <1>1. /\ p \in Process
        /\ forgot \/ waits => p \in DOMAIN Socket /\ c \in Chan
                              /\ (Serving(p, c) <=> IsServer(p)) /\ (Client(p, c) <=> ~IsServer(p))
    BY DEF SockStep, Serving, Client
  <1>2. /\ forgot => /\ r \in Process
                     /\ r = IF IsServer(p) THEN channels[c].client ELSE channels[c].server
                     /\ IF IsServer(p) THEN Client(r, c) ELSE Serving(r, c)
        /\ sent => forgot /\ r # p /\ state[r] = Blocked(c) /\ timeout[r] # "passed"
        /\ forgot /\ ~sent => ~(state[r] = Blocked(c) /\ timeout[r] # "passed")
    BY <1>1, Roles DEF SockStep, proc_ipc_acquire
  <1>3. waits => IF IsServer(p) THEN forgot \/ channels[c].client = NULL ELSE sent
    BY DEF SockStep
  <1>4. \A q \in Process : state'[q] = IF waits /\ q = p THEN Blocked(c)
                                       ELSE IF sent /\ q = r THEN Received(p) ELSE state[q]
    BY DEF SockStep
  <1>5. \A q \in Process : ~(waits /\ q = p) => timeout'[q] = timeout[q]
    BY DEF SockStep
  <1>6. /\ \A d \in Chan :
              IF d # c THEN channels'[d] = channels[d]
              ELSE /\ channels'[d].server = IF waits /\ IsServer(p) THEN p
                                            ELSE IF forgot /\ ~IsServer(p) THEN NULL
                                            ELSE channels[d].server
                   /\ channels'[d].client = IF waits /\ ~IsServer(p) THEN p
                                            ELSE IF forgot /\ IsServer(p) THEN NULL
                                            ELSE channels[d].client
                   /\ channels'[d].cap_buf = IF waits THEN p ELSE channels[d].cap_buf
        /\ ~forgot /\ ~waits => channels' = channels
        /\ channels' \in [Chan -> Channel]
    BY DEF SockStep
  <1>7. PICK cap \in BOOLEAN :
              /\ msg' = IF sent THEN [msg EXCEPT ![r] = Message(p, channels[c].cap_buf, cap)]
                        ELSE msg
              /\ \/ buf' = buf
                 \/ sent /\ buf' = Moved(p, cap)
                 \/ forgot /\ IsServer(p) /\ buf' = [buf EXCEPT ![p] = NULL]
    BY DEF SockStep
  <1>8. \A q : ~(sent /\ q = r) => msg'[q] = msg[q]
    BY <1>2, <1>7 DEF IInv, ChanInv, IpcTypeOK
  <1>9. sent => /\ msg'[r].tag = Tag(p) /\ msg'[r].data = Sent(p)
    BY <1>2, <1>7 DEF IInv, ChanInv, IpcTypeOK, Message
  <1>10. sock' = sock
    BY DEF SockStep
  <1>11. Received(p) # Blocked(c)
    BY WordValues DEF Received, Blocked, Is, Busy, Ready
  <1>12. IpcTypeOK'
    <2>1. sent => channels[c].cap_buf \in Process
      BY <1>1, <1>2, NullIsNoProcess DEF IInv, ChanInv, IpcTypeOK, Channel, SomeProcess, Registered
    <2>2. NULL \in Int
      BY DEF NULL
    <2>3. buf' \in [Process -> Int]
      BY <1>1, <1>7, <2>1, <2>2 DEF Moved, IInv, ChanInv, IpcTypeOK
    <2>4. sent => Tag(p) \in Int
      BY <1>1, <1>2, SocketAssumption DEF IInv, HartInv, ProcTypeOK, Tag, Socket
    <2> DEFINE Data == Int \X Int \X Int \X Int
    <2>5. sent => Sent(p) \in Data
      <3>1. msg[p].tag \in Int
        BY <1>1 DEF IInv, ChanInv, IpcTypeOK
      <3>2. \A t \in Int : Words(<<t, 1, 2, 3>>) = <<t, 1, 1, 3>>
        BY DEF Words
      <3>3. sent => \E t \in Int : Sent(p) = <<t, 1, 1, 3>>
        BY <2>4, <3>1, <3>2 DEF Sent
      <3> QED BY <3>3
    <2>6. sent => Message(p, channels[c].cap_buf, cap) \in [tag : Int, cap : Int, data : Data]
      BY <2>1, <2>2, <2>4, <2>5 DEF Message, IInv, ChanInv, IpcTypeOK
    <2>7. msg' \in [Process -> [tag : Int, cap : Int, data : Data]]
      <3> HIDE DEF Data
      <3>1. msg \in [Process -> [tag : Int, cap : Int, data : Data]]
        BY DEF IInv, ChanInv, IpcTypeOK, Data
      <3> QED BY <1>7, <2>6, <3>1
    <2>8. sock' \in SUBSET DOMAIN Socket'
      BY <1>10 DEF IInv, ChanInv, IpcTypeOK, Socket
    <2> QED BY <1>6, <2>3, <2>7, <2>8 DEF IpcTypeOK
  <1>13. Registered'
    <2> SUFFICES ASSUME NEW d \in Chan
                 PROVE  /\ channels'[d].server # NULL => Serving(channels'[d].server, d)
                        /\ channels'[d].client # NULL => Client(channels'[d].client, d)
                        /\ channels'[d].server # NULL \/ channels'[d].client # NULL
                              => channels'[d].cap_buf # NULL
      BY DEF Registered, Serving, Client, IsServer, Tag, Socket
    <2>1. /\ channels[d].server # NULL => Serving(channels[d].server, d)
          /\ channels[d].client # NULL => Client(channels[d].client, d)
          /\ channels[d].server # NULL \/ channels[d].client # NULL => channels[d].cap_buf # NULL
      BY DEF IInv, ChanInv, Registered
    <2>2. CASE d # c \/ (~forgot /\ ~waits)
      BY <1>6, <2>1, <2>2
    <2>3. CASE d = c /\ (forgot \/ waits)
      BY <1>1, <1>6, <2>1, <2>3, NullIsNoProcess
    <2> QED BY <2>2, <2>3
  <1>14. ServesLast'
    <2> SUFFICES ASSUME NEW d \in Chan, NEW s \in Process, Serving(s, d),
                        channels'[d].client # NULL
                 PROVE  state'[s] # Blocked(d) /\ msg'[s].tag = Tag(channels'[d].client)
      BY DEF ServesLast, Serving, IsServer, Tag, Socket
    <2>1. channels[d].client # NULL => state[s] # Blocked(d) /\ msg[s].tag = Tag(channels[d].client)
      BY DEF IInv, ChanInv, ServesLast
    <2>2. CASE ~forgot /\ ~waits
      BY <1>2, <1>4, <1>6, <1>8, <2>1, <2>2
    <2>3. CASE (forgot \/ waits) /\ d # c
      <3>1. s # p
        BY <1>1, <2>3, Roles
      <3>2. ~(sent /\ s = r)
        BY <1>1, <1>2, <2>3, Roles
      <3>3. state'[s] = state[s] /\ msg'[s] = msg[s] /\ channels'[d] = channels[d]
        BY <1>4, <1>6, <1>8, <2>3, <3>1, <3>2
      <3> QED BY <2>1, <3>3
    <2>4. CASE (forgot \/ waits) /\ d = c /\ IsServer(p)
      BY <1>3, <1>6, <2>4
    <2>5. CASE (forgot \/ waits) /\ d = c /\ ~IsServer(p)
      <3>1. forgot /\ s = r /\ s # p
        BY <1>1, <1>2, <1>3, <2>5, Roles
      <3>2. CASE sent
        <4>1. channels[c].client = NULL
          BY <1>2, <2>1, <2>5, <3>1, <3>2
        <4>2. channels'[c].client = p
          BY <1>6, <2>5, <4>1
        <4> QED BY <1>4, <1>9, <1>11, <2>5, <3>1, <3>2, <4>2
      <3>3. CASE ~sent
        BY <1>3, <1>4, <1>6, <1>8, <2>1, <2>5, <3>1, <3>3
      <3> QED BY <3>2, <3>3
    <2> QED BY <2>2, <2>3, <2>4, <2>5
  <1>15. AnswersOwnRequest'
    <2> SUFFICES ASSUME NEW q \in DOMAIN Socket, ~IsServer(q), msg'[q] # NoMsg
                 PROVE  msg'[q].data[1] = Tag(q)
      BY DEF AnswersOwnRequest, IsServer, Tag, Socket
    <2>1. CASE sent /\ q = r
      <3>1. IsServer(p) /\ q = channels[c].client /\ Serving(p, c)
        BY <1>1, <1>2, <2>1 DEF Serving
      <3>2. msg[p].tag = Tag(q)
        BY <1>1, <1>2, <2>1, <3>1, NullIsNoProcess DEF IInv, ChanInv, ServesLast
      <3>3. Sent(p) = Words(<<msg[p].tag, 1, 2, 3>>)
        BY <3>1 DEF Sent
      <3>4. Sent(p)[1] = msg[p].tag
        BY <3>3 DEF Words
      <3> QED BY <1>9, <2>1, <3>2, <3>4
    <2>2. CASE ~(sent /\ q = r)
      BY <1>8, <2>2 DEF IInv, ChanInv, AnswersOwnRequest
    <2> QED BY <2>1, <2>2
  <1>16. WaiterKnown'
    <2> SUFFICES ASSUME NEW q \in DOMAIN Socket, NEW d, d = Socket[q].chan,
                        state'[q] = Blocked(d), timeout'[q] = "never",
                        \A o \in DOMAIN Socket : o \in sock \/ (o # q /\ ~IsServer(o))
                 PROVE  channels'[d][Role(q)] = q
      BY <1>10 DEF WaiterKnown, IsServer, Role, Tag, Socket
    <2>1. /\ q \in Process /\ d \in Chan
          /\ (Serving(q, d) <=> IsServer(q)) /\ (Client(q, d) <=> ~IsServer(q))
      BY SocketAssumption DEF IInv, HartInv, ProcTypeOK, Socket, Serving, Client
    <2>2. CASE waits /\ q = p
      BY <1>6, <2>1, <2>2 DEF Role
    <2>3. CASE ~(waits /\ q = p)
      <3>1. ~(sent /\ q = r)
        <4>1. Received(p) # Blocked(d)
          BY WordValues DEF Received, Blocked, Is, Busy, Ready
        <4> QED BY <1>4, <2>1, <2>3, <4>1
      <3>2. state[q] = Blocked(d) /\ timeout[q] = "never"
        BY <1>4, <1>5, <2>1, <2>3, <3>1
      <3>3. channels[d][Role(q)] = q
        BY <3>2 DEF IInv, ChanInv, WaiterKnown
      <3>4. CASE d # c \/ (~forgot /\ ~waits)
        BY <1>6, <2>1, <3>3, <3>4
      <3>5. CASE d = c /\ (forgot \/ waits) /\ IsServer(q)
        <4>1. channels[c].server = q
          BY <3>3, <3>5 DEF Role
        <4>2. ~IsServer(p) \/ p = q
          BY <1>1, <2>1, <3>5, Roles
        <4>3. ~(forgot /\ ~IsServer(p))
          BY <1>2, <3>1, <3>2, <3>5, <4>1
        <4>4. channels'[c].server = q
          BY <1>6, <2>1, <2>3, <3>5, <4>1, <4>2, <4>3
        <4> QED BY <3>5, <4>4 DEF Role
      <3>6. CASE d = c /\ (forgot \/ waits) /\ ~IsServer(q)
        <4>1. channels[c].client = q
          BY <3>3, <3>6 DEF Role
        <4>2. ~(forgot /\ IsServer(p))
          BY <1>2, <3>1, <3>2, <3>6, <4>1
        <4>3. ~(waits /\ ~IsServer(p))
          <5> SUFFICES ASSUME waits, ~IsServer(p) PROVE FALSE
            OBVIOUS
          <5>1. sent /\ Serving(r, c) /\ state[r] = Blocked(c) /\ r \in Process
            BY <1>2, <1>3
          <5>2. channels[c].client = NULL
            BY <1>1, <5>1 DEF IInv, ChanInv, ServesLast
          <5> QED BY <2>1, <4>1, <5>2, NullIsNoProcess
        <4>4. channels'[c].client = q
          BY <1>6, <2>1, <3>6, <4>1, <4>2, <4>3
        <4> QED BY <3>6, <4>4 DEF Role
      <3> QED BY <3>4, <3>5, <3>6
    <2> QED BY <2>2, <2>3
  <1> QED
    BY <1>12, <1>13, <1>14, <1>15, <1>16 DEF ChanInv

\* All of a socket call.
LEMMA SockIInv ==
    ASSUME IInv, NEW h \in Hart, NEW k, NEW s, SockCall(h, k, s),
           NEW cap \in BOOLEAN, NEW late \in BOOLEAN, NEW short \in BOOLEAN,
           \/ s = cap_sock_send(Now(h), cur[h], cap, late, short)
           \/ s = cap_sock_sendrecv(Now(h), cur[h], cap, late, short),
           image' = image
    PROVE  /\ \E r, did : SockStep(h, r, did)
           /\ IInv'
  <1>1. cur[h] \in Process /\ at[h] = "inside" /\ nxt[h] = cur[h]
    BY DEF SockCall, Serves, IInv, HartInv, HartTypeOK, HartShape, SomeProcess
  <1>2. IsBusy(cur[h])
    BY <1>1 DEF IInv, HartInv, Exclusive, Has
  <1>3. cur[h] \in sock => Socket[cur[h]].chan \in Chan
    BY SocketAssumption DEF IInv, HartInv, ChanInv, IpcTypeOK, ProcTypeOK, Socket
  <1>4. IpcTypeOK
    BY DEF IInv, ChanInv
  <1>5. PICK r, did : Outcome(s, h, r, did)
    BY <1>2, <1>3, <1>4, SockOutcome
  <1>6. SockStep(h, r, did)
    BY <1>5, SockCallStep
  <1> QED
    BY <1>6, SockHart, SockChannels DEF IInv

(***************************************************************************)
(* A revocation forgets who waits, and wakes nobody.                       *)
(***************************************************************************)
LEMMA RevokeNothingIInv ==
    ASSUME IInv, NEW h \in Hart, NEW q, RevokeNothing(h, q), image' = image
    PROVE  IInv'
  BY QuietIInv DEF RevokeNothing, Serves, pmpVars, Err, IInv, HartInv, ProcTypeOK

LEMMA RevokeSocketIInv ==
    ASSUME IInv, NEW h \in Hart, NEW q \in DOMAIN Socket, RevokeSocket(h, q),
           image' = image
    PROVE  IInv'
  <1> DEFINE c == Socket[q].chan
  <1>1. /\ at[h] = "inside" /\ Result(h, "SUCCESS")
        /\ sock' = sock \ {q} /\ channels' = cap_sock_clear(q)
        /\ UNCHANGED <<state, timeout, T0, pending, cur, nxt, gone, lock, pmp, hartPmp, buf, msg>>
    BY DEF RevokeSocket, Serves, pmpVars
  <1>2. HartInv'
    <2>1. WordsOK(state') /\ \A p \in Process : IsBusy(p)' <=> IsBusy(p)
      BY <1>1, WordsOKState DEF IInv, IsBusy
    <2> QED BY <1>1, <2>1, ServedStep DEF IInv, HartInv, ProcTypeOK, Err
  <1>3. q \in Process /\ c \in Chan /\ channels \in [Chan -> Channel]
    BY SocketAssumption DEF IInv, HartInv, ChanInv, IpcTypeOK, ProcTypeOK, Socket
  <1>4. /\ channels' \in [Chan -> Channel]
        /\ \A d \in Chan : d # c => channels'[d] = channels[d]
        /\ IsServer(q) => channels'[c] = Idle
        /\ ~IsServer(q) => /\ channels'[c].server = channels[c].server
                           /\ channels'[c].cap_buf = channels[c].cap_buf
                           /\ channels'[c].client = IF channels[c].client = q THEN NULL
                                                    ELSE channels[c].client
    <2>1. CASE IsServer(q)
      BY <1>1, <1>3, <2>1 DEF cap_sock_clear, Idle, Channel, SomeProcess
    <2>2. CASE ~IsServer(q)
      BY <1>1, <1>3, <2>2 DEF cap_sock_clear, Channel, SomeProcess
    <2> QED BY <2>1, <2>2
  <1>5. Idle.server = NULL /\ Idle.client = NULL
    BY DEF Idle
  <1>6. IpcTypeOK'
    BY <1>1, <1>4 DEF IInv, ChanInv, IpcTypeOK, Socket
  <1>7. Registered'
    <2> SUFFICES ASSUME NEW d \in Chan
                 PROVE  /\ channels'[d].server # NULL => Serving(channels'[d].server, d)
                        /\ channels'[d].client # NULL => Client(channels'[d].client, d)
                        /\ channels'[d].server # NULL \/ channels'[d].client # NULL
                              => channels'[d].cap_buf # NULL
      BY DEF Registered, Serving, Client, IsServer, Tag, Socket
    <2> QED BY <1>4, <1>5 DEF IInv, ChanInv, Registered
  <1>8. ServesLast'
    <2> SUFFICES ASSUME NEW d \in Chan, NEW s \in Process, Serving(s, d),
                        channels'[d].client # NULL
                 PROVE  state[s] # Blocked(d) /\ msg[s].tag = Tag(channels'[d].client)
      BY <1>1 DEF ServesLast, Serving, IsServer, Tag, Socket
    <2>1. channels'[d].client = channels[d].client
      BY <1>4, <1>5
    <2> QED BY <2>1 DEF IInv, ChanInv, ServesLast
  <1>9. AnswersOwnRequest'
    BY <1>1 DEF IInv, ChanInv, AnswersOwnRequest, IsServer, Tag, Socket
  <1>10. WaiterKnown'
    <2> SUFFICES ASSUME NEW p \in DOMAIN Socket, NEW d, d = Socket[p].chan,
                        state[p] = Blocked(d), timeout[p] = "never",
                        \A o \in DOMAIN Socket : o \in sock' \/ (o # p /\ ~IsServer(o))
                 PROVE  channels'[d][Role(p)] = p
      BY <1>1 DEF WaiterKnown, IsServer, Role, Tag, Socket
    <2>1. q # p /\ ~IsServer(q)
      BY <1>1
    <2>2. channels[d][Role(p)] = p
      BY <1>1 DEF IInv, ChanInv, WaiterKnown
    <2>3. d \in Chan
      BY SocketAssumption DEF IInv, HartInv, ProcTypeOK, Socket
    <2> QED BY <1>4, <2>1, <2>2, <2>3 DEF Role
  <1> QED
    BY <1>2, <1>6, <1>7, <1>8, <1>9, <1>10 DEF IInv, ChanInv

-----------------------------------------------------------------------------
(* IInv is inductive. *)

LEMMA InitIInv == Init => IInv
  <1> SUFFICES ASSUME Init PROVE IInv
    OBVIOUS
  <1> USE DEF Init, ProcInit, proc_init
  <1>1. /\ at = [h \in Hart |-> "sched"] /\ cur = [h \in Hart |-> NULL]
        /\ nxt = [h \in Hart |-> NULL] /\ gone = [h \in Hart |-> FALSE] /\ lock = {}
    OBVIOUS
  <1>2. HartTypeOK
    BY DEF HartTypeOK, Where, SomeProcess, Err, NoRegisters, SetBy
  <1>3. ProcTypeOK
    <2>1. state \in [Process -> Word]
      BY WordValues
    <2> QED BY <2>1 DEF ProcTypeOK, Err, SetBy
  <1>4. HartShape
    BY <1>1 DEF HartShape
  <1>5. LockShape /\ AssertHolds
    BY <1>1 DEF LockShape, AssertHolds
  <1>6. \A p \in Process : state[p] \in {Ready, Suspended}
    OBVIOUS
  <1>7. WordShape /\ \A p \in Process : ~IsBusy(p)
    BY <1>6, WordValues DEF WordShape, IsBusy
  <1>8. \A h \in Hart, p \in Process : ~Has(h, p)
    BY <1>1, NullIsNoProcess DEF Has
  <1>9. Exclusive /\ RegistersLoaded
    BY <1>1, <1>7, <1>8 DEF Exclusive, RegistersLoaded
  <1>10. IpcTypeOK
    <2>1. channels \in [Chan -> Channel]
      BY DEF Idle, Channel, SomeProcess
    <2>2. buf \in [Process -> Int]
      BY SocketAssumption, <1>3 DEF CapOf, ProcTypeOK
    <2>3. NoMsg \in [tag : Int, cap : Int, data : Int \X Int \X Int \X Int]
      BY DEF NoMsg, NULL
    <2>4. msg \in [Process -> [tag : Int, cap : Int, data : Int \X Int \X Int \X Int]]
      BY <2>3
    <2> QED BY <2>1, <2>2, <2>4 DEF IpcTypeOK
  <1>11. Registered /\ ServesLast
    <2>1. \A c \in Chan : channels[c].server = NULL /\ channels[c].client = NULL
      BY DEF Idle
    <2> QED BY <2>1 DEF Registered, ServesLast
  <1>12. AnswersOwnRequest
    BY SocketAssumption, <1>3 DEF AnswersOwnRequest, ProcTypeOK, Socket
  <1>13. WaiterKnown
    <2>1. \A p \in Process, c \in Chan : state[p] # Blocked(c)
      BY ZenonT(30), <1>6, WordValues
    <2>2. \A p \in DOMAIN Socket : p \in Process /\ Socket[p].chan \in Chan
      BY SocketAssumption, <1>3 DEF ProcTypeOK, Socket
    <2> QED BY <2>1, <2>2 DEF WaiterKnown
  <1> QED
    BY <1>2, <1>3, <1>4, <1>5, <1>7, <1>9, <1>10, <1>11, <1>12, <1>13
       DEF IInv, HartInv, ChanInv

LEMMA StutterIInv ==
    ASSUME IInv, UNCHANGED vars PROVE IInv'
  <1>1. UNCHANGED <<image, state, timeout, T0, pending, at, cur, nxt, res, gone, lock, pmp,
                    hartPmp, sock, channels, buf, msg>>
    BY DEF vars, procVars, pmpVars, ipcVars
  <1>2. HartTypeOK' /\ ProcTypeOK' /\ IpcTypeOK'
    BY <1>1 DEF IInv, HartInv, ChanInv, HartTypeOK, ProcTypeOK, IpcTypeOK, Socket
  <1>3. HartShape' /\ LockShape' /\ WordShape' /\ AssertHolds'
    BY <1>1 DEF IInv, HartInv, HartShape, LockShape, WordShape, AssertHolds
  <1>4. Exclusive' /\ RegistersLoaded'
    BY <1>1 DEF IInv, HartInv, Exclusive, RegistersLoaded, Has, IsBusy
  <1>5. Registered' /\ ServesLast'
    BY <1>1 DEF IInv, ChanInv, Registered, ServesLast, Serving, Client, IsServer, Tag, Socket
  <1>6. AnswersOwnRequest' /\ WaiterKnown'
    BY <1>1 DEF IInv, ChanInv, AnswersOwnRequest, WaiterKnown, IsServer, Role, Tag, Socket
  <1> QED
    BY <1>2, <1>3, <1>4, <1>5, <1>6 DEF IInv, HartInv, ChanInv

LEMMA HartNextIInv ==
    ASSUME IInv, NEW h \in Hart, HartNext(h), ~ClearsTaken(h),
           UNCHANGED <<image, ipcVars>>
    PROVE  IInv'
  <1>1. ASSUME NEW p \in Process, Dispatch(h, p) PROVE IInv'
    BY <1>1, DispatchIInv
  <1>2. CASE Timer(h)
    BY <1>2, TimerIInv
  <1>7. CASE Drop(h)
    <2>1. at[h] = "drop" /\ at'[h] # "drop"
      BY <1>7 DEF Drop, trap_exit_pmp, Enter, Go, IInv, HartInv, HartTypeOK
    <2>2. gone[h] => ~IsBusy(cur[h])
      BY <2>1 DEF ClearsTaken, IsBusy
    <2> QED BY <1>7, <2>2, DropIInv
  <1>3. CASE handle_exception(h) \/ sys_sync_full(h) \/ sys_sync_mem(h)
    BY <1>3, ExceptionIInv, SyncFullIInv, SyncMemIInv
  <1>4. ASSUME NEW p \in Process, NEW c \in Program[p], Syscall(h, c) PROVE IInv'
    BY <1>4, SyscallIInv
  <1>5. CASE sys_pmp_load(h) \/ Done(h)
    BY <1>5, PmpLoadIInv, DoneIInv
  <1>6. ASSUME NEW q \in Process,
               \/ cap_monitor_suspend(h, q) \/ cap_monitor_resume(h, q)
               \/ cap_monitor_state_get(h, q) \/ cap_monitor_yield(h, q)
               \/ cap_monitor_reg_write(h, q) \/ cap_monitor_pmp_load(h, q)
        PROVE  IInv'
    BY <1>6, SuspendIInv, ResumeIInv, StateGetIInv, YieldIInv, RegWriteIInv, MonPmpLoadIInv
  <1> QED
    BY <1>1, <1>2, <1>3, <1>4, <1>5, <1>6, <1>7 DEF HartNext

LEMMA IpcNextIInv ==
    ASSUME IInv, NEW h \in Hart, IpcNext(h), image' = image
    PROVE  IInv'
  <1>1. ASSUME NEW cap \in BOOLEAN, NEW late \in BOOLEAN, NEW short \in BOOLEAN,
               sys_sock_send(h, cap, late, short)
        PROVE  IInv'
    BY <1>1, SockIInv DEF sys_sock_send
  <1>2. ASSUME NEW cap \in BOOLEAN, NEW late \in BOOLEAN, NEW short \in BOOLEAN,
               sys_sock_sendrecv(h, cap, late, short)
        PROVE  IInv'
    BY <1>2, SockIInv DEF sys_sock_sendrecv
  <1>3. ASSUME NEW q \in DOMAIN Socket, RevokeSocket(h, q) \/ RevokeNothing(h, q)
        PROVE  IInv'
    BY <1>3, RevokeSocketIInv, RevokeNothingIInv
  <1> QED
    BY <1>1, <1>2, <1>3 DEF IpcNext

LEMMA NextIInv == IInv /\ [Next]_vars /\ ~stray' => IInv'
  <1> SUFFICES ASSUME IInv, [Next]_vars, ~stray' PROVE IInv'
    OBVIOUS
  <1>1. CASE Watch /\ ProcNext /\ UNCHANGED ipcVars
    <2>1. image' = image /\ \A h \in Hart : ~ClearsTaken(h)
      BY <1>1 DEF ProcNext, Watch
    <2>2. ASSUME NEW h \in Hart, HartNext(h) PROVE IInv'
      BY <1>1, <2>1, <2>2, HartNextIInv
    <2>3. ASSUME NEW p \in Process, Elapse(p) PROVE IInv'
      BY <1>1, <2>1, <2>3, ElapseIInv
    <2> QED BY <1>1, <2>2, <2>3 DEF ProcNext
  <1>2. CASE (\E h \in Hart : IpcNext(h)) /\ UNCHANGED image
    BY <1>2, IpcNextIInv
  <1>3. CASE UNCHANGED vars
    BY <1>3, StutterIInv
  <1> QED
    BY <1>1, <1>2, <1>3 DEF Next

-----------------------------------------------------------------------------
(* Invariants. *)

LEMMA AlwaysIInv == Spec => [](stray \/ IInv)
  <1>1. Init => IInv
    BY InitIInv
  <1>2. stray /\ [Next]_vars => stray'
    BY DEF Next, Watch, vars, procVars
  <1>3. (stray \/ IInv) /\ [Next]_vars => (stray \/ IInv)'
    BY <1>2, NextIInv
  <1> QED
    BY <1>1, <1>3, PTL DEF Spec

(***************************************************************************)
(* Every variable of harts, processes and channels stays in its type, until*)
(* trap.S releases a process that another hart has taken.                  *)
(***************************************************************************)
THEOREM TypesKept == Spec => [](stray \/ TypeOK)
  <1>1. IInv => TypeOK
    BY DEF IInv, HartInv, ChanInv, TypeOK
  <1> QED
    BY <1>1, AlwaysIInv, PTL

(***************************************************************************)
(* A process is busy exactly while one hart has it: proc_acquire's         *)
(* compare-exchange and the early releases of a full sync, a yield and a   *)
(* receive never lose a process or give it to two harts.  What does is only*)
(* the flag that trap.S clears again, of a process taken in between.       *)
(***************************************************************************)
THEOREM OwnerIsOne == Spec => []OneOwner
  <1>1. stray \/ IInv => OneOwner
    <2> SUFFICES ASSUME IInv, NEW p \in Process
                 PROVE  Cardinality({h \in Hart : p \in Owned(h)}) =
                           IF "busy" \in state[p].flags THEN 1 ELSE 0
      BY DEF OneOwner
    <2> DEFINE owners == {h \in Hart : p \in Owned(h)}
    <2>1. owners = {h \in Hart : Has(h, p)}
      BY DEF Owned, Has
    <2>2. CASE IsBusy(p)
      <3>1. PICK h \in Hart : Has(h, p)
        BY <2>2 DEF IInv, HartInv, Exclusive
      <3>2. owners = {h}
        BY <2>1, <3>1 DEF IInv, HartInv, Exclusive
      <3> HIDE DEF owners
      <3>3. Cardinality(owners) = 1
        BY <3>2, FS_Singleton
      <3> QED BY <2>2, <3>3 DEF owners, IsBusy
    <2>3. CASE ~IsBusy(p)
      <3>1. owners = {}
        BY <2>1, <2>3 DEF IInv, HartInv, Exclusive
      <3> HIDE DEF owners
      <3>2. Cardinality(owners) = 0
        BY <3>1, FS_EmptySet
      <3> QED BY <2>3, <3>2 DEF owners, IsBusy
    <2> QED BY <2>2, <2>3
  <1> QED
    BY <1>1, AlwaysIInv, PTL

(***************************************************************************)
(* The assertions of proc_release and proc_ipc_wait fail only after a hart *)
(* has released a process that another hart had taken.                     *)
(***************************************************************************)
THEOREM HangNeedsStray == Spec => []StrayBeforeHang
  <1>1. stray \/ IInv => StrayBeforeHang
    BY DEF IInv, HartInv, StrayBeforeHang
  <1> QED
    BY <1>1, AlwaysIInv, PTL

(***************************************************************************)
(* A process in user mode runs with its own PMP registers, as the monitor  *)
(* left them, although trap.S loads them only when the hart changes process*)
(* or is asked to.                                                         *)
(***************************************************************************)
THEOREM RunsWithOwnRegisters == Spec => [](stray \/ OwnRegisters)
  <1>1. IInv => OwnRegisters
    BY DEF IInv, HartInv, RegistersLoaded, HartShape, OwnRegisters
  <1> QED
    BY <1>1, AlwaysIInv, PTL

(***************************************************************************)
(* What do_send delivers to a client is the answer to that client's request*)
(* whatever calls, timeouts and revocations came in between.               *)
(***************************************************************************)
THEOREM AnswerIsOwn == Spec => [](stray \/ AnswersOwnRequest)
  <1>1. IInv => AnswersOwnRequest
    BY DEF IInv, ChanInv
  <1> QED
    BY <1>1, AlwaysIInv, PTL

(***************************************************************************)
(* A process left waiting for ever by do_recv stays registered with its    *)
(* channel until a revocation.                                             *)
(***************************************************************************)
THEOREM WaiterIsKnown == Spec => [](stray \/ WaiterKnown)
  <1>1. IInv => WaiterKnown
    BY DEF IInv, ChanInv
  <1> QED
    BY <1>1, AlwaysIInv, PTL

-----------------------------------------------------------------------------
(* What a step may not do. *)

LEMMA IpcNextIs ==
    ASSUME IInv, NEW h \in Hart, IpcNext(h), image' = image
    PROVE  \/ \E r, did : SockStep(h, r, did)
           \/ \E q \in DOMAIN Socket : RevokeSocket(h, q) \/ RevokeNothing(h, q)
  <1>1. ASSUME NEW cap \in BOOLEAN, NEW late \in BOOLEAN, NEW short \in BOOLEAN,
               sys_sock_send(h, cap, late, short)
        PROVE  \E r, did : SockStep(h, r, did)
    BY <1>1, SockIInv DEF sys_sock_send
  <1>2. ASSUME NEW cap \in BOOLEAN, NEW late \in BOOLEAN, NEW short \in BOOLEAN,
               sys_sock_sendrecv(h, cap, late, short)
        PROVE  \E r, did : SockStep(h, r, did)
    BY <1>2, SockIInv DEF sys_sock_sendrecv
  <1> QED
    BY <1>1, <1>2 DEF IpcNext

\* No step but a resume ends a suspension: action by action.
SuspensionKept ==
    \A p \in Process : "suspended" \in state[p].flags => "suspended" \in state'[p].flags

LEMMA ReleasedKeeps ==
    ASSUME IInv, NEW p \in Process, state' = Released(state, p)
    PROVE  SuspensionKept
  <1>1. WordsOK(state)
    BY WordsOKState DEF IInv
  <1>2. /\ \A q \in Process : q # p => state'[q] = state[q]
        /\ state'[p].flags = state[p].flags \ {"busy"}
    BY <1>1, ReleasedWord
  <1> QED
    BY <1>2 DEF SuspensionKept

LEMMA AcquiredKeeps ==
    ASSUME IInv, NEW q \in Process, Acquirable(q), NEW p \in Process,
           \/ state' = [state EXCEPT ![q] = Busy]
           \/ state' = Released([state EXCEPT ![q] = Busy], p)
    PROVE  SuspensionKept
  <1> DEFINE w == [state EXCEPT ![q] = Busy]
  <1>1. WordsOK(w) /\ \A r \in Process : r # q => w[r] = state[r]
    BY WordsOKState, WordValues DEF WordsOK, IInv
  <1>2. "suspended" \notin state[q].flags
    BY DEF Acquirable
  <1>3. state' = w \/ state' = Released(w, p)
    OBVIOUS
  <1> HIDE DEF w
  <1>4. /\ \A r \in Process : r # p => Released(w, p)[r] = w[r]
        /\ Released(w, p)[p].flags = w[p].flags \ {"busy"}
    BY <1>1, ReleasedWord
  <1> QED
    BY <1>1, <1>2, <1>3, <1>4 DEF SuspensionKept

LEMMA SuspendedKeeps ==
    ASSUME IInv, NEW q \in Process, proc_suspend(q)
    PROVE  SuspensionKept
  BY SuspendWord, WordsOKState DEF SuspensionKept, IInv, HartInv

LEMMA HartNextKeeps ==
    ASSUME IInv, NEW h \in Hart, HartNext(h)
    PROVE  SuspensionKept \/ \E q \in Process : /\ cap_monitor_resume(h, q)
                                                /\ \A p \in Process : p # q => state'[p] = state[p]
  <1>1. ASSUME NEW p \in Process, Dispatch(h, p) PROVE SuspensionKept
    BY <1>1, AcquiredKeeps DEF Dispatch, proc_acquire
  <1>2. CASE Timer(h) \/ Drop(h)
    <2>1. cur[h] \in Process /\ state' = Released(state, cur[h])
      BY <1>2 DEF Timer, Drop, IInv, HartInv, HartShape, HartTypeOK, SomeProcess
    <2> QED BY <2>1, ReleasedKeeps
  <1>3. CASE handle_exception(h)
    <2>1. cur[h] \in Process /\ proc_suspend(cur[h])
      BY <1>3 DEF handle_exception, Trapped, IInv, HartInv, HartShape, HartTypeOK, SomeProcess
    <2> QED BY <2>1, SuspendedKeeps
  <1>4. CASE sys_sync_full(h)
    <2>1. cur[h] \in Process /\ (state' = Released(state, cur[h]) \/ state' = state)
      BY <1>4 DEF sys_sync_full, Hang, Trapped, IInv, HartInv, HartShape, HartTypeOK, SomeProcess
    <2> QED BY <2>1, ReleasedKeeps DEF SuspensionKept
  <1>5. CASE sys_sync_mem(h) \/ sys_pmp_load(h) \/ Done(h)
    BY <1>5 DEF sys_sync_mem, sys_pmp_load, Done, SuspensionKept
  <1>6. ASSUME NEW p \in Process, NEW c \in Program[p], Syscall(h, c) PROVE SuspensionKept
    BY <1>6 DEF Syscall, SuspensionKept
  <1>7. ASSUME NEW q \in Process, cap_monitor_suspend(h, q) PROVE SuspensionKept
    BY <1>7, SuspendedKeeps DEF cap_monitor_suspend
  <1>8. ASSUME NEW q \in Process, cap_monitor_resume(h, q)
        PROVE  \A p \in Process : p # q => state'[p] = state[p]
    BY <1>8, ResumeWord, WordsOKState DEF cap_monitor_resume, IInv, HartInv
  <1>9. ASSUME NEW q \in Process, cap_monitor_yield(h, q) PROVE SuspensionKept
    <2>1. cur[h] \in Process /\ IsBusy(cur[h])
      BY <1>9 DEF cap_monitor_yield, Serves, IInv, HartInv, HartShape, HartTypeOK, Exclusive, Has,
                  SomeProcess
    <2>2. CASE ~Acquirable(q)
      BY <1>9, <2>2 DEF cap_monitor_yield, SuspensionKept
    <2>3. CASE Acquirable(q)
      <3>1. state' = Released([state EXCEPT ![q] = Busy], cur[h]) /\ cur[h] # q
        BY <1>9, <2>1, <2>3 DEF cap_monitor_yield, KassertBusy, IsBusy, Acquirable
      <3> QED BY <2>1, <2>3, <3>1, AcquiredKeeps
    <2> QED BY <2>2, <2>3
  <1>10. ASSUME NEW q \in Process, \/ cap_monitor_state_get(h, q) \/ cap_monitor_reg_write(h, q)
                                   \/ cap_monitor_pmp_load(h, q)
         PROVE  SuspensionKept
    BY <1>10 DEF cap_monitor_state_get, cap_monitor_reg_write, cap_monitor_pmp_load, SuspensionKept
  <1> QED
    BY <1>1, <1>2, <1>3, <1>4, <1>5, <1>6, <1>7, <1>8, <1>9, <1>10 DEF HartNext

LEMMA SockKeeps ==
    ASSUME IInv, NEW h, NEW r, NEW did, SockStep(h, r, did)
    PROVE  SuspensionKept
  BY WordValues DEF SockStep, SuspensionKept, proc_ipc_acquire

(***************************************************************************)
(* Only proc_resume, in a monitor's call, takes PSF_SUSPENDED out of a     *)
(* state word.                                                             *)
(***************************************************************************)
THEOREM SuspensionStays == Spec => StaysSuspended
  <1>1. ASSUME IInv, [Next]_vars,
               NEW p \in Process, "suspended" \in state[p].flags, "suspended" \notin state'[p].flags
        PROVE  \E h \in Hart : cap_monitor_resume(h, p)
    <2>1. ~SuspensionKept
      BY <1>1 DEF SuspensionKept
    <2>2. CASE ProcNext /\ UNCHANGED ipcVars
      <3>1. PICK h \in Hart : HartNext(h)
        BY <1>1, <2>2 DEF ProcNext, Elapse
      <3> QED BY <1>1, <2>1, <3>1, HartNextKeeps
    <2>3. CASE (\E h \in Hart : IpcNext(h)) /\ UNCHANGED image
      <3>1. PICK h \in Hart : IpcNext(h)
        BY <2>3
      <3>2. CASE \E q \in DOMAIN Socket : RevokeSocket(h, q) \/ RevokeNothing(h, q)
        BY <1>1, <3>2 DEF RevokeSocket, RevokeNothing
      <3> QED BY <1>1, <2>1, <2>3, <3>1, <3>2, IpcNextIs, SockKeeps
    <2>4. CASE UNCHANGED vars
      BY <1>1, <2>4 DEF vars, procVars
    <2> QED BY <1>1, <2>2, <2>3, <2>4 DEF Next
  <1>2. (stray \/ IInv) /\ [Next]_vars
          => [~stray => \A p \in Process :
                "suspended" \in state[p].flags /\ "suspended" \notin state'[p].flags
                   => \E h \in Hart : cap_monitor_resume(h, p)]_vars
    BY <1>1
  <1> QED
    BY <1>2, AlwaysIInv, PTL DEF Spec, StaysSuspended

\* Another hart than h leaves h where it is, and h comes from inside to done only
\* by a call it serves.
LEMMA HartNextServes ==
    ASSUME IInv, NEW g \in Hart, HartNext(g), NEW h \in Hart, at[h] = "inside", at'[h] = "done"
    PROVE  res'[h] \in {"SUCCESS", "ERR"}
  <1>0. at \in [Hart -> Where] /\ res \in [Hart -> Err]
    BY DEF IInv, HartInv, HartTypeOK
  <1>1. \E w : at' = [at EXCEPT ![g] = w]
    BY DEF HartNext, Dispatch, trap_exit_pmp, Enter, Go, Timer, Drop, handle_exception,
           sys_sync_full, Hang, sys_sync_mem, Syscall, sys_pmp_load, Result, Done,
           cap_monitor_suspend, cap_monitor_resume, cap_monitor_state_get, cap_monitor_yield,
           cap_monitor_reg_write, cap_monitor_pmp_load
  <1>2. g = h
    BY <1>0, <1>1
  <1>3. \/ sys_pmp_load(g)
        \/ \E q \in Process :
              \/ cap_monitor_suspend(g, q) \/ cap_monitor_resume(g, q)
              \/ cap_monitor_state_get(g, q) \/ cap_monitor_yield(g, q)
              \/ cap_monitor_reg_write(g, q) \/ cap_monitor_pmp_load(g, q)
    BY <1>2 DEF HartNext, Dispatch, Timer, Drop, handle_exception, sys_sync_full, sys_sync_mem,
                Syscall, Trapped, Done
  <1>4. Result(g, "SUCCESS") \/ Result(g, "ERR") \/ Hang(g)
    BY <1>3 DEF sys_pmp_load, cap_monitor_suspend, cap_monitor_resume, cap_monitor_state_get,
                cap_monitor_yield, cap_monitor_reg_write, cap_monitor_pmp_load
  <1> QED
    BY <1>0, <1>2, <1>4 DEF Result, Hang, Go

LEMMA SockPreempted ==
    ASSUME IInv, NEW h \in Hart, NEW r, NEW did, SockStep(h, r, did), res'[h] = "ERR_PREEMPTED"
    PROVE  UNCHANGED <<state, timeout, T0, pmp, ipcVars>>
  <1>1. /\ "forgot" \notin did /\ "waits" \notin did /\ "sent" \notin did
        /\ buf' = buf /\ channels' = channels /\ sock' = sock
        /\ T0' = T0 /\ msg' = msg /\ pmp' = pmp
    BY DEF SockStep
  <1>2. /\ WordsOK(state') /\ \A q \in Process : state'[q] = state[q]
        /\ timeout' \in [Process -> {"later", "passed", "never"}]
        /\ \A q \in Process : timeout'[q] = timeout[q]
    BY <1>1 DEF SockStep
  <1>3. state' = state /\ timeout' = timeout
    BY <1>2 DEF WordsOK, IInv, HartInv, ProcTypeOK
  <1> QED
    BY <1>1, <1>3 DEF ipcVars

(***************************************************************************)
(* A call that returns ERR_PREEMPTED, which the library makes again, has   *)
(* left processes, channels, buffers and messages as they were.            *)
(***************************************************************************)
THEOREM NothingDoneTwice == Spec => PreemptedDidNothing
  <1>1. ASSUME IInv, [Next]_vars, NEW h \in Hart,
               at[h] = "inside", at'[h] = "done", res'[h] = "ERR_PREEMPTED"
        PROVE  UNCHANGED <<state, timeout, T0, pmp, ipcVars>>
    <2>1. CASE ProcNext /\ UNCHANGED ipcVars
      <3>1. PICK g \in Hart : HartNext(g)
        BY <1>1, <2>1 DEF ProcNext, Elapse
      <3> QED BY <1>1, <3>1, HartNextServes
    <2>2. CASE (\E g \in Hart : IpcNext(g)) /\ UNCHANGED image
      <3>1. PICK g \in Hart : IpcNext(g)
        BY <2>2
      <3>2. at \in [Hart -> Where] /\ res \in [Hart -> Err]
        BY <1>1 DEF IInv, HartInv, HartTypeOK
      <3>3. CASE \E q \in DOMAIN Socket : RevokeSocket(g, q) \/ RevokeNothing(g, q)
        BY <1>1, <3>2, <3>3 DEF RevokeSocket, RevokeNothing, Result, Go
      <3>4. ASSUME NEW r, NEW did, SockStep(g, r, did)
            PROVE  UNCHANGED <<state, timeout, T0, pmp, ipcVars>>
        <4>1. g = h
          BY <1>1, <3>2, <3>4 DEF SockStep
        <4> QED BY <1>1, <3>4, <4>1, SockPreempted
      <3> QED BY <1>1, <2>2, <3>1, <3>3, <3>4, IpcNextIs
    <2>3. CASE UNCHANGED vars
      BY <1>1, <2>3 DEF vars, procVars
    <2> QED BY <1>1, <2>1, <2>2, <2>3 DEF Next
  <1>2. (stray \/ IInv) /\ [Next]_vars
          => [~stray => \A h \in Hart :
                (at[h] = "inside" /\ at'[h] = "done" /\ res'[h] = "ERR_PREEMPTED")
                   => UNCHANGED <<state, timeout, T0, pmp, ipcVars>>]_vars
    BY <1>1
  <1> QED
    BY <1>2, AlwaysIInv, PTL DEF Spec, PreemptedDidNothing

LEMMA SockMovesCap ==
    ASSUME IInv, NEW h \in Hart, NEW r, NEW did, SockStep(h, r, did),
           NEW p \in Process, ~IsServer(p), buf[p] # NULL, buf'[p] # buf[p]
    PROVE  \E q \in Process : buf'[q] = buf[p]
  <1> DEFINE o == cur[h]
             c == Socket[o].chan
             dst == channels[c].cap_buf
  <1>1. o \in Process /\ buf \in [Process -> Int]
    BY DEF SockStep, IInv, ChanInv, IpcTypeOK
  <1>2. PICK cap \in BOOLEAN : \/ "sent" \in did /\ buf' = Moved(o, cap)
                               \/ IsServer(o) /\ buf' = [buf EXCEPT ![o] = NULL]
    BY DEF SockStep
  <1>3. CASE IsServer(o) /\ buf' = [buf EXCEPT ![o] = NULL]
    BY <1>1, <1>3
  <1>4. CASE "sent" \in did /\ buf' = Moved(o, cap)
    <2>1. /\ o \in DOMAIN Socket /\ c \in Chan /\ r \in Process
          /\ r = IF IsServer(o) THEN channels[c].client ELSE channels[c].server
      BY <1>4 DEF SockStep
    <2>2. dst \in Process
      BY <2>1, NullIsNoProcess DEF IInv, ChanInv, IpcTypeOK, Channel, SomeProcess, Registered
    <2>3. buf' = [buf EXCEPT ![dst] = buf[o], ![o] = NULL] /\ buf[o] # NULL /\ buf[dst] = NULL
      BY <1>4 DEF Moved
    <2> QED BY <1>1, <2>2, <2>3
  <1> QED
    BY <1>2, <1>3, <1>4

(***************************************************************************)
(* do_send takes a capability out of a client's buffer entry only by moving*)
(* it to another entry.                                                    *)
(***************************************************************************)
THEOREM CapIsKept == Spec => ClientKeepsCap
  <1>1. ASSUME IInv, [Next]_vars, NEW p \in DOMAIN Socket,
               ~IsServer(p), buf[p] # NULL, buf'[p] # buf[p]
        PROVE  \E q \in Process : buf'[q] = buf[p]
    <2>1. p \in Process
      BY <1>1, SocketAssumption DEF IInv, HartInv, ProcTypeOK, Socket
    <2>2. PICK h \in Hart : IpcNext(h) /\ image' = image
      BY <1>1 DEF Next, vars, ipcVars
    <2>3. ~\E q \in DOMAIN Socket : RevokeSocket(h, q) \/ RevokeNothing(h, q)
      BY <1>1 DEF RevokeSocket, RevokeNothing, ipcVars
    <2> QED BY <1>1, <2>1, <2>2, <2>3, IpcNextIs, SockMovesCap
  <1>2. (stray \/ IInv) /\ [Next]_vars
          => [~stray => \A p \in DOMAIN Socket :
                ~IsServer(p) /\ buf[p] # NULL /\ buf'[p] # buf[p] =>
                   \E q \in Process : buf'[q] = buf[p]]_vars
    BY <1>1
  <1> QED
    BY <1>2, AlwaysIInv, PTL DEF Spec, ClientKeepsCap
=============================================================================
