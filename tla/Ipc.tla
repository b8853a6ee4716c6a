-------------------------------- MODULE Ipc --------------------------------
(***************************************************************************)
(* Messages between processes, kernel/src/cap_ipc.c, on top of the harts   *)
(* and processes of Proc: a channel knows the server and the client that   *)
(* wait on it and one buffer for a capability.  A socket call holds the    *)
(* kernel lock, and all it does to the channel, to the receiver and to its *)
(* own process is one step; other harts see it in the state words, and may *)
(* take a process it has blocked or released before the hart is out.       *)
(*                                                                         *)
(* A message is the sender's tag, a capability and four words.  A program  *)
(* sends as the first word its own tag, or, answering, the tag of the      *)
(* request it has received last.                                           *)
(***************************************************************************)
EXTENDS Proc

\* A channel has one server (CapSafety's UniqueServer).
ASSUME SocketAssumption ==
    \A i \in Images :
        /\ i.cap \in [Process -> Int]
        /\ \A p \in DOMAIN i.socket :
              /\ p \in Process /\ i.socket[p].chan \in Chan /\ i.socket[p].tag \in Nat
              /\ \A q \in DOMAIN i.socket :
                    /\ i.socket[p].tag = 0 /\ i.socket[q].tag = 0
                    /\ i.socket[p].chan = i.socket[q].chan
                    => p = q

VARIABLES sock,      \* the processes whose socket still exists
          channels,  \* channels[c].server, .client and .cap_buf
          buf,       \* the capability in each process's buffer entry, or NULL
          msg        \* what arrived in A0 to A5

ipcVars == <<sock, channels, buf, msg>>
vars == <<procVars, ipcVars>>

\* The socket p calls with, and the capability in p's buffer entry at boot.
Socket == image.socket
CapOf == image.cap

NoMsg == [tag |-> 0, cap |-> NULL, data |-> <<0, 0, 0, 0>>]
Idle == [server |-> NULL, client |-> NULL, cap_buf |-> NULL]

Tag(p) == Socket[p].tag
IsServer(p) == Tag(p) = 0
Role(p) == IF IsServer(p) THEN "server" ELSE "client"
Yields(p) == Socket[p].mode = "yield"

Init ==
    /\ ProcInit
    /\ sock = DOMAIN Socket
    /\ channels = [c \in Chan |-> Idle]
    /\ buf = CapOf
    /\ msg = [p \in Process |-> NoMsg]

-----------------------------------------------------------------------------
proc_ipc_acquire(p, c) == state[p] = Blocked(c) /\ timeout[p] # "passed"

\* handle_syscall's copy of the words: the third is the second.
Words(w) == <<w[1], w[2], w[2], w[4]>>

Sent(p) == Words(<<IF IsServer(p) THEN msg[p].tag ELSE Tag(p), 1, 2, 3>>)

(***************************************************************************)
(* What a call makes of the kernel's data, as a record that the steps of   *)
(* the call hand on: nx is *next, err the result.                          *)
(***************************************************************************)
Now(h) == [state |-> state, timeout |-> timeout, T0 |-> T0, ch |-> channels,
           buf |-> buf, msg |-> msg, nx |-> cur[h], err |-> "SUCCESS"]

Received(p) == IF Yields(p) THEN Busy ELSE Ready

\* do_send reaches a receiver that waits: registers, capability, and who runs.
\* A1 gets what is in the buffer entry before the move; cap_move leaves both
\* entries alone when there is nothing to move or no room.
Deliver(s, p, recv, cap) ==
    LET dst == channels[Socket[p].chan].cap_buf
        moves == cap /\ s.buf[p] # NULL /\ s.buf[dst] = NULL
    IN  [s EXCEPT
           !.state[recv] = Received(p),
           !.T0[recv] = "SUCCESS",
           !.msg[recv] = [tag |-> Tag(p),
                          cap |-> IF cap THEN s.buf[dst] ELSE NULL,
                          data |-> Sent(p)],
           !.buf = IF moves THEN [@ EXCEPT ![dst] = s.buf[p], ![p] = NULL] ELSE @,
           !.nx = IF Yields(p) THEN recv ELSE @]

\* Mutant of Missed: the capability is deleted whoever sends it.
MissedDeletes(s, p, cap) ==
    [s EXCEPT !.buf[p] = IF cap THEN NULL ELSE @,
              !.err = IF IsServer(p) THEN "SUCCESS" ELSE "ERR_NO_RECEIVER"]

\* The receiver waits no longer: what a server sends with the answer is deleted.
Missed(s, p, cap) ==
    IF IsServer(p) THEN [s EXCEPT !.buf[p] = IF cap THEN NULL ELSE @]
    ELSE [s EXCEPT !.err = "ERR_NO_RECEIVER"]

Recv(s, p) == LET ch == s.ch[Socket[p].chan] IN
              IF IsServer(p) THEN ch.client ELSE ch.server

Forget(s, p) ==
    LET c == Socket[p].chan IN
    IF IsServer(p) THEN [s EXCEPT !.ch[c].client = NULL]
    ELSE [s EXCEPT !.ch[c].server = NULL]

\* Mutant of do_send: the receiver is taken off the channel before the time left
\* is looked at.
SendForgetsFirst(s, p, cap, late, short) ==
    LET recv == Recv(s, p) IN
    IF recv = NULL THEN [s EXCEPT !.err = "ERR_NO_RECEIVER"]
    ELSE IF late THEN [Forget(s, p) EXCEPT !.err = "ERR_PREEMPTED"]
    ELSE IF ~IsServer(p) /\ Yields(p) /\ short
    THEN [Forget(s, p) EXCEPT !.err = "ERR_NO_RECEIVER"]
    ELSE IF proc_ipc_acquire(recv, Socket[p].chan)
    THEN Deliver(Forget(s, p), p, recv, cap)
    ELSE Missed(Forget(s, p), p, cap)

\* late: the hart's time is over; short: less is left than the server asks for.
do_send(s, p, cap, late, short) ==
    LET recv == Recv(s, p) IN
    IF late THEN [s EXCEPT !.err = "ERR_PREEMPTED"]
    ELSE IF recv = NULL \/ (~IsServer(p) /\ Yields(p) /\ short)
    THEN [s EXCEPT !.err = "ERR_NO_RECEIVER"]
    ELSE IF proc_ipc_acquire(recv, Socket[p].chan)
    THEN Deliver(Forget(s, p), p, recv, cap)
    ELSE Missed(Forget(s, p), p, cap)

\* Mutant of Deadline: every process that waits does so for ever.
DeadlineNever(s, p) == "never"

\* A client that yields waits until the end of its slice, the others for ever.
Deadline(s, p) == IF IsServer(p) \/ ~Yields(p) THEN "never" ELSE s.timeout[p]

do_recv(s, p) ==
    LET c == Socket[p].chan IN
    [s EXCEPT !.ch[c][Role(p)] = p,
              !.ch[c].cap_buf = p,
              !.timeout[p] = Deadline(s, p),
              !.state[p] = Blocked(c)]

\* IPC_SCAP for a server that sends or a client that receives, IPC_CCAP for the
\* other direction.
MaySend(p) == (IF IsServer(p) THEN "scap" ELSE "ccap") \in Socket[p].perm
MayRecv(p) == (IF IsServer(p) THEN "ccap" ELSE "scap") \in Socket[p].perm

Failed(s, err) == [s EXCEPT !.err = err]

send(s, p, cap, late, short) ==
    IF cap /\ ~MaySend(p) THEN Failed(s, "ERR") ELSE do_send(s, p, cap, late, short)

Occupied(s, p, cap) == MayRecv(p) /\ s.buf[p] # NULL /\ ~cap

\* Nobody runs next when the one that waits was to run on.
ThenRecv(s, p) ==
    LET r == do_recv(s, p) IN
    [r EXCEPT !.nx = IF @ = p THEN NULL ELSE @, !.err = "ERR_TIMEOUT"]

\* Except for a hart out of time, the server waits whatever became of the reply.
replyrecv(s, p, cap, late, short) ==
    LET d == do_send(s, p, cap, late, short) IN
    IF (cap /\ ~MaySend(p)) \/ Occupied(s, p, cap) THEN Failed(s, "ERR")
    ELSE IF d.err = "ERR_PREEMPTED" THEN [d EXCEPT !.nx = NULL]
    ELSE ThenRecv(d, p)

\* Mutant of call: the client waits even if its request found no server.
CallWaitsAnyway(s, p, cap, late, short) ==
    LET d == do_send(s, p, cap, late, short) IN
    IF (cap /\ ~MaySend(p)) \/ Occupied(s, p, cap) THEN Failed(s, "ERR")
    ELSE IF d.err = "ERR_PREEMPTED" THEN d
    ELSE ThenRecv(d, p)

call(s, p, cap, late, short) ==
    LET d == do_send(s, p, cap, late, short) IN
    IF (cap /\ ~MaySend(p)) \/ Occupied(s, p, cap) THEN Failed(s, "ERR")
    ELSE IF d.err # "SUCCESS" THEN d
    ELSE ThenRecv(d, p)

-----------------------------------------------------------------------------
(* Entry points. *)
\* Mutant of Checked: a suspended process may go on to wait.
CheckedNotSuspended(s, p, answer) ==
    IF p \notin sock THEN Failed(s, "ERR") ELSE answer

Checked(s, p, answer) ==
    IF p \notin sock THEN Failed(s, "ERR")
    ELSE IF "suspended" \in s.state[p].flags
    THEN [s EXCEPT !.nx = NULL, !.err = "ERR_PREEMPTED"]
    ELSE answer

cap_sock_send(s, p, cap, late, short) ==
    Checked(s, p, send(s, p, cap, late, short))

cap_sock_sendrecv(s, p, cap, late, short) ==
    Checked(s, p, IF IsServer(p) THEN replyrecv(s, p, cap, late, short)
                  ELSE call(s, p, cap, late, short))

\* proc_ipc_wait asserts that the state is PSF_BUSY and nothing else.
KassertWait(p) == state[p] = Busy

Commit(h, s) ==
    LET p == cur[h]
        waits == "blocked" \in s.state[p].flags
    IN  /\ state' = s.state /\ timeout' = s.timeout /\ T0' = s.T0
        /\ channels' = s.ch /\ buf' = s.buf /\ msg' = s.msg
        /\ nxt' = [nxt EXCEPT ![h] = s.nx]
        /\ gone' = [gone EXCEPT ![h] = waits]
        /\ Result(h, s.err)
        /\ UNCHANGED <<pending, cur, lock, pmpVars, sock>>

SockCall(h, c, s) ==
    LET p == cur[h] IN
    /\ Serves(h, c)
    /\ IF "blocked" \in s.state[p].flags /\ ~KassertWait(p)
       THEN Hang(h) /\ UNCHANGED <<timeout, T0, pending, cur, nxt, res, lock, pmpVars, ipcVars>>
       ELSE Commit(h, s)

sys_sock_send(h, cap, late, short) ==
    SockCall(h, [op |-> "send", cap |-> cap],
             cap_sock_send(Now(h), cur[h], cap, late, short))

sys_sock_sendrecv(h, cap, late, short) ==
    SockCall(h, [op |-> "sendrecv", cap |-> cap],
             cap_sock_sendrecv(Now(h), cur[h], cap, late, short))

(***************************************************************************)
(* The owner of a channel slice revokes the socket of q (CapOps has the    *)
(* revocation itself): whoever waits on the channel is forgotten.          *)
(***************************************************************************)
cap_sock_clear(q) ==
    LET c == Socket[q].chan IN
    IF IsServer(q) THEN [channels EXCEPT ![c] = Idle]
    ELSE IF channels[c].client = q THEN [channels EXCEPT ![c].client = NULL]
    ELSE channels

RevokeSocket(h, q) ==
    /\ Serves(h, [op |-> "revoke", pid |-> q])
    /\ q \in sock
    /\ sock' = sock \ {q}
    /\ channels' = cap_sock_clear(q)
    /\ Result(h, "SUCCESS")
    /\ UNCHANGED <<state, timeout, T0, pending, cur, nxt, gone, lock, pmpVars, buf, msg>>

RevokeNothing(h, q) ==
    /\ Serves(h, [op |-> "revoke", pid |-> q])
    /\ q \notin sock
    /\ Result(h, "SUCCESS")
    /\ UNCHANGED <<state, timeout, T0, pending, cur, nxt, gone, lock, pmpVars, ipcVars>>

-----------------------------------------------------------------------------
IpcNext(h) ==
    \/ \E cap, late, short \in BOOLEAN :
          sys_sock_send(h, cap, late, short) \/ sys_sock_sendrecv(h, cap, late, short)
    \/ \E q \in DOMAIN Socket : RevokeSocket(h, q) \/ RevokeNothing(h, q)

Next ==
    /\ \/ ProcNext /\ UNCHANGED ipcVars
       \/ (\E h \in Hart : IpcNext(h)) /\ UNCHANGED image
    /\ Watch

Spec == Init /\ [][Next]_vars
=============================================================================
