------------------------------- MODULE MCIpc -------------------------------
(***************************************************************************)
(* Two harts and three processes, of which process 0 starts the others, in *)
(* four images: monitors that start, stop, yield to and write to each      *)
(* other; a client and a server that hand the processor to each other on   *)
(* channel 0, with capabilities or with the channel revoked; two clients of*)
(* one server on channel 1, none of them yielding.                         *)
(***************************************************************************)
EXTENDS IpcSafety, TLC

On(op, q) == [op |-> op, pid |-> q]
Own(op) == [op |-> op]
Msg(op, cap) == [op |-> op, cap |-> cap]
Sock(chan, mode, perm, tag) ==
    [chan |-> chan, mode |-> mode, perm |-> perm, tag |-> tag]
Both == {"scap", "ccap"}
NoCaps == [p \in 0 .. 2 |-> NULL]

Start == {On("resume", 1), On("resume", 2)}
Shared == (0 :> {0, 2} @@ 1 :> {1, 2})
Pair == (1 :> Sock(0, "yield", Both, 1) @@ 2 :> Sock(0, "yield", Both, 0))

McImages ==
    {   \* monitors
        [slices |-> (0 :> {0} @@ 1 :> {0, 1, 2}),
         program |-> (0 :> Start \cup {On("suspend", 1), On("state_get", 1),
                                       On("reg_write", 1), On("mon_pmp_load", 2)}
                      @@ 1 :> {Own("fault"), On("yield", 2)}
                      @@ 2 :> {Own("sync"), On("suspend", 0), Own("pmp_load"),
                               Own("sync_mem")}),
         socket |-> <<>>, cap |-> NoCaps],
        \* capabilities
        [slices |-> Shared,
         program |-> (0 :> Start \cup {On("suspend", 2)}
                      @@ 1 :> {Msg("sendrecv", TRUE)}
                      @@ 2 :> {Msg("sendrecv", TRUE), Msg("sendrecv", FALSE)}),
         socket |-> Pair, cap |-> [NoCaps EXCEPT ![1] = 1]],
        \* revocation
        [slices |-> Shared,
         program |-> (0 :> Start \cup {On("suspend", 2), On("revoke", 2)}
                      @@ 1 :> {Msg("sendrecv", FALSE)}
                      @@ 2 :> {Msg("sendrecv", FALSE), Msg("send", FALSE)}),
         socket |-> Pair, cap |-> NoCaps],
        \* clients
        [slices |-> (0 :> {0, 2} @@ 1 :> {1}),
         program |-> (0 :> Start \cup {Msg("sendrecv", FALSE)}
                      @@ 1 :> {Msg("sendrecv", FALSE)}
                      @@ 2 :> {Msg("sendrecv", FALSE)}),
         socket |-> (0 :> Sock(1, "noyield", {}, 2) @@ 1 :> Sock(1, "noyield", {}, 1)
                     @@ 2 :> Sock(1, "noyield", {}, 0)),
         cap |-> NoCaps]}
=============================================================================
