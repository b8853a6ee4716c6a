---------------------------- MODULE LibrarySafety ----------------------------
(***************************************************************************)
(* What a process can rely on that asks the user library before it asks the*)
(* kernel: the rules of common/src/s3k/s3k.c against those of kernel/src,  *)
(* on the capabilities there are.                                          *)
(***************************************************************************)
EXTENDS CapSafety, Library

(***************************************************************************)
(* A process that asks the library first is not misled: what it calls      *)
(* derivable is what cap_derive accepts, for monitors, channels, sockets   *)
(* and memory slices, and for a time slice nothing was derived from.  It   *)
(* never calls a frame not derivable that the kernel would accept.  (It    *)
(* does promise frames that lie above the slice, as it takes their size for*)
(* their end, and knows nothing of the mark of a time slice.)              *)
(***************************************************************************)
LibraryAgrees ==
    \A c \in Occupied, n \in NewCaps :
        LET kernel == cap_is_derivable(cap[c], n)
            library == s3k_cap_is_derivable(cap[c], n)
        IN  IF n.type = "pmp" THEN kernel => library
            ELSE IF n.type = "time" THEN cap[c].type = "time"
                     /\ cap[c].mrk = cap[c].bgn => kernel = library
            ELSE kernel = library

-----------------------------------------------------------------------------
\* The frame f is larger than the address at which the slice m begins, and passes
\* for one of its children wherever it lies.
TakenForChild(m, f) ==
    f.type = "pmp" /\ tag_block_to_addr(m.tag, m.bgn) <= pmp_size(f.addr)

(***************************************************************************)
(* A revocation only ever deletes descendants (RevokeOnlyDescendants, see  *)
(* CapSafety) and frames it takes for such, and in either case only what   *)
(* the library calls revokable, so that a process can know beforehand what *)
(* it may lose.                                                            *)
(***************************************************************************)
DeletesDescendants ==
    [][\A p \in Pid :
          LET parent == cap[call[p].cte]
              child == cap[next[call[p].cte]]
          IN  RevokeStep(p) =>
                /\ s3k_cap_is_revokable(parent, child)
                /\ parent.type \in SliceType =>
                      GivenAway(parent, child) \/ TakenForChild(parent, child)]_vars
=============================================================================
