---------------------------- MODULE LibraryProofs ----------------------------
(***************************************************************************)
(* For every platform and whatever the processes ask for, the user library *)
(* foretells what the kernel does with their capabilities (LibrarySafety). *)
(*                                                                         *)
(* What it calls derivable is compared rule by rule.  What it calls        *)
(* revokable it looks at as an interval inside another, where the kernel   *)
(* tests one bound only: the other one comes from the order of the slices  *)
(* in the list (SliceInv of CapResourceProofs).                            *)
(***************************************************************************)
EXTENDS CapResourceProofs, LibrarySafety

-----------------------------------------------------------------------------
(* Frames. *)

\* The lowest bit set in a number of the width of an address is a power of two.
LEMMA LowBitIs ==
    ASSUME NEW n \in Nat \ {0}, n <= 2^AddrBits
    PROVE  /\ LowBit(n) \in Nat \ {0}
           /\ n % LowBit(n) = 0 /\ n % (2 * LowBit(n)) # 0
<1>. DEFINE P(k) == 2^k
<1>1. \A k \in 0 .. AddrBits : P(k) \in Nat \ {0} /\ P(k + 1) = 2 * P(k)
  BY PowersOfTwo
<1>2. P(0) = 1 /\ AddrBits \in Nat /\ n <= P(AddrBits)
  BY CapTypesAssumption
<1>. HIDE DEF P
<1>. DEFINE Odd == {k \in Nat : k <= AddrBits + 1 /\ n % P(k) # 0}
<1>3. AddrBits + 1 \in Odd
  <2>1. P(AddrBits) \in Nat \ {0} /\ P(AddrBits + 1) = 2 * P(AddrBits)
    BY <1>1, <1>2
  <2>2. n < P(AddrBits + 1) /\ P(AddrBits + 1) \in Nat
    BY <1>2, <2>1
  <2>3. n % P(AddrBits + 1) = n
    BY <2>2
  <2>. QED BY <1>2, <2>3
<1>4. PICK k \in Odd : \A j \in Odd : k <= j
  BY <1>3, LeastElement
<1>5. n % 1 = 0
  OBVIOUS
<1>6. k # 0
  BY <1>2, <1>4, <1>5
<1>7. k - 1 \in 0 .. AddrBits /\ k - 1 \notin Odd
  BY <1>2, <1>4, <1>6
<1>8. P(k - 1) \in Nat \ {0} /\ P(k) = 2 * P(k - 1)
  <2>1. P((k - 1) + 1) = 2 * P(k - 1) /\ (k - 1) + 1 = k
    BY <1>1, <1>4, <1>7
  <2>. QED BY <1>1, <1>7, <2>1
<1>9. n % P(k - 1) = 0 /\ n % (2 * P(k - 1)) # 0
  <2>1. n % P(k) # 0
    BY <1>4
  <2>2. n % P(k - 1) = 0
    BY <1>2, <1>4, <1>7
  <2>3. PICK d \in {2 * P(k - 1)} : d = P(k)
    BY <1>8
  <2>4. n % d # 0
    BY <2>1, <2>3
  <2>. QED BY <2>2, <2>3, <2>4
<1>10. \E d \in {2^i : i \in 0 .. AddrBits} : n % d = 0 /\ n % (2 * d) # 0
  BY <1>7, <1>9 DEF P
<1>11. /\ LowBit(n) \in {2^i : i \in 0 .. AddrBits}
       /\ n % LowBit(n) = 0 /\ n % (2 * LowBit(n)) # 0
  BY <1>10 DEF LowBit
<1>. QED BY <1>11, PowersOfTwo

\* Where a frame lies and how large it is.
LEMMA FrameType ==
    ASSUME NEW a \in Nat, a < 2^AddrBits
    PROVE  pmp_base(a) \in Int /\ pmp_size(a) \in Nat
<1>1. 2^AddrBits \in Nat
  BY PowersOfTwo, CapTypesAssumption
<1>2. a + 1 \in Nat \ {0} /\ a + 1 <= 2^AddrBits
  BY <1>1
<1>3. LowBit(a + 1) \in Nat
  BY <1>2, LowBitIs
<1>. QED BY <1>3 DEF pmp_base, pmp_size

LEMMA AddressType ==
    ASSUME NEW t \in Nat, NEW b \in Nat
    PROVE  tag_block_to_addr(t, b) \in Nat
<1>1. 2^MinBlock \in Nat /\ 2^MaxBlock \in Nat
  BY PowersOfTwo
<1>. QED BY <1>1 DEF tag_block_to_addr

-----------------------------------------------------------------------------
(* What can be derived. *)

(***************************************************************************)
(* The two tests of what can be derived, s3k_cap_is_derivable and          *)
(* cap_is_derivable, on any capability and any description.                *)
(***************************************************************************)
LEMMA DerivableAgrees ==
    ASSUME NEW p \in Cap, NEW n \in Cap,
           n.type = "pmp" => n.addr < 2^AddrBits
    PROVE  /\ n.type = "pmp" /\ cap_is_derivable(p, n) => s3k_cap_is_derivable(p, n)
           /\ n.type = "time" /\ p.type = "time" /\ p.mrk = p.bgn =>
                (cap_is_derivable(p, n) <=> s3k_cap_is_derivable(p, n))
           /\ n.type \notin {"pmp", "time"} =>
                (cap_is_derivable(p, n) <=> s3k_cap_is_derivable(p, n))
<1>1. ASSUME n.type = "pmp", cap_is_derivable(p, n)
      PROVE  s3k_cap_is_derivable(p, n)
  <2>1. p.type = "memory" /\ cap_mem_derivable(p, n)
    BY <1>1 DEF cap_is_derivable, cap_time_derivable, cap_mon_derivable,
                cap_chan_derivable, cap_sock_derivable
  <2>2. p \in MemCap /\ n \in PmpCap
    BY <1>1, <2>1, CapCases
  <2>. DEFINE low == tag_block_to_addr(p.tag, p.mrk)
              high == tag_block_to_addr(p.tag, p.end)
              base == pmp_base(n.addr)
              size == pmp_size(n.addr)
  <2>3. low <= base /\ base + size <= high /\ n.rwx \subseteq p.rwx
    BY <1>1, <2>1 DEF cap_mem_derivable, is_range_subset
  <2>4. low \in Nat /\ high \in Nat
    BY <2>2, AddressType DEF MemCap
  <2>5. base \in Int /\ size \in Nat
    BY <1>1, <2>2, FrameType DEF PmpCap
  <2>6. FrameInside(p.mrk, p, n)
    <3>. HIDE DEF low, high, base, size
    <3>1. low <= base /\ size <= high
      BY <2>3, <2>4, <2>5
    <3>. QED BY <1>1, <3>1 DEF FrameInside, is_range_subset, low, high, base, size
  <2>. QED BY <2>1, <2>3, <2>6 DEF s3k_cap_is_derivable, s3k_cap_mem_derivable
<1>2. ASSUME n.type = "time", p.type = "time", p.mrk = p.bgn
      PROVE  cap_is_derivable(p, n) <=> s3k_cap_is_derivable(p, n)
  BY <1>2 DEF cap_is_derivable, cap_time_derivable, s3k_cap_is_derivable,
              s3k_cap_time_derivable
<1>3. ASSUME n.type \notin {"pmp", "time"}
      PROVE  cap_is_derivable(p, n) <=> s3k_cap_is_derivable(p, n)
  BY <1>3 DEF cap_is_derivable, cap_time_derivable, cap_mem_derivable,
       cap_mon_derivable, cap_chan_derivable, cap_sock_derivable,
       s3k_cap_is_derivable, s3k_cap_time_derivable, s3k_cap_mem_derivable,
       s3k_cap_mon_derivable, s3k_cap_chan_derivable, s3k_cap_sock_derivable,
       FrameInside
<1>. QED BY <1>1, <1>2, <1>3

(***************************************************************************)
(* The library and the kernel agree on what can be derived from the        *)
(* capabilities there are, up to frames above their slice and to time      *)
(* slices something was derived from (s3k_cap_is_derivable).               *)
(***************************************************************************)
THEOREM LibraryForetellsDerive == Spec => []LibraryAgrees
<1>1. ASSUME TableInv PROVE LibraryAgrees
  <2>. SUFFICES ASSUME NEW c \in Occupied, NEW n \in NewCaps
       PROVE  LET kernel == cap_is_derivable(cap[c], n)
                  library == s3k_cap_is_derivable(cap[c], n)
              IN  IF n.type = "pmp" THEN kernel => library
                  ELSE IF n.type = "time" THEN cap[c].type = "time"
                           /\ cap[c].mrk = cap[c].bgn => kernel = library
                  ELSE kernel = library
    BY DEF LibraryAgrees
  <2>1. cap[c] \in Cap /\ n \in Cap
    BY <1>1, NewCapsAssumption DEF TableInv, TableType, Occupied
  <2>2. n.type = "pmp" => n.addr < 2^AddrBits
    BY AddressesFit
  <2>3. /\ cap_is_derivable(cap[c], n) \in BOOLEAN
        /\ s3k_cap_is_derivable(cap[c], n) \in BOOLEAN
    BY DEF cap_is_derivable, s3k_cap_is_derivable
  <2>4. PICK p \in Cap : p = cap[c]
    BY <2>1
  <2>5. /\ n.type = "pmp" /\ cap_is_derivable(p, n) => s3k_cap_is_derivable(p, n)
        /\ n.type = "time" /\ p.type = "time" /\ p.mrk = p.bgn =>
             (cap_is_derivable(p, n) <=> s3k_cap_is_derivable(p, n))
        /\ n.type \notin {"pmp", "time"} =>
             (cap_is_derivable(p, n) <=> s3k_cap_is_derivable(p, n))
    BY <2>1, <2>2, DerivableAgrees
  <2>. QED BY <2>3, <2>4, <2>5
<1>2. IInv => LibraryAgrees
  BY <1>1 DEF IInv
<1>. QED BY <1>2, InitInv, NextInv, PTL DEF Spec

-----------------------------------------------------------------------------
(* What a revocation deletes. *)

\* Every revocation deletes what is revocable for the kernel.
LEMMA DeletesRevocable ==
    ASSUME NEW parent \in Cte, cap_revoke(parent)
    PROVE  revocable(cap[parent], cap[next[parent]])
  BY DEF cap_revoke, cap_revoke_time, cap_revoke_memory, cap_revoke_monitor,
         cap_revoke_channel, cap_revoke_socket, revocable

\* A slice or a socket that was given away lies inside the slice it is from.
LEMMA GivenAwayForetold ==
    ASSUME NEW p \in Cap, NEW c \in Cap, p.type \in SliceType, c.type # "pmp",
           p.mrk <= p.end, GivenAway(p, c), revocable(p, c)
    PROVE  s3k_cap_is_revokable(p, c)
<1>1. p.mrk \in Nat /\ p.end \in Nat
  BY CapCases DEF SliceType, TimeCap, MemCap, MonCap, ChanCap
<1>2. CASE c.type = p.type
  <2>1. p.bgn <= c.bgn /\ c.end <= p.mrk /\ c.end \in Nat
    BY <1>2, CapCases DEF GivenAway, SliceType, TimeCap, MemCap, MonCap, ChanCap
  <2>2. SliceInside(p, c)
    BY <1>1, <1>2, <2>1 DEF SliceInside, is_range_subset
  <2>3. /\ p.type = "time" => p.hart = c.hart
        /\ p.type = "memory" => p.tag = c.tag
    BY <1>2 DEF revocable, time_revocable, mem_revocable, mem_pmp_revocable
  <2>. QED BY <1>2, <2>2, <2>3
       DEF s3k_cap_is_revokable, s3k_cap_time_revokable, s3k_cap_mem_revokable,
           s3k_cap_mon_revokable, s3k_cap_chan_revokable, SliceType
<1>3. CASE c.type # p.type
  <2>1. p.type = "channel" /\ c.type = "socket"
    BY <1>3 DEF revocable, time_revocable, mem_revocable, mem_pmp_revocable,
       mon_revocable, chan_revocable, chan_sock_revocable, SliceType
  <2>2. p.bgn <= c.chan /\ c.chan < p.mrk /\ c.chan \in Nat
    BY <2>1, CapCases DEF GivenAway, SockCap
  <2>3. c.chan + 1 <= p.end
    BY <1>1, <2>2
  <2>. QED BY <2>1, <2>2, <2>3
       DEF s3k_cap_is_revokable, s3k_cap_chan_revokable, is_range_subset
<1>. QED BY <1>2, <1>3

\* A step of a revocation; the server socket of a channel has no rival.
LEMMA RevokesForetold ==
    ASSUME TableInv, SliceInv, NEW parent \in Cte, cap_revoke(parent),
           cap[parent].type \in Inside \cup {"socket"}, cap[next[parent]].type # "pmp"
    PROVE  s3k_cap_is_revokable(cap[parent], cap[next[parent]])
<1>1. PICK child \in {next[parent]} : child = next[parent]
  OBVIOUS
<1>2. /\ parent \in Occupied /\ child \in Occupied /\ child # parent
      /\ child \in Cte /\ cap \in [Cte -> Cap]
  BY <1>1, RevokeEffect DEF Occupied, TableInv, TableType
<1>3. PICK p \in Cap, c \in Cap : p = cap[parent] /\ c = cap[child]
  BY <1>2
<1>4. revocable(p, c)
  BY <1>1, <1>3, DeletesRevocable
<1>5. CASE p.type = "socket"
  <2>1. c.type = "socket" /\ p.tag = 0 /\ p.chan = c.chan
    BY <1>4, <1>5 DEF revocable, sock_revocable
  <2>2. parent \in CapsOf("socket") /\ child \in CapsOf("socket") \ {parent}
    BY <1>2, <1>3, <1>5, <2>1 DEF CapsOf
  <2>3. c.tag # 0
    BY <1>3, <2>1, <2>2, OneServer DEF UniqueServer
  <2>. QED BY <1>1, <1>3, <1>5, <2>1, <2>3
       DEF s3k_cap_is_revokable, s3k_cap_sock_revokable, SockTagged, SockChan
<1>6. CASE p.type \in Inside
  <2>1. p.type \in SliceType /\ c.type # "pmp"
    BY <1>1, <1>3, <1>6, InsideTypes
  <2>2. GivenAway(p, c)
    BY <1>1, <1>3, <1>6, <2>1, RevokesGivenAway
  <2>3. parent \in Inner
    BY <1>3, <1>6 DEF Inner
  <2>4. p.mrk <= p.end
    BY <1>3, <2>3 DEF SliceInv, Marked
  <2>. QED BY <1>1, <1>3, <1>4, <2>1, <2>2, <2>4, GivenAwayForetold
<1>. QED BY <1>3, <1>5, <1>6

(***************************************************************************)
(* What a process may lose to the revocation of a time, monitor or memory  *)
(* slice, of channels or of a server socket, frames excepted, the library  *)
(* calls revokable: the kernel tests one bound only, but the order of the  *)
(* list gives the other one (cap_revoke, s3k_cap_is_revokable).  As in     *)
(* OnlyGivenAwayGoes, each type of slices answers for itself (Inside):     *)
(* memory only where its marks are inside at boot, channels only where none*)
(* is derived from another.                                                *)
(***************************************************************************)
THEOREM LibraryForetellsRevoke ==
    ASSUME AsBuilt
    PROVE  Spec => [][\A p \in Pid :
                        LET parent == cap[call[p].cte]
                            child == cap[next[call[p].cte]]
                        IN  RevokeStep(p) /\ child.type # "pmp"
                              /\ parent.type \in Inside \cup {"socket"}
                              => s3k_cap_is_revokable(parent, child)]_vars
<1>1. ASSUME BuiltInv, NEW p \in Pid, RevokeStep(p),
             cap[next[call[p].cte]].type # "pmp",
             cap[call[p].cte].type \in Inside \cup {"socket"}
      PROVE  s3k_cap_is_revokable(cap[call[p].cte], cap[next[call[p].cte]])
  <2>1. PICK e \in Cte : e = call[p].cte
    BY <1>1 DEF BuiltInv, IInv, ProcType
  <2>2. TableInv /\ SliceInv /\ cap_revoke(e)
    BY <1>1, <2>1 DEF BuiltInv, IInv, RevokeStep
  <2>. QED BY <1>1, <2>1, <2>2, RevokesForetold
<1>2. BuiltInv /\ [Next]_vars =>
        [\A p \in Pid :
            LET parent == cap[call[p].cte]
                child == cap[next[call[p].cte]]
            IN  RevokeStep(p) /\ child.type # "pmp"
                  /\ parent.type \in Inside \cup {"socket"}
                  => s3k_cap_is_revokable(parent, child)]_vars
  BY <1>1
<1>. QED BY <1>2, BuiltAlways, PTL DEF Spec

-----------------------------------------------------------------------------
(* How frames are encoded. *)

LEMMA MultipleMod ==
    ASSUME NEW q \in Int, NEW d \in Nat \ {0}
    PROVE  (d * q) % d = 0
  OBVIOUS

LEMMA OddMultipleMod ==
    ASSUME NEW q \in Int, NEW d \in Nat \ {0}
    PROVE  (d * (2 * q + 1)) % (2 * d) = d
  OBVIOUS

LEMMA ZeroMod ==
    ASSUME NEW m \in Int, NEW d \in Nat \ {0}, m % d = 0
    PROVE  \E q \in Int : m = d * q
<1>1. m = d * (m \div d) /\ m \div d \in Int
  OBVIOUS
<1>. QED BY <1>1

LEMMA Products ==
    ASSUME NEW a \in Int, NEW b \in Int, NEW c \in Int
    PROVE  (a * b) * c = a * (b * c)
  OBVIOUS

\* Of two powers of two, twice the smaller one divides the other.
LEMMA PowersDivide ==
    ASSUME NEW i \in 0 .. AddrBits, NEW j \in 0 .. AddrBits, i < j
    PROVE  \E e \in Nat : 2^j = (2 * 2^i) * e
<1>. DEFINE P(k) == 2^k
<1>1. \A k \in 0 .. AddrBits : P(k) \in Nat /\ P(k + 1) = 2 * P(k)
  BY PowersOfTwo
<1>. HIDE DEF P
<1>. DEFINE Even(k) == \E e \in Nat : P(k) = (2 * P(i)) * e
            Bad == {k \in Nat : k <= AddrBits /\ i < k /\ ~Even(k)}
<1>2. ASSUME Bad # {} PROVE FALSE
  <2>1. PICK k \in Bad : \A l \in Bad : k <= l
    BY <1>2, LeastElement
  <2>2. k - 1 \in 0 .. AddrBits /\ (k - 1) + 1 = k
    BY <2>1, CapTypesAssumption
  <2>3. P(k) = 2 * P(k - 1) /\ P(k - 1) \in Nat /\ P(i) \in Nat
    <3>1. P((k - 1) + 1) = 2 * P(k - 1)
      BY <1>1, <2>2
    <3>. QED BY <1>1, <2>2, <3>1
  <2>4. CASE k - 1 = i
    <3>1. P(k) = (2 * P(i)) * 1
      BY <2>3, <2>4
    <3>. QED BY <2>1, <3>1
  <2>5. CASE k - 1 # i
    <3>1. i < k - 1 /\ k - 1 <= AddrBits /\ k - 1 \in Nat /\ k - 1 < k
      BY <2>1, <2>2, <2>5, CapTypesAssumption
    <3>2. k - 1 \notin Bad
      BY <2>1, <3>1
    <3>3. PICK e \in Nat : P(k - 1) = (2 * P(i)) * e
      BY <3>1, <3>2
    <3>4. P(k) = (2 * P(i)) * (2 * e)
      BY <2>3, <3>3
    <3>. QED BY <2>1, <3>4
  <2>. QED BY <2>4, <2>5
<1>3. j \notin Bad
  BY <1>2
<1>4. \E e \in Nat : P(j) = (2 * P(i)) * e
  BY <1>3
<1>. QED BY <1>4 DEF P

\* The lowest bit of an odd multiple of a power of two is that power.
LEMMA LowBitOf ==
    ASSUME NEW k \in 0 .. AddrBits, NEW q \in Nat
    PROVE  LowBit(2^k * (2 * q + 1)) = 2^k
<1>1. PICK p \in Nat \ {0} : p = 2^k
  BY PowersOfTwo
<1>2. PICK n \in Nat : n = p * (2 * q + 1)
  BY <1>1
<1>3. n % p = 0 /\ n % (2 * p) # 0
  <2>1. n % p = 0 /\ n % (2 * p) = p
    BY <1>2, MultipleMod, OddMultipleMod
  <2>. QED BY <1>1, <2>1
<1>4. ASSUME NEW j \in 0 .. AddrBits, n % 2^j = 0, n % (2 * 2^j) # 0
      PROVE  j = k
  <2>1. PICK d \in Nat \ {0} : d = 2^j
    BY PowersOfTwo
  <2>2. ASSUME j < k PROVE FALSE
    <3>1. PICK e \in Nat : p = (2 * d) * e
      BY <1>1, <2>1, <2>2, PowersDivide
    <3>2. PICK a \in Nat \ {0}, b \in Nat : a = 2 * d /\ b = 2 * q + 1
      OBVIOUS
    <3>3. n = (a * e) * b
      BY <1>2, <3>1, <3>2
    <3>4. n = a * (e * b) /\ e * b \in Int
      BY <3>3, Products
    <3>5. n % a = 0
      BY <3>4, MultipleMod
    <3>. QED BY <1>4, <2>1, <3>2, <3>5
  <2>3. ASSUME k < j PROVE FALSE
    <3>1. PICK e \in Nat : d = (2 * p) * e
      BY <1>1, <2>1, <2>3, PowersDivide
    <3>2. n % d = 0
      BY <1>4, <2>1
    <3>3. PICK x \in Int : n = d * x
      BY <3>2, ZeroMod
    <3>4. PICK a \in Nat \ {0} : a = 2 * p
      OBVIOUS
    <3>5. n = (a * e) * x
      BY <3>1, <3>3, <3>4
    <3>6. n = a * (e * x) /\ e * x \in Int
      BY <3>5, Products
    <3>7. n % a = 0
      BY <3>6, MultipleMod
    <3>. QED BY <1>3, <3>4, <3>7
  <2>. QED BY <2>2, <2>3
<1>5. \A d \in {2^i : i \in 0 .. AddrBits} : n % d = 0 /\ n % (2 * d) # 0 => d = p
  BY <1>1, <1>4
<1>6. \E d \in {2^i : i \in 0 .. AddrBits} : n % d = 0 /\ n % (2 * d) # 0
  BY <1>1, <1>3
<1>7. LowBit(n) = p
  BY <1>5, <1>6 DEF LowBit
<1>. QED BY <1>1, <1>2, <1>7

(***************************************************************************)
(* A process that describes a frame of 8, 16, 32, ... bytes at a multiple  *)
(* of its size with s3k_napot_encode means what the kernel reads           *)
(* (pmp_napot_decode of cap_util.h): the encoding loses neither the place  *)
(* nor the size.                                                           *)
(***************************************************************************)
THEOREM FrameIsMeant ==
    ASSUME NEW k \in 0 .. AddrBits, NEW size \in Nat, size = 8 * 2^k,
           NEW base \in Nat, base % size = 0
    PROVE  LET addr == s3k_napot_encode(base, size)
           IN  addr \in Nat /\ pmp_base(addr) = base /\ pmp_size(addr) = size
<1>1. PICK p \in Nat \ {0} : p = 2^k
  BY PowersOfTwo
<1>2. PICK q \in Nat : base = (8 * p) * q
  <2>1. size \in Nat \ {0} /\ size = 8 * p
    BY <1>1
  <2>2. base = size * (base \div size) /\ base \div size \in Nat
    BY <2>1
  <2>. QED BY <2>1, <2>2
<1>3. PICK addr \in Int : addr = s3k_napot_encode(base, size)
  BY <1>1 DEF s3k_napot_encode
<1>4. addr + 1 = p * (2 * q + 1)
  <2>1. PICK x \in Nat : x = p * (2 * q + 1)
    BY <1>1
  <2>2. base + size \div 2 = 4 * x
    <3>1. size \div 2 = 4 * p
      BY <1>1
    <3>2. 4 * (p * (2 * q + 1)) = (8 * p) * q + 4 * p
      OBVIOUS
    <3>. QED BY <1>2, <2>1, <3>1, <3>2
  <2>3. addr = (4 * x - 1) \div 4
    BY <1>3, <2>2 DEF s3k_napot_encode
  <2>4. addr = x - 1
    BY <2>3
  <2>. QED BY <2>1, <2>4
<1>5. LowBit(addr + 1) = p
  BY <1>1, <1>4, LowBitOf
<1>6. pmp_size(addr) = size
  BY <1>1, <1>5 DEF pmp_size
<1>7. pmp_base(addr) = base
  <2>1. 4 * (p * (2 * q + 1) - p) = (8 * p) * q
    OBVIOUS
  <2>2. PICK x \in Int : x = p * (2 * q + 1)
    OBVIOUS
  <2>3. PICK l \in Int : l = LowBit(addr + 1) /\ l = p
    BY <1>5
  <2>4. pmp_base(addr) = 4 * (addr + 1 - l)
    BY <2>3 DEF pmp_base
  <2>5. pmp_base(addr) = 4 * (x - p)
    BY <1>4, <2>2, <2>3, <2>4
  <2>. QED BY <1>2, <2>1, <2>2, <2>5
<1>8. addr \in Nat
  <2>1. p * (2 * q + 1) >= 1
    OBVIOUS
  <2>. QED BY <1>4, <2>1
<1>. QED BY <1>3, <1>6, <1>7, <1>8
=============================================================================
