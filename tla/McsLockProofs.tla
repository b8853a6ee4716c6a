--------------------------- MODULE McsLockProofs ---------------------------
(***************************************************************************)
(* The kernel lock, for any set of harts: type correctness, mutual         *)
(* exclusion, and that it implements LockQueue.  next appears in none of   *)
(* the arguments: the list of prev is exact, for each change of it is one  *)
(* atomic access.                                                          *)
(***************************************************************************)
EXTENDS McsLock, SequenceTheorems, WellFoundedInduction, TLAPS

\* The steps of a hart in the lock keep the types.
LEMMA LockTypeStep ==
    ASSUME LockTypeOK, [LockNext]_lockVars
    PROVE  LockTypeOK'
<1> USE DEF LockTypeOK, Pc, Node
<1>1. CASE UNCHANGED lockVars
  BY <1>1 DEF lockVars
<1>2. ASSUME NEW h \in Hart, Acquire(h) PROVE LockTypeOK'
  BY <1>2, NodesDistinct DEF Acquire
<1>3. ASSUME NEW h \in Hart, Link(h) PROVE LockTypeOK'
  BY <1>3, NodesDistinct DEF Link
<1>4. ASSUME NEW h \in Hart, Enter(h) PROVE LockTypeOK'
  BY <1>4 DEF Enter
<1>5. ASSUME NEW h \in Hart, Release(h) \/ GiveUp(h) PROVE LockTypeOK'
  BY <1>5, NodesDistinct DEF Release, GiveUp, Exchange
<1>6. ASSUME NEW h \in Hart, ReadNext(h) PROVE LockTypeOK'
  BY <1>6 DEF ReadNext
<1>7. ASSUME NEW h \in Hart, Unlink(h) PROVE LockTypeOK'
  BY <1>7 DEF Unlink
<1>8. ASSUME NEW h \in Hart, Retry(h) PROVE LockTypeOK'
  BY <1>8 DEF Retry
<1>9. ASSUME NEW h \in Hart, Relink(h) PROVE LockTypeOK'
  BY <1>9, NodesDistinct DEF Relink
<1> QED
  BY <1>1, <1>2, <1>3, <1>4, <1>5, <1>6, <1>7, <1>8, <1>9 DEF LockNext, Proceed

\* The fields and locals of the lock keep their types; _release and line 32
\* never dereference NULL.
THEOREM LockTypeCorrect == LockSpec => []LockTypeOK
<1>1. LockInit => LockTypeOK
  BY NodesDistinct DEF LockInit, LockTypeOK, Pc, Node
<1> QED
  BY <1>1, LockTypeStep, PTL DEF LockSpec

\* A hart joins at the end of the queue.
LEMMA AcquireKeepsQueue ==
    ASSUME LockTypeOK, QueueOK, NEW h \in Hart, Acquire(h)
    PROVE  QueueOK'
<1> USE DEF LockTypeOK, Pc, Node
<1>1. h \notin InQueue /\ InQueue' = InQueue \cup {h}
  BY DEF Acquire, InQueue
<1>2. InFront(LockTail)' = h /\ InFront(h)' = InFront(LockTail)
  BY NodesDistinct DEF Acquire, InFront, Leaving
<1>3. \A n \in InQueue : InFront(n)' = InFront(n)
  BY <1>1, NodesDistinct DEF Acquire, InFront, Leaving, InQueue
<1>4. (\A g \in Hart : pc[g] \notin {"link", "wait"} => prev[g] = Null)'
  BY NodesDistinct DEF Acquire, QueueOK
<1>5. h # Null /\ h # LockTail
  BY NodesDistinct
<1> QED
  BY <1>1, <1>2, <1>3, <1>4, <1>5 DEF QueueOK, Member

\* The compare-exchange takes h out: its successor gets what h had in front.
LEMMA UnlinkKeepsQueue ==
    ASSUME LockTypeOK, QueueOK, NEW h \in Hart, Unlink(h)
    PROVE  QueueOK'
<1> USE DEF LockTypeOK, Pc, Node
<1>0. PICK s \in Node : s = after[h]
  OBVIOUS
<1>1. h \in InQueue /\ InQueue' = InQueue \ {h}
  BY DEF Unlink, InQueue
<1>2. h # Null /\ prev[s] = h /\ prev[h] = Null /\ s # h
  BY <1>0, NodesDistinct DEF Unlink, QueueOK
<1>3. s \in Member /\ InFront(s) = h /\ (s \in Hart => pc[s] \in {"link", "wait"})
  BY <1>2, NodesDistinct DEF QueueOK, Member, InQueue, InFront, Leaving
<1>4. InFront(h) = before[h] /\ InFront(h) # h
  BY <1>1, <1>2, <1>3 DEF Unlink, InFront, Leaving, QueueOK, Member
<1>5. InFront(s)' = InFront(h)
  BY <1>0, <1>2, <1>3, <1>4, NodesDistinct DEF Unlink, InFront, Leaving
<1>6. \A n \in Member \ {h, s} : InFront(n)' = InFront(n)
  BY <1>0, NodesDistinct DEF Unlink, InFront, Leaving, Member, InQueue
<1>7. (\A g \in Hart : pc[g] \notin {"link", "wait"} => prev[g] = Null)'
  BY <1>0, <1>2, <1>3 DEF Unlink, QueueOK
<1>8. Member' = Member \ {h} /\ LockTail # h
  BY <1>1, NodesDistinct DEF Member
<1>9. \A n \in Member \ {h, s} : InFront(n) # h /\ InFront(n) # InFront(h)
  BY <1>1, <1>3 DEF QueueOK, Member
<1>10. (\A n \in Member : InFront(n) \in InQueue \cup {Null})'
  BY <1>1, <1>4, <1>5, <1>6, <1>8, <1>9 DEF QueueOK, Member
<1>11. (\A m, n \in Member : InFront(m) = InFront(n) => m = n)'
  BY <1>5, <1>6, <1>8, <1>9 DEF QueueOK
<1> QED
  BY <1>7, <1>10, <1>11 DEF QueueOK

\* The other steps leave the queue as it is: an exchange only moves what is in
\* front of the hart from its prev to its local variable.
LEMMA OthersKeepQueue ==
    ASSUME LockTypeOK, QueueOK, NEW h \in Hart,
           \/ Link(h) \/ Enter(h) \/ Release(h) \/ GiveUp(h)
           \/ ReadNext(h) \/ Retry(h) \/ Relink(h)
    PROVE  QueueOK'
<1> USE DEF LockTypeOK, Pc, Node
<1>1. InQueue' = InQueue
  BY DEF Link, Enter, Release, GiveUp, Exchange, ReadNext, Retry, Relink, InQueue
<1>2. \A n \in Member : InFront(n)' = InFront(n)
  BY NodesDistinct DEF Link, Enter, Release, GiveUp, Exchange, ReadNext, Retry,
     Relink, InQueue, Member, InFront, Leaving
<1>3. (\A g \in Hart : pc[g] \notin {"link", "wait"} => prev[g] = Null)'
  BY DEF Link, Enter, Release, GiveUp, Exchange, ReadNext, Retry, Relink, QueueOK
<1> QED
  BY <1>1, <1>2, <1>3 DEF QueueOK, Member

LEMMA QueueOKStep ==
    ASSUME LockTypeOK, QueueOK, [LockNext]_lockVars
    PROVE  QueueOK'
<1>1. CASE UNCHANGED lockVars
  BY <1>1 DEF lockVars, QueueOK, Member, InQueue, InFront, Leaving
<1> QED
  BY <1>1, AcquireKeepsQueue, UnlinkKeepsQueue, OthersKeepQueue
  DEF LockNext, Proceed

\* The prev links of the harts in the queue always form a line.
THEOREM LockQueueCorrect == LockSpec => []QueueOK
<1>1. LockInit => QueueOK
  BY NodesDistinct DEF LockInit, QueueOK, Member, InQueue, InFront, Leaving, Node
<1> QED
  BY <1>1, QueueOKStep, LockTypeCorrect, PTL DEF LockSpec

\* At most one hart is between kernel_lock_acquire and kernel_lock_release.
THEOREM LockMutualExclusion == LockSpec => []MutualExclusion
<1>1. QueueOK => MutualExclusion
  BY DEF QueueOK, MutualExclusion, Member, InQueue, InFront, Leaving
<1> QED
  BY <1>1, LockQueueCorrect, PTL

-----------------------------------------------------------------------------
(* The queue as a sequence. *)

\* s lists the harts of the queue, the first one first.
Lists(s) ==
    /\ s \in Seq(Hart)
    /\ \A i, j \in 1 .. Len(s) : s[i] = s[j] => i = j
    /\ \A h \in Hart : h \in InQueue <=> \E i \in 1 .. Len(s) : s[i] = h
    /\ InFront(LockTail) = IF Len(s) = 0 THEN Null ELSE s[Len(s)]
    /\ \A i \in 1 .. Len(s) : InFront(s[i]) = IF i = 1 THEN Null ELSE s[i - 1]

Listed == \E s \in Seq(Hart) : Lists(s)

\* By the library's theorem that < is well-founded.
LEMMA LeastNumber ==
    ASSUME NEW T, T \subseteq Nat, T # {}
    PROVE  \E m \in T : \A n \in T : m <= n
<1>. DEFINE R == OpToRel(<, Nat)
<1>1. IsWellFoundedOn(R, Nat)
  BY NatLessThanWellFounded
<1>2. \A m, n \in Nat : m < n => <<m, n>> \in R
  BY DEF OpToRel
<1>. HIDE DEF R
<1>3. PICK m \in T : \A n \in T : ~(<<n, m>> \in R)
  BY <1>1, WFMin
<1>4. \A n \in T : n \in Nat /\ m \in Nat /\ ~(n < m)
  BY <1>2, <1>3
<1>5. \A n \in T : m <= n
  BY <1>4
<1>. QED BY <1>5

\* The operator of McsLock satisfies its equation, since there is a function
\* that does: it takes a hart of the queue to those in front of it.
LEMMA LineEquation ==
    ASSUME LockTypeOK, QueueOK, NEW s, Lists(s)
    PROVE  Line = [n \in Node |->
                     IF InFront(n) = Null THEN <<>>
                     ELSE Append(Line[InFront(n)], InFront(n))]
<1>. DEFINE F == [n \in Node |->
                    IF n = LockTail THEN s
                    ELSE IF \E i \in 1 .. Len(s) : s[i] = n
                    THEN SubSeq(s, 1, (CHOOSE i \in 1 .. Len(s) : s[i] = n) - 1)
                    ELSE <<>>]
            G == [n \in Node |->
                    IF InFront(n) = Null THEN <<>>
                    ELSE Append(F[InFront(n)], InFront(n))]
<1>1. /\ s \in Seq(Hart) /\ Len(s) \in Nat
      /\ \A i \in 1 .. Len(s) : s[i] \in Hart /\ s[i] # LockTail /\ s[i] # Null
  BY NodesDistinct, LenProperties, ElementOfSeq DEF Lists
<1>2. F[LockTail] = s
  BY DEF Node
<1>3. ASSUME NEW i \in 1 .. Len(s) PROVE F[s[i]] = SubSeq(s, 1, i - 1)
  <2>1. (CHOOSE j \in 1 .. Len(s) : s[j] = s[i]) = i
    BY DEF Lists
  <2>2. s[i] \in Node /\ s[i] # LockTail
    BY <1>1 DEF Node
  <2>. QED BY <2>1, <2>2
<1>4. ASSUME NEW n \in Node, n # LockTail, ~ \E i \in 1 .. Len(s) : s[i] = n
      PROVE  F[n] = <<>>
  BY <1>4
<1>. HIDE DEF F
<1>5. ASSUME NEW i \in 1 .. Len(s)
      PROVE  SubSeq(s, 1, i) = Append(SubSeq(s, 1, i - 1), s[i])
  <2>1. SubSeq(s, 1, i) = SubSeq(s, 1, i - 1) \o <<s[i]>>
    BY <1>1, SubSeqRecursiveSecond
  <2>2. SubSeq(s, 1, i - 1) \in Seq(Hart)
    BY <1>1, SubSeqProperties
  <2>. QED BY <1>1, <2>1, <2>2, AppendIsConcat
<1>6. ASSUME NEW n \in Node PROVE F[n] = G[n]
  <2>1. CASE n = LockTail
    <3>1. CASE Len(s) = 0
      <4>1. s = <<>>
        BY <1>1, <3>1, EmptySeq
      <4>. QED BY <1>2, <2>1, <3>1, <4>1 DEF Lists
    <3>2. CASE Len(s) # 0
      <4>1. Len(s) \in 1 .. Len(s)
        BY <1>1, <3>2
      <4>2. InFront(n) = s[Len(s)] /\ InFront(n) # Null
        BY <1>1, <2>1, <3>2, <4>1 DEF Lists
      <4>3. s = SubSeq(s, 1, Len(s))
        BY <1>1, SubSeqFull
      <4>. QED BY <1>2, <1>3, <1>5, <2>1, <4>1, <4>2, <4>3
    <3>. QED BY <3>1, <3>2
  <2>2. CASE \E i \in 1 .. Len(s) : s[i] = n
    <3>1. PICK i \in 1 .. Len(s) : s[i] = n
      BY <2>2
    <3>2. CASE i = 1
      <4>1. InFront(n) = Null
        BY <3>1, <3>2 DEF Lists
      <4>2. SubSeq(s, 1, i - 1) = <<>>
        BY <3>2, SubSeqEmpty
      <4>. QED BY <1>3, <3>1, <4>1, <4>2
    <3>3. CASE i # 1
      <4>1. i - 1 \in 1 .. Len(s)
        BY <1>1, <3>3
      <4>2. InFront(n) = s[i - 1] /\ InFront(n) # Null
        BY <1>1, <3>1, <3>3, <4>1 DEF Lists
      <4>. QED BY <1>3, <1>5, <3>1, <4>1, <4>2
    <3>. QED BY <3>2, <3>3
  <2>3. CASE n # LockTail /\ ~ \E i \in 1 .. Len(s) : s[i] = n
    <3>1. n \in Hart /\ n \notin InQueue
      BY <2>3 DEF Lists, Node
    <3>2. InFront(n) = Null
      BY <3>1 DEF QueueOK, InQueue, InFront, Leaving, LockTypeOK, Pc
    <3>. QED BY <1>4, <2>3, <3>2
  <2>. QED BY <2>1, <2>2, <2>3
<1>7. F = G
  BY <1>6 DEF F
<1>. QED BY <1>7 DEF Line

LEMMA LineIsList ==
    ASSUME LockTypeOK, QueueOK, NEW s, Lists(s)
    PROVE  Line[LockTail] = s
<1>1. /\ s \in Seq(Hart) /\ Len(s) \in Nat
      /\ \A i \in 1 .. Len(s) : s[i] \in Hart /\ s[i] \in Node /\ s[i] # Null
  BY NodesDistinct, LenProperties, ElementOfSeq DEF Lists, Node
<1>2. \A n \in Node : Line[n] = IF InFront(n) = Null THEN <<>>
                                ELSE Append(Line[InFront(n)], InFront(n))
  BY LineEquation
<1>3. ASSUME NEW i \in 1 .. Len(s)
      PROVE  SubSeq(s, 1, i) = Append(SubSeq(s, 1, i - 1), s[i])
  <2>1. SubSeq(s, 1, i) = SubSeq(s, 1, i - 1) \o <<s[i]>>
    BY <1>1, SubSeqRecursiveSecond
  <2>2. SubSeq(s, 1, i - 1) \in Seq(Hart)
    BY <1>1, SubSeqProperties
  <2>. QED BY <1>1, <2>1, <2>2, AppendIsConcat
<1>4. \A i \in 1 .. Len(s) : Line[s[i]] = SubSeq(s, 1, i - 1)
  <2>. DEFINE T == {i \in 1 .. Len(s) : Line[s[i]] # SubSeq(s, 1, i - 1)}
  <2>. SUFFICES ASSUME T # {} PROVE FALSE
    OBVIOUS
  <2>1. T \subseteq Nat
    BY <1>1
  <2>2. PICK m \in T : \A n \in T : m <= n
    BY <2>1, LeastNumber
  <2>3. m \in 1 .. Len(s) /\ Line[s[m]] # SubSeq(s, 1, m - 1)
    BY <2>2
  <2>4. CASE m = 1
    <3>1. InFront(s[m]) = Null
      BY <2>3, <2>4 DEF Lists
    <3>2. SubSeq(s, 1, m - 1) = <<>>
      BY <2>4, SubSeqEmpty
    <3>. QED BY <1>1, <1>2, <2>3, <3>1, <3>2
  <2>5. CASE m # 1
    <3>1. m - 1 \in 1 .. Len(s) /\ ~(m <= m - 1)
      BY <1>1, <2>3, <2>5
    <3>2. InFront(s[m]) = s[m - 1] /\ s[m - 1] # Null
      BY <1>1, <2>3, <2>5, <3>1 DEF Lists
    <3>3. Line[s[m - 1]] = SubSeq(s, 1, (m - 1) - 1)
      BY <2>2, <3>1
    <3>4. Line[s[m]] = Append(SubSeq(s, 1, (m - 1) - 1), s[m - 1])
      BY <1>1, <1>2, <2>3, <3>2, <3>3
    <3>. QED BY <1>3, <2>3, <3>1, <3>4
  <2>. QED BY <2>4, <2>5
<1>5. CASE Len(s) = 0
  <2>1. s = <<>>
    BY <1>1, <1>5, EmptySeq
  <2>. QED BY <1>2, <1>5, <2>1 DEF Lists, Node
<1>6. CASE Len(s) # 0
  <2>1. Len(s) \in 1 .. Len(s)
    BY <1>1, <1>6
  <2>2. InFront(LockTail) = s[Len(s)] /\ s[Len(s)] # Null
    BY <1>1, <1>6, <2>1 DEF Lists
  <2>3. Line[LockTail] = Append(SubSeq(s, 1, Len(s) - 1), s[Len(s)])
    BY <1>2, <1>4, <2>1, <2>2 DEF Node
  <2>4. s = SubSeq(s, 1, Len(s))
    BY <1>1, SubSeqFull
  <2>. QED BY <1>3, <2>1, <2>3, <2>4
<1>. QED BY <1>5, <1>6


-----------------------------------------------------------------------------
(* Step by step, what LockQueue does. *)

LEMMA ListFacts ==
    ASSUME NEW s, Lists(s)
    PROVE  /\ s \in Seq(Hart) /\ Len(s) \in Nat /\ DOMAIN s = 1 .. Len(s)
           /\ s \in [1 .. Len(s) -> Hart]
           /\ \A i \in 1 .. Len(s) : /\ s[i] \in Hart /\ s[i] \in InQueue
                                     /\ s[i] # Null /\ s[i] # LockTail
  BY NodesDistinct, LenProperties, ElementOfSeq DEF Lists

\* A hart joins at the end.
LEMMA AcquireLists ==
    ASSUME LockTypeOK, QueueOK, NEW h \in Hart, Acquire(h), NEW s, Lists(s)
    PROVE  Lists(Append(s, h))'
<1> USE DEF LockTypeOK, Pc, Node
<1>. DEFINE t == Append(s, h)
<1>1. /\ t \in Seq(Hart) /\ Len(t) = Len(s) + 1 /\ t[Len(s) + 1] = h
      /\ \A i \in 1 .. Len(s) : t[i] = s[i]
  BY ListFacts, AppendProperties
<1>2. h \notin InQueue /\ InQueue' = InQueue \cup {h}
  BY DEF Acquire, InQueue
<1>3. InFront(LockTail)' = h /\ InFront(h)' = InFront(LockTail)
  BY NodesDistinct DEF Acquire, InFront, Leaving
<1>4. \A n \in InQueue : InFront(n)' = InFront(n)
  BY <1>2, NodesDistinct DEF Acquire, InFront, Leaving, InQueue
<1>. HIDE DEF t
<1>5. \A i, j \in 1 .. Len(t) : t[i] = t[j] => i = j
  BY <1>1, <1>2, ListFacts DEF Lists
<1>6. \A g \in Hart : g \in InQueue' <=> \E i \in 1 .. Len(t) : t[i] = g
  <2>1. \A i \in 1 .. Len(t) : i \in 1 .. Len(s) \/ t[i] = h
    BY <1>1, ListFacts
  <2>2. \A i \in 1 .. Len(s) : i \in 1 .. Len(t) /\ t[i] = s[i]
    BY <1>1, ListFacts
  <2>3. Len(s) + 1 \in 1 .. Len(t)
    BY <1>1, ListFacts
  <2>4. \A g \in Hart : g \in InQueue <=> \E i \in 1 .. Len(s) : s[i] = g
    BY DEF Lists
  <2>. QED BY <1>1, <1>2, <2>1, <2>2, <2>3, <2>4
<1>7. \A i \in 1 .. Len(t) : InFront(t[i])' = IF i = 1 THEN Null ELSE t[i - 1]
  <2>. SUFFICES ASSUME NEW i \in 1 .. Len(t)
       PROVE  InFront(t[i])' = IF i = 1 THEN Null ELSE t[i - 1]
    OBVIOUS
  <2>1. CASE i \in 1 .. Len(s)
    <3>1. InFront(t[i])' = InFront(s[i])
      BY <1>1, <1>4, <2>1, ListFacts
    <3>2. i # 1 => t[i - 1] = s[i - 1]
      BY <1>1, <2>1, ListFacts
    <3>. QED BY <2>1, <3>1, <3>2 DEF Lists
  <2>2. CASE i = Len(s) + 1
    <3>1. InFront(t[i])' = InFront(LockTail)
      BY <1>1, <1>3, <2>2
    <3>2. i # 1 => Len(s) # 0 /\ t[i - 1] = s[Len(s)]
      BY <1>1, <2>2, ListFacts
    <3>. QED BY <2>2, <3>1, <3>2, ListFacts DEF Lists
  <2>. QED BY <1>1, <2>1, <2>2, ListFacts
<1>8. InFront(LockTail)' = IF Len(t) = 0 THEN Null ELSE t[Len(t)]
  BY <1>1, <1>3, ListFacts
<1>. QED BY <1>1, <1>5, <1>6, <1>7, <1>8 DEF Lists, t

LEMMA RemovedAt ==
    ASSUME NEW s \in Seq(Hart), NEW k \in 1 .. Len(s)
    PROVE  LET t == Queue!RemoveAt(s, k)
           IN  /\ t \in Seq(Hart) /\ Len(t) = Len(s) - 1
               /\ \A i \in 1 .. Len(t) : t[i] = IF i < k THEN s[i] ELSE s[i + 1]
<1>1. Len(s) \in Nat /\ \A i \in 1 .. Len(s) : s[i] \in Hart
  BY LenProperties, ElementOfSeq
<1>. DEFINE a == SubSeq(s, 1, k - 1)
            b == SubSeq(s, k + 1, Len(s))
<1>2. /\ a \in Seq(Hart) /\ Len(a) = k - 1
      /\ \A i \in 1 .. k - 1 : a[i] = s[i]
  BY <1>1, SubSeqProperties
<1>3. /\ b \in Seq(Hart) /\ Len(b) = Len(s) - k
      /\ \A i \in 1 .. Len(s) - k : b[i] = s[k + i]
  BY <1>1, SubSeqProperties
<1>4. Queue!RemoveAt(s, k) = a \o b
  BY DEF Queue!RemoveAt
<1>. HIDE DEF a, b
<1>5. /\ a \o b \in Seq(Hart) /\ Len(a \o b) = Len(s) - 1
      /\ \A i \in 1 .. Len(s) - 1 : (a \o b)[i] = IF i <= k - 1 THEN a[i] ELSE b[i - (k - 1)]
  BY <1>1, <1>2, <1>3, ConcatProperties
<1>6. \A i \in 1 .. Len(s) - 1 : (a \o b)[i] = IF i < k THEN s[i] ELSE s[i + 1]
  <2>. SUFFICES ASSUME NEW i \in 1 .. Len(s) - 1
       PROVE  (a \o b)[i] = IF i < k THEN s[i] ELSE s[i + 1]
    OBVIOUS
  <2>1. CASE i < k
    <3>1. i \in 1 .. k - 1 /\ i <= k - 1
      BY <1>1, <2>1
    <3>. QED BY <1>2, <1>5, <2>1, <3>1
  <2>2. CASE ~(i < k)
    <3>1. i - (k - 1) \in 1 .. Len(s) - k /\ ~(i <= k - 1)
      BY <1>1, <2>2
    <3>2. k + (i - (k - 1)) = i + 1
      BY <1>1
    <3>. QED BY <1>3, <1>5, <2>2, <3>1, <3>2
  <2>. QED BY <2>1, <2>2
<1>. QED BY <1>4, <1>5, <1>6

\* A hart leaves from its place, whoever is behind it.
LEMMA UnlinkLists ==
    ASSUME LockTypeOK, QueueOK, NEW h \in Hart, Unlink(h), NEW s, Lists(s)
    PROVE  \E k \in 1 .. Len(s) : s[k] = h /\ Lists(Queue!RemoveAt(s, k))'
<1> USE DEF LockTypeOK, Pc, Node
<1>0. PICK x \in Node : x = after[h]
  OBVIOUS
<1>1. h \in InQueue /\ InQueue' = InQueue \ {h}
  BY DEF Unlink, InQueue
<1>2. h # Null /\ prev[x] = h /\ prev[h] = Null /\ x # h
  BY <1>0, NodesDistinct DEF Unlink, QueueOK
<1>3. x \in Member /\ InFront(x) = h /\ (x \in Hart => pc[x] \in {"link", "wait"})
  BY <1>2, NodesDistinct DEF QueueOK, Member, InQueue, InFront, Leaving
<1>4. InFront(x)' = InFront(h)
  BY <1>0, <1>2, <1>3, NodesDistinct DEF Unlink, InFront, Leaving
<1>5. \A n \in Member \ {h, x} : InFront(n)' = InFront(n)
  BY <1>0, NodesDistinct DEF Unlink, InFront, Leaving, Member, InQueue
<1>6. PICK k \in 1 .. Len(s) : s[k] = h
  BY <1>1 DEF Lists
<1>. DEFINE t == Queue!RemoveAt(s, k)
<1>7. /\ t \in Seq(Hart) /\ Len(t) = Len(s) - 1
      /\ \A i \in 1 .. Len(t) : t[i] = IF i < k THEN s[i] ELSE s[i + 1]
  BY ListFacts, RemovedAt
<1>. HIDE DEF t
<1>8. x = IF k = Len(s) THEN LockTail ELSE s[k + 1]
  <2>1. CASE k = Len(s)
    <3>1. InFront(LockTail) = h
      BY <1>6, <2>1, ListFacts DEF Lists
    <3>. QED BY <1>3, <2>1, <3>1 DEF QueueOK, Member
  <2>2. CASE k # Len(s)
    <3>1. k + 1 \in 1 .. Len(s)
      BY <2>2, ListFacts
    <3>2. InFront(s[k + 1]) = h /\ s[k + 1] \in Member
      BY <1>6, <3>1, ListFacts DEF Lists, Member
    <3>. QED BY <1>3, <2>2, <3>2 DEF QueueOK
  <2>. QED BY <2>1, <2>2
<1>9. \A i, j \in 1 .. Len(t) : t[i] = t[j] => i = j
  <2>. SUFFICES ASSUME NEW i \in 1 .. Len(t), NEW j \in 1 .. Len(t), t[i] = t[j]
       PROVE  i = j
    OBVIOUS
  <2>1. PICK a \in 1 .. Len(s) : a = IF i < k THEN i ELSE i + 1
    BY <1>7, ListFacts
  <2>2. PICK b \in 1 .. Len(s) : b = IF j < k THEN j ELSE j + 1
    BY <1>7, ListFacts
  <2>3. s[a] = s[b]
    BY <1>7, <2>1, <2>2
  <2>. QED BY <2>1, <2>2, <2>3, ListFacts DEF Lists
<1>10. \A g \in Hart : g \in InQueue' <=> \E i \in 1 .. Len(t) : t[i] = g
  <2>1. ASSUME NEW g \in Hart, g \in InQueue' PROVE \E i \in 1 .. Len(t) : t[i] = g
    <3>1. PICK j \in 1 .. Len(s) : s[j] = g
      BY <1>1, <2>1 DEF Lists
    <3>2. j # k
      BY <1>1, <1>6, <2>1, <3>1
    <3>3. PICK i \in 1 .. Len(t) : j = IF i < k THEN i ELSE i + 1
      <4>1. CASE j < k
        BY <1>7, <4>1, ListFacts
      <4>2. CASE j > k
        <5>1. j - 1 \in 1 .. Len(t) /\ ~(j - 1 < k)
          BY <1>7, <4>2, ListFacts
        <5>. QED BY <5>1, ListFacts
      <4>. QED BY <3>2, <4>1, <4>2, ListFacts
    <3>. QED BY <1>7, <3>1, <3>3
  <2>2. ASSUME NEW g \in Hart, NEW i \in 1 .. Len(t), t[i] = g PROVE g \in InQueue'
    <3>1. PICK j \in 1 .. Len(s) : j = (IF i < k THEN i ELSE i + 1) /\ j # k
      BY <1>7, ListFacts
    <3>2. g = s[j]
      BY <1>7, <2>2, <3>1
    <3>3. g # h
      BY <1>6, <3>1, <3>2 DEF Lists
    <3>. QED BY <1>1, <3>2, <3>3, ListFacts
  <2>. QED BY <2>1, <2>2
<1>11. \A i \in 1 .. Len(t) : InFront(t[i])' = IF i = 1 THEN Null ELSE t[i - 1]
  <2>. SUFFICES ASSUME NEW i \in 1 .. Len(t)
       PROVE  InFront(t[i])' = IF i = 1 THEN Null ELSE t[i - 1]
    OBVIOUS
  <2>1. CASE i < k
    <3>1. i \in 1 .. Len(s) /\ t[i] = s[i] /\ i # k /\ i # k + 1 /\ i # Len(s) + 1
      BY <1>7, <2>1, ListFacts
    <3>2. s[i] # h /\ s[i] \in Member
      BY <1>6, <3>1, ListFacts DEF Lists, Member
    <3>5. s[i] # x
      <4>1. CASE k = Len(s)
        BY <1>8, <3>1, <4>1, ListFacts
      <4>2. CASE k # Len(s)
        <5>1. k + 1 \in 1 .. Len(s) /\ x = s[k + 1]
          BY <1>8, <4>2, ListFacts
        <5>. QED BY <3>1, <5>1 DEF Lists
      <4>. QED BY <4>1, <4>2
    <3>3. InFront(t[i])' = InFront(s[i])
      BY <1>5, <3>1, <3>2, <3>5
    <3>4. i # 1 => t[i - 1] = s[i - 1]
      <4>1. i # 1 => i - 1 \in 1 .. Len(t) /\ i - 1 < k
        BY <1>7, <2>1, ListFacts
      <4>. QED BY <1>7, <4>1
    <3>. QED BY <3>1, <3>3, <3>4 DEF Lists
  <2>2. CASE i = k
    <3>1. t[i] = s[k + 1] /\ k # Len(s)
      BY <1>7, <2>2, ListFacts
    <3>2. InFront(t[i])' = InFront(s[k])
      BY <1>4, <1>6, <1>8, <3>1
    <3>3. i # 1 => t[i - 1] = s[k - 1]
      BY <1>7, <2>2, ListFacts
    <3>. QED BY <2>2, <3>2, <3>3 DEF Lists
  <2>3. CASE i > k
    <3>1. PICK j \in 1 .. Len(s) : j = i + 1
      BY <1>7, ListFacts
    <3>2. t[i] = s[j] /\ j # k /\ j # k + 1 /\ j # 1
      <4>1. t[i] = s[i + 1] /\ i # 0
        BY <1>7, <2>3, ListFacts
      <4>. QED BY <2>3, <3>1, <4>1
    <3>3. k # Len(s) /\ k + 1 \in 1 .. Len(s)
      BY <1>7, <2>3, ListFacts
    <3>4. s[j] # h /\ s[j] # x /\ s[j] \in Member
      BY <1>6, <1>8, <3>2, <3>3, ListFacts DEF Lists, Member
    <3>5. InFront(t[i])' = s[j - 1]
      BY <1>5, <3>2, <3>4 DEF Lists
    <3>6. i # 1 /\ t[i - 1] = s[i] /\ j - 1 = i
      <4>1. i - 1 \in 1 .. Len(t) /\ ~(i - 1 < k) /\ (i - 1) + 1 = i
        BY <1>7, <2>3, <3>1, ListFacts
      <4>. QED BY <1>7, <3>1, <4>1
    <3>. QED BY <3>5, <3>6
  <2>. QED BY <1>7, <2>1, <2>2, <2>3, ListFacts
<1>12. InFront(LockTail)' = IF Len(t) = 0 THEN Null ELSE t[Len(t)]
  <2>1. CASE k = Len(s)
    <3>1. InFront(LockTail)' = InFront(s[k])
      BY <1>4, <1>6, <1>8, <2>1
    <3>2. k # 1 => t[Len(t)] = s[k - 1] /\ Len(t) # 0
      <4>1. k # 1 => Len(t) \in 1 .. Len(t) /\ Len(t) < k /\ Len(t) = k - 1
        BY <1>7, <2>1, ListFacts
      <4>. QED BY <1>7, <4>1
    <3>3. k = 1 => Len(t) = 0
      BY <1>7, <2>1, ListFacts
    <3>. QED BY <3>1, <3>2, <3>3 DEF Lists
  <2>2. CASE k # Len(s)
    <3>1. x # LockTail /\ h # LockTail
      BY <1>8, <2>2, ListFacts, NodesDistinct
    <3>2. InFront(LockTail)' = InFront(LockTail)
      BY <1>5, <3>1 DEF Member
    <3>3. Len(t) # 0 /\ t[Len(t)] = s[Len(s)] /\ Len(s) # 0
      <4>1. /\ Len(t) \in 1 .. Len(t) /\ ~(Len(t) < k)
            /\ Len(t) + 1 = Len(s) /\ Len(s) # 0 /\ Len(t) # 0
        BY <1>7, <2>2, ListFacts
      <4>2. t[Len(t)] = s[Len(t) + 1]
        BY <1>7, <4>1
      <4>. QED BY <4>1, <4>2
    <3>. QED BY <3>2, <3>3 DEF Lists
  <2>. QED BY <2>1, <2>2
<1>13. Lists(t)'
  BY <1>7, <1>9, <1>10, <1>11, <1>12 DEF Lists
<1>. QED BY <1>6, <1>13 DEF t

\* The other steps move nobody.
LEMMA OthersLists ==
    ASSUME LockTypeOK, QueueOK, NEW h \in Hart, NEW s, Lists(s),
           \/ Link(h) \/ Enter(h) \/ Release(h) \/ GiveUp(h)
           \/ ReadNext(h) \/ Retry(h) \/ Relink(h)
    PROVE  Lists(s)'
<1> USE DEF LockTypeOK, Pc, Node
<1>1. InQueue' = InQueue
  BY DEF Link, Enter, Release, GiveUp, Exchange, ReadNext, Retry, Relink, InQueue
<1>2. \A n \in Member : InFront(n)' = InFront(n)
  BY NodesDistinct DEF Link, Enter, Release, GiveUp, Exchange, ReadNext, Retry,
     Relink, InQueue, Member, InFront, Leaving
<1>3. \A i \in 1 .. Len(s) : InFront(s[i])' = InFront(s[i])
  BY <1>2, ListFacts DEF Member
<1>. QED BY <1>1, <1>2, <1>3 DEF Lists, Member

LEMMA LineIsListNext ==
    ASSUME NEW s
    PROVE  (LockTypeOK /\ QueueOK /\ Lists(s) => Line[LockTail] = s)'
<1>1. LockTypeOK /\ QueueOK /\ Lists(s) => Line[LockTail] = s
  BY LineIsList
<1>. QED BY <1>1, PTL

LEMMA QueueStep ==
    ASSUME LockTypeOK, QueueOK, Listed, [LockNext]_lockVars
    PROVE  Listed' /\ [Queue!Next]_(Queue!vars)
<1> USE DEF LockTypeOK, Pc
<1>1. PICK s \in Seq(Hart) : Lists(s)
  BY DEF Listed
<1>2. Line[LockTail] = s
  BY <1>1, LineIsList
<1>3. LockTypeOK' /\ QueueOK'
  BY LockTypeStep, QueueOKStep
<1>4. \A t \in Seq(Hart) : Lists(t)' => Listed' /\ (Line[LockTail])' = t
  <2>. SUFFICES ASSUME NEW t \in Seq(Hart), Lists(t)'
       PROVE  Listed' /\ (Line[LockTail])' = t
    OBVIOUS
  <2>1. (Line[LockTail])' = t
    BY <1>3, LineIsListNext
  <2>. QED BY <2>1 DEF Listed
<1>5. CASE UNCHANGED lockVars
  <2>1. Lists(s)'
    BY <1>1, <1>5 DEF lockVars, Lists, InQueue, InFront, Leaving
  <2>2. Inside' = Inside
    BY <1>5 DEF lockVars, Inside
  <2>. QED BY <1>1, <1>2, <1>4, <2>1, <2>2 DEF Queue!vars
<1>6. ASSUME NEW h \in Hart, Acquire(h) PROVE Listed' /\ Queue!Next
  <2>1. Append(s, h) \in Seq(Hart) /\ Lists(Append(s, h))'
    BY <1>1, <1>6, AcquireLists, AppendProperties
  <2>2. (Line[LockTail])' = Append(s, h) /\ Listed'
    BY <1>4, <2>1
  <2>3. InFront(LockTail) = prev[LockTail]
    BY NodesDistinct DEF InFront
  <2>4. CASE prev[LockTail] = Null
    <3>1. Len(s) = 0
      <4>1. Len(s) # 0 => Len(s) \in 1 .. Len(s)
        BY <1>1, ListFacts
      <4>2. Len(s) # 0 => s[Len(s)] # Null
        BY <1>1, <4>1, ListFacts
      <4>. QED BY <1>1, <2>3, <2>4, <4>2 DEF Lists
    <3>2. s = <<>> /\ InQueue = {}
      BY <1>1, <3>1, EmptySeq DEF Lists, InQueue
    <3>3. Inside' = {h}
      BY <1>6, <2>4, <3>2 DEF Acquire, Inside, InQueue
    <3>4. Append(s, h) = <<h>>
      BY <3>2
    <3>. QED BY <1>2, <1>6, <2>2, <3>2, <3>3, <3>4 DEF Queue!Next, Queue!JoinFree
  <2>5. CASE prev[LockTail] # Null
    <3>1. Inside' = Inside
      BY <1>6, <2>5 DEF Acquire, Inside
    <3>2. h \notin InQueue
      BY <1>6 DEF Acquire, InQueue
    <3>3. ~ \E i \in DOMAIN s : s[i] = h
      BY <1>1, <3>2, ListFacts
    <3>. QED BY <1>2, <2>2, <3>1, <3>3 DEF Queue!Next, Queue!Join, Queue!Queued
  <2>. QED BY <2>2, <2>4, <2>5
<1>7. ASSUME NEW h \in Hart, Unlink(h) PROVE Listed' /\ Queue!Next
  <2>1. PICK k \in 1 .. Len(s) : s[k] = h /\ Lists(Queue!RemoveAt(s, k))'
    BY <1>1, <1>7, UnlinkLists
  <2>2. Queue!RemoveAt(s, k) \in Seq(Hart)
    BY <1>1, RemovedAt
  <2>3. (Line[LockTail])' = Queue!RemoveAt(s, k) /\ Listed'
    BY <1>4, <2>1, <2>2
  <2>4. h \notin Inside /\ Inside' = Inside
    BY <1>7 DEF Unlink, Inside
  <2>5. k \in DOMAIN s
    BY <1>1, ListFacts
  <2>6. Queue!Leave(h)
    BY <1>2, <2>1, <2>3, <2>4, <2>5 DEF Queue!Leave
  <2>. QED BY <2>3, <2>6 DEF Queue!Next
<1>8. ASSUME NEW h \in Hart,
             \/ Link(h) \/ Enter(h) \/ Release(h) \/ GiveUp(h)
             \/ ReadNext(h) \/ Retry(h) \/ Relink(h)
      PROVE  Listed' /\ (Queue!Next \/ UNCHANGED Queue!vars)
  <2>1. (Line[LockTail])' = s /\ Listed'
    BY <1>1, <1>4, <1>8, OthersLists
  <2>2. CASE Enter(h)
    <3>1. InFront(h) = Null /\ h \in InQueue /\ h \notin Inside
      BY <2>2 DEF Enter, InFront, Leaving, InQueue, Inside
    <3>2. PICK i \in 1 .. Len(s) : s[i] = h
      BY <1>1, <3>1 DEF Lists
    <3>3. i = 1
      <4>. SUFFICES ASSUME i # 1 PROVE FALSE
        OBVIOUS
      <4>1. i - 1 \in 1 .. Len(s)
        BY <1>1, <3>2, ListFacts
      <4>2. InFront(s[i]) = s[i - 1]
        BY <1>1, <3>2 DEF Lists
      <4>3. s[i - 1] # Null
        BY <1>1, <4>1, ListFacts
      <4>. QED BY <3>1, <3>2, <4>2, <4>3
    <3>4. s # <<>> /\ Head(s) = h
      BY <1>1, <3>2, <3>3, ListFacts
    <3>5. Inside' = Inside \cup {h}
      BY <2>2 DEF Enter, Inside
    <3>6. Queue!Enter(h)
      BY <1>2, <2>1, <3>1, <3>4, <3>5 DEF Queue!Enter
    <3>. QED BY <2>1, <3>6 DEF Queue!Next
  <2>3. CASE Release(h)
    <3>1. h \in Inside /\ Inside' = Inside \ {h}
      BY <2>3 DEF Release, Exchange, Inside
    <3>2. Queue!Exit(h)
      BY <1>2, <2>1, <3>1 DEF Queue!Exit
    <3>. QED BY <2>1, <3>2 DEF Queue!Next
  <2>4. CASE Link(h) \/ GiveUp(h) \/ ReadNext(h) \/ Retry(h) \/ Relink(h)
    <3>1. Inside' = Inside
      BY <2>4 DEF Link, GiveUp, Exchange, ReadNext, Retry, Relink, Inside
    <3>. QED BY <1>2, <2>1, <3>1 DEF Queue!vars
  <2>. QED BY <1>8, <2>2, <2>3, <2>4
<1>. QED BY <1>5, <1>6, <1>7, <1>8 DEF LockNext, Proceed

(***************************************************************************)
(* The lock implements LockQueue: harts get it in the order of their       *)
(* exchange on tail.prev, and one that gives up takes itself out of that   *)
(* order and nobody else, whoever leaves next to it (mcslock.c).           *)
(***************************************************************************)
THEOREM LockServesInOrder == LockSpec => ServesInOrder
<1>1. LockInit => Listed /\ Queue!Init
  <2>. SUFFICES ASSUME LockInit PROVE Listed /\ Queue!Init
    OBVIOUS
  <2>1. Lists(<<>>)
    BY NodesDistinct, EmptySeq DEF LockInit, Lists, InQueue, InFront, Leaving, Node
  <2>2. LockTypeOK /\ QueueOK
    BY NodesDistinct DEF LockInit, LockTypeOK, Pc, QueueOK, Member, InQueue,
       InFront, Leaving, Node
  <2>3. Line[LockTail] = <<>>
    BY <2>1, <2>2, LineIsList
  <2>4. Inside = {}
    BY DEF LockInit, Inside
  <2>. QED BY <2>1, <2>3, <2>4, EmptySeq DEF Listed, Queue!Init
<1>. QED
  BY <1>1, QueueStep, LockTypeCorrect, LockQueueCorrect, PTL
  DEF LockSpec, ServesInOrder, Queue!Spec

=============================================================================
