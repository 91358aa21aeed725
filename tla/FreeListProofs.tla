--------------------------- MODULE FreeListProofs ---------------------------
(***************************************************************************)
(* Theorems about FreeList, queue_init on a block of memory: for queues of *)
(* any length, with entries of any size.  The invariant Building says what *)
(* the next pointers of the entries hold after every step; where the write *)
(* to the "last node" falls among them decides the rest.                   *)
(*                                                                         *)
(* The addresses are products of two unknowns.  What the proofs need of    *)
(* them is stated first: entries are in the block, in order, and at least  *)
(* two words apart.                                                        *)
(***************************************************************************)
EXTENDS FreeList, TLAPS

\* The pointers after the first i entries have been linked
Building ==
  /\ TypeOK
  /\ pc = "first" => i = 1 /\ \A a \in Memory : mem[a] = fresh
  /\ pc = "middle" =>
       /\ empty = Entry(0)
       /\ i = 1 \/ i <= qlen - 1
       /\ \A k \in 0 .. qlen - 1 :
            mem[Entry(k)] = IF k < i /\ k < qlen - 1 THEN Entry(k + 1) ELSE fresh
  /\ ZeroedListIsPrefix
  /\ CompleteWhenStridesAgree

-----------------------------------------------------------------------------
(***************************************************************************)
(* Addresses.                                                              *)
(***************************************************************************)

\* Multiplication keeps the order.
LEMMA ProductOrder ==
  ASSUME NEW s \in Nat, NEW j \in Nat, NEW k \in Nat, j <= k
  PROVE  s * j \in Nat /\ s * k \in Nat /\ s * j <= s * k
<1>1. PICK m \in Nat : k = j + m
  <2>1. k - j \in Nat /\ k = j + (k - j)
    OBVIOUS
  <2> QED
    BY <2>1
<1>2. s * k = s * j + s * m /\ s * m \in Nat /\ s * j \in Nat
  BY <1>1
<1> QED
  BY <1>2

\* The next pointers of two entries are at least two words apart.
LEMMA EntryOrder ==
  ASSUME data \in Nat, NEW j \in Nat, NEW k \in Nat, j < k
  PROVE  /\ Entry(j) \in Nat /\ Entry(k) \in Nat
         /\ Entry(j) + Header <= Entry(k)
<1>1. Stride \in Nat /\ Stride >= 2 /\ Header = 2
  BY DEF Stride, Header
<1>2. Stride * (j + 1) = Stride * j + Stride
  BY <1>1
<1>3. Stride * (j + 1) <= Stride * k /\ Stride * j \in Nat /\ Stride * k \in Nat
  BY <1>1, ProductOrder
<1> QED
  BY <1>1, <1>2, <1>3 DEF Entry

\* The header of an entry, and that of the "last node", is within the words
\* the entries need, and these are in the memory modelled.
LEMMA InBlock ==
  ASSUME qlen \in 1 .. MaxQLen, data \in 0 .. MaxData
  PROVE  /\ Needed \in Nat /\ Needed <= MaxQLen * (Header + MaxData)
         /\ \A k \in 0 .. qlen - 1 : Entry(k) \in 1 .. Needed - 1
         /\ LastNode \in 1 .. Needed - 1
<1>1. /\ Stride \in Nat /\ 2 <= Stride /\ Stride <= Header + MaxData
      /\ Header = 2 /\ Header + MaxData \in Nat
      /\ qlen \in Nat /\ MaxQLen \in Nat /\ qlen >= 1 /\ qlen <= MaxQLen
  BY FreeListAssumption DEF Stride, Header
<1>2. Needed \in Nat /\ Needed <= MaxQLen * (Header + MaxData)
  <2>1. Stride * qlen \in Nat /\ Stride * qlen <= Stride * MaxQLen
    BY <1>1, ProductOrder
  <2>2. MaxQLen * Stride \in Nat /\ MaxQLen * Stride <= MaxQLen * (Header + MaxData)
    BY <1>1, ProductOrder
  <2>3. Stride * MaxQLen = MaxQLen * Stride
    BY <1>1
  <2>4. MaxQLen * (Header + MaxData) \in Nat
    BY <1>1
  <2> QED
    BY <2>1, <2>2, <2>3, <2>4 DEF Needed
<1>3. ASSUME NEW k \in 0 .. qlen - 1
      PROVE  Entry(k) \in 1 .. Needed - 1
  <2>1. k \in Nat /\ k + 1 \in Nat /\ k + 1 <= qlen
    BY <1>1
  <2>2. Stride * (k + 1) <= Stride * qlen
    BY <1>1, <2>1, ProductOrder
  <2>3. Stride * (k + 1) = Stride * k + Stride
    BY <1>1, <2>1
  <2>4. Stride * k \in Nat
    BY <1>1, <2>1, ProductOrder
  <2> QED
    BY <1>1, <1>2, <2>2, <2>3, <2>4 DEF Entry, Needed
<1>4. LastNode \in 1 .. Needed - 1
  <2>1. qlen * 2 <= qlen * Stride
    BY <1>1, ProductOrder
  <2>2. qlen * Stride = Stride * qlen
    BY <1>1
  <2> QED
    BY <1>1, <1>2, <2>1, <2>2 DEF LastNode, Needed
<1> QED
  BY <1>2, <1>3, <1>4

\* So a header can be written there.
LEMMA InMemory ==
  ASSUME qlen \in 1 .. MaxQLen, data \in 0 .. MaxData,
         NEW a \in 1 .. Needed - 1
  PROVE  a \in Memory /\ a + 1 \in Memory
<1>1. Needed \in Nat /\ Needed <= MaxQLen * (Header + MaxData)
  BY InBlock
<1>2. MaxQLen * (Header + MaxData) \in Nat /\ Header = 2
  BY FreeListAssumption DEF Header
<1> QED
  BY <1>1, <1>2 DEF Memory

-----------------------------------------------------------------------------
(***************************************************************************)
(* The steps of queue_init.                                                *)
(***************************************************************************)
LEMMA FirstNodeKeeps ==
  ASSUME Building, FirstNode
  PROVE  Building'
<1> USE DEF Building
<1>1. /\ qlen \in 1 .. MaxQLen /\ data \in 0 .. MaxData /\ qlen \in Nat /\ data \in Nat
      /\ UNCHANGED <<qlen, data, block, fresh, full, i>>
      /\ pc = "first" /\ pc' = "middle" /\ empty' = Entry(0) /\ i = 1
      /\ mem \in [Memory -> Memory \cup {0, Garbage}]
  BY FreeListAssumption DEF FirstNode, TypeOK
<1>2. Entry(0) \in Memory /\ Entry(0) + 1 \in Memory
  BY <1>1, InBlock, InMemory
<1>3. qlen >= 2 => Entry(1) \in Memory /\ Entry(0) + Header <= Entry(1)
  BY <1>1, InBlock, InMemory, EntryOrder
<1>4. mem' = [mem EXCEPT ![Entry(0) + 1] = 0, ![Entry(0)] = IF qlen >= 2 THEN Entry(1) ELSE @]
  BY DEF FirstNode, LenOf, NextOf
<1>5. /\ mem' \in [Memory -> Memory \cup {0, Garbage}]
      /\ mem'[Entry(0)] = IF qlen >= 2 THEN Entry(1) ELSE mem[Entry(0)]
      /\ \A a \in Memory \ {Entry(0), Entry(0) + 1} : mem'[a] = mem[a]
  BY <1>1, <1>2, <1>3, <1>4
<1>6. TypeOK'
  BY <1>1, <1>5 DEF TypeOK, Entry, Stride
<1>7. \A k \in 0 .. qlen - 1 :
        mem'[Entry(k)] = IF k < 1 /\ k < qlen - 1 THEN Entry(k + 1) ELSE fresh
  <2> SUFFICES ASSUME NEW k \in 0 .. qlen - 1
               PROVE  mem'[Entry(k)] = IF k < 1 /\ k < qlen - 1 THEN Entry(k + 1) ELSE fresh
    OBVIOUS
  <2>1. CASE k = 0
    BY <1>1, <1>2, <1>5, <2>1
  <2>2. CASE k > 0
    <3>1. Entry(0) + Header <= Entry(k) /\ Entry(0) \in Nat /\ Entry(k) \in Nat
      BY <1>1, <2>2, EntryOrder
    <3>2. Entry(k) \in Memory
      BY <1>1, InBlock, InMemory
    <3>3. Entry(k) # Entry(0) /\ Entry(k) # Entry(0) + 1
      BY <3>1 DEF Header
    <3> QED
      BY <1>1, <1>5, <2>2, <3>2, <3>3
  <2> QED
    BY <2>1, <2>2
<1>8. \A k \in Int : Entry(k)' = Entry(k)
  BY <1>1 DEF Entry, Stride
<1> QED
  BY <1>1, <1>6, <1>7, <1>8 DEF ZeroedListIsPrefix, CompleteWhenStridesAgree

\* The loop of queue_init links one entry more.
LEMMA MiddleNodeKeeps ==
  ASSUME Building, MiddleNode
  PROVE  Building'
<1> USE DEF Building
<1>1. /\ qlen \in 1 .. MaxQLen /\ data \in 0 .. MaxData /\ qlen \in Nat /\ data \in Nat
      /\ i \in Nat /\ i >= 1 /\ i < qlen - 1 /\ MaxQLen \in Nat
      /\ UNCHANGED <<qlen, data, block, fresh, empty, full, pc>>
      /\ pc = "middle" /\ i' = i + 1
      /\ mem \in [Memory -> Memory \cup {0, Garbage}]
  BY FreeListAssumption DEF MiddleNode, TypeOK, LoopEnd
<1>2. Entry(i) \in Memory /\ Entry(i) + 1 \in Memory /\ Entry(i + 1) \in Memory
  BY <1>1, InBlock, InMemory
<1>3. mem' = [mem EXCEPT ![Entry(i) + 1] = 0, ![Entry(i)] = Entry(i + 1)]
  BY DEF MiddleNode, LenOf, NextOf
<1>4. /\ mem' \in [Memory -> Memory \cup {0, Garbage}]
      /\ mem'[Entry(i)] = Entry(i + 1)
      /\ \A a \in Memory \ {Entry(i), Entry(i) + 1} : mem'[a] = mem[a]
  BY <1>1, <1>2, <1>3
<1>5. \A k \in Int : Entry(k)' = Entry(k)
  BY <1>1 DEF Entry, Stride
<1>6. TypeOK'
  BY <1>1, <1>4, <1>5 DEF TypeOK
<1>7. \A k \in 0 .. qlen - 1 :
        mem'[Entry(k)] = IF k < i + 1 /\ k < qlen - 1 THEN Entry(k + 1) ELSE fresh
  <2> SUFFICES ASSUME NEW k \in 0 .. qlen - 1
               PROVE  mem'[Entry(k)] = IF k < i + 1 /\ k < qlen - 1 THEN Entry(k + 1) ELSE fresh
    OBVIOUS
  <2>1. CASE k = i
    BY <1>1, <1>4, <2>1
  <2>2. CASE k # i
    <3>1. Entry(k) \in Memory
      BY <1>1, InBlock, InMemory
    <3>2. k < i => Entry(k) + Header <= Entry(i) /\ Entry(k) \in Nat /\ Entry(i) \in Nat
      BY <1>1, EntryOrder
    <3>3. i < k => Entry(i) + Header <= Entry(k) /\ Entry(k) \in Nat /\ Entry(i) \in Nat
      BY <1>1, EntryOrder
    <3>4. Entry(k) # Entry(i) /\ Entry(k) # Entry(i) + 1
      BY <1>1, <2>2, <3>2, <3>3 DEF Header
    <3>5. mem'[Entry(k)] = mem[Entry(k)]
      BY <1>4, <3>1, <3>4
    <3> QED
      BY <1>1, <2>2, <3>5
  <2> QED
    BY <2>1, <2>2
<1> QED
  BY <1>1, <1>5, <1>6, <1>7 DEF ZeroedListIsPrefix, CompleteWhenStridesAgree

\* The write to the "last node" ends the list: at the first entry whose next
\* pointer it hits or, on zeroed memory, at the last one.
LEMMA FinalNodeKeeps ==
  ASSUME Building, FinalNode
  PROVE  Building'
<1> USE DEF Building
<1>1. /\ qlen \in 1 .. MaxQLen /\ data \in 0 .. MaxData /\ qlen \in Nat /\ data \in Nat
      /\ i \in Nat /\ i >= qlen - 1
      /\ UNCHANGED <<qlen, data, block, fresh, empty, i>>
      /\ pc = "middle" /\ pc' = "done" /\ full' = NULL
      /\ empty = Entry(0)
      /\ mem \in [Memory -> Memory \cup {0, Garbage}]
  BY FreeListAssumption DEF FinalNode, TypeOK, LoopEnd
<1>2. LastNode \in Nat /\ LastNode \in Memory /\ LastNode + 1 \in Memory
  BY <1>1, InBlock, InMemory DEF Memory
<1>3. mem' = [mem EXCEPT ![LastNode + 1] = 0, ![LastNode] = 0]
  BY DEF FinalNode, LenOf, NextOf, NULL
<1>4. /\ mem' \in [Memory -> Memory \cup {0, Garbage}]
      /\ \A a \in Memory :
           mem'[a] = IF a = LastNode \/ a = LastNode + 1 THEN 0 ELSE mem[a]
  BY <1>1, <1>2, <1>3
<1>5. \A k \in Int : Entry(k)' = Entry(k)
  BY <1>1 DEF Entry, Stride
<1>6. TypeOK'
  BY <1>1, <1>4, <1>5 DEF TypeOK
<1> DEFINE Hit(k) == Entry(k) = LastNode \/ Entry(k) = LastNode + 1
<1>7. \A k \in 0 .. qlen - 1 :
        mem'[Entry(k)] = IF Hit(k) THEN 0
                         ELSE IF k < qlen - 1 THEN Entry(k + 1) ELSE fresh
  <2> SUFFICES ASSUME NEW k \in 0 .. qlen - 1
               PROVE  mem'[Entry(k)] = IF Hit(k) THEN 0
                                       ELSE IF k < qlen - 1 THEN Entry(k + 1) ELSE fresh
    OBVIOUS
  <2>1. Entry(k) \in Memory
    BY <1>1, InBlock, InMemory
  <2>2. mem[Entry(k)] = IF k < i /\ k < qlen - 1 THEN Entry(k + 1) ELSE fresh
    BY <1>1
  <2>3. k < qlen - 1 => k < i
    BY <1>1
  <2> QED
    BY <1>4, <2>1, <2>2, <2>3
\* The two words written are in the header of at most one entry.
<1>8. \A j, k \in 0 .. qlen - 1 : Hit(k) /\ j < k => ~Hit(j)
  <2> SUFFICES ASSUME NEW j \in 0 .. qlen - 1, NEW k \in 0 .. qlen - 1, Hit(k), j < k
               PROVE  ~Hit(j)
    OBVIOUS
  <2>1. Entry(j) \in Nat /\ Entry(k) \in Nat /\ Entry(j) + Header <= Entry(k)
    BY <1>1, EntryOrder
  <2> QED
    BY <1>2, <2>1 DEF Header
<1> HIDE DEF Hit
<1>9. ASSUME NEW n \in 1 .. qlen, \A j \in 0 .. n - 2 : ~Hit(j),
             Hit(n - 1) \/ (n = qlen /\ fresh = 0)
      PROVE  EmptyListIs(n)'
  <2> SUFFICES ASSUME NEW k \in 0 .. n - 1
               PROVE  mem'[Entry(k)] = IF k < n - 1 THEN Entry(k + 1) ELSE NULL
    BY <1>1, <1>5 DEF EmptyListIs, NextOf
  <2>1. CASE k < n - 1
    BY <1>1, <1>7, <1>9, <2>1
  <2>2. CASE k = n - 1
    BY <1>1, <1>7, <1>9, <2>2 DEF NULL
  <2> QED
    BY <2>1, <2>2
<1>10. ZeroedListIsPrefix'
  <2> SUFFICES ASSUME fresh = 0 PROVE \E n \in 1 .. qlen : EmptyListIs(n)'
    BY <1>1 DEF ZeroedListIsPrefix
  <2>1. CASE \E m \in 0 .. qlen - 1 : Hit(m)
    <3>1. PICK m \in 0 .. qlen - 1 : Hit(m)
      BY <2>1
    <3>2. m + 1 \in 1 .. qlen /\ (m + 1) - 1 = m
      BY <1>1
    <3>3. \A j \in 0 .. (m + 1) - 2 : ~Hit(j)
      BY <1>1, <1>8, <3>1
    <3> QED
      BY <1>9, <3>1, <3>2, <3>3
  <2>2. CASE ~\E m \in 0 .. qlen - 1 : Hit(m)
    <3>1. qlen \in 1 .. qlen /\ \A j \in 0 .. qlen - 2 : ~Hit(j)
      BY <1>1, <2>2
    <3> QED
      BY <1>9, <3>1
  <2> QED
    BY <2>1, <2>2
<1>11. CompleteWhenStridesAgree'
  <2> SUFFICES ASSUME qlen = 1 \/ data = 0 PROVE EmptyListIs(qlen)'
    BY <1>1 DEF CompleteWhenStridesAgree
  <2>1. Hit(qlen - 1)
    <3>1. CASE qlen = 1
      BY <1>1, <3>1 DEF Hit, Entry, Stride, LastNode, Header
    <3>2. CASE data = 0
      BY <1>1, <3>2 DEF Hit, Entry, Stride, LastNode, Header
    <3> QED
      BY <3>1, <3>2
  <2>2. \A j \in 0 .. qlen - 2 : ~Hit(j)
    BY <1>1, <1>8, <2>1
  <2> QED
    BY <1>1, <1>9, <2>1, <2>2
<1> QED
  BY <1>1, <1>6, <1>10, <1>11

\* Every step of queue_init keeps the invariant.
LEMMA StepKeepsBuilding ==
  ASSUME Building, Next
  PROVE  Building'
BY FirstNodeKeeps, MiddleNodeKeeps, FinalNodeKeeps DEF Next

\* So does a step of anything else that leaves the queue alone.
LEMMA StutterKeepsBuilding ==
  ASSUME Building, UNCHANGED vars
  PROVE  Building'
BY DEF Building, vars, TypeOK, ZeroedListIsPrefix, CompleteWhenStridesAgree, EmptyListIs,
       Entry, Stride, NextOf, Memory

\* What malloc gives is a block in which nothing is linked yet.
Fresh ==
  /\ qlen \in 1 .. MaxQLen /\ data \in 0 .. MaxData /\ block \in Nat
  /\ fresh \in {0, Garbage} /\ mem = [a \in Memory |-> fresh]
  /\ empty = fresh /\ full = fresh /\ i = 1 /\ pc = "first"

\* queue_init has everything before it when it starts.
LEMMA FreshBlock == Fresh => Building
<1>1. Fresh => TypeOK
  BY FreeListAssumption DEF Fresh, TypeOK
<1> QED
  BY <1>1 DEF Fresh, Building, ZeroedListIsPrefix, CompleteWhenStridesAgree

\* Every step of queue_init writes within the words the entries need.
LEMMA StepWritesInside ==
  ASSUME Building, Next, block >= Needed, NEW a \in Memory, a > block
  PROVE  mem'[a] = mem[a]
<1>1. /\ qlen \in 1 .. MaxQLen /\ data \in 0 .. MaxData /\ block \in Nat
      /\ mem \in [Memory -> Memory \cup {0, Garbage}] /\ qlen \in Nat /\ i \in Nat
  BY FreeListAssumption DEF Building, TypeOK
<1>2. Needed \in Nat /\ a \in Nat /\ a > Needed
  BY <1>1, InBlock DEF Memory
<1>3. ASSUME NEW e \in 1 .. Needed - 1
      PROVE  a # e /\ a # e + 1
  BY <1>2
<1>4. CASE FirstNode
  <2>1. Entry(0) \in 1 .. Needed - 1
    BY <1>1, InBlock
  <2>2. a # Entry(0) /\ a # Entry(0) + 1
    BY <1>3, <2>1
  <2> QED
    BY <1>1, <1>4, <2>2 DEF FirstNode, LenOf, NextOf
<1>5. CASE MiddleNode
  <2>1. Entry(i) \in 1 .. Needed - 1
    BY <1>1, <1>5, InBlock DEF MiddleNode, LoopEnd
  <2>2. a # Entry(i) /\ a # Entry(i) + 1
    BY <1>3, <2>1
  <2> QED
    BY <1>1, <1>5, <2>2 DEF MiddleNode, LenOf, NextOf
<1>6. CASE FinalNode
  <2>1. LastNode \in 1 .. Needed - 1
    BY <1>1, InBlock
  <2>2. a # LastNode /\ a # LastNode + 1
    BY <1>3, <2>1
  <2> QED
    BY <1>1, <1>6, <2>2 DEF FinalNode, LenOf, NextOf
<1> QED
  BY <1>4, <1>5, <1>6 DEF Next

-----------------------------------------------------------------------------
(***************************************************************************)
(* queue_init on its own.                                                  *)
(***************************************************************************)

\* The invariant holds at every step, on memory that is zero or is not.
THEOREM BuildingInvariant == Spec => []Building
<1>1. Init => Building
  <2>1. Init => block \in Nat
    BY InBlock DEF Init
  <2> QED
    BY <2>1, FreshBlock DEF Init, Fresh
<1>2. Building /\ [Next]_vars => Building'
  BY StepKeepsBuilding, StutterKeepsBuilding
<1> QED
  BY <1>1, <1>2, PTL DEF Spec

\* At every step a word of memory is 0, an address or what malloc left there,
\* and the list starts at the first entry as soon as queue_init has set it.
THEOREM TypeCorrect == Spec => []TypeOK
<1>1. Building => TypeOK
  BY DEF Building
<1> QED
  BY <1>1, BuildingInvariant, PTL
=============================================================================
