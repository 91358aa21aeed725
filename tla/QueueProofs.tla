---------------------------- MODULE QueueProofs ----------------------------
(***************************************************************************)
(* The steps of module Queue preserve QueueInv, each lemma under the       *)
(* conditions that the client of the queue has to meet.  The condition     *)
(* that matters is SoleGetter: with two threads popping one list, PopCas   *)
(* installs a stale qe_next.                                               *)
(***************************************************************************)
EXTENDS Queue, FiniteSets, SequenceTheorems, FiniteSetTheorems, TLAPS

(***************************************************************************)
(* Popping and pushing a history.                                          *)
(***************************************************************************)

\* What Front does to a list without repetitions: it removes the last entry.
LEMMA FrontFacts ==
  ASSUME NEW S, NEW c \in Seq(S), c # << >>, IsInjective(c)
  PROVE  /\ Front(c) \in Seq(S)
         /\ Len(Front(c)) = Len(c) - 1
         /\ \A i \in 1 .. Len(c) - 1 : Front(c)[i] = c[i]
         /\ IsInjective(Front(c))
         /\ Last(c) \in Range(c)
         /\ Range(Front(c)) = Range(c) \ {Last(c)}
<1>1. Len(c) \in Nat /\ Len(c) > 0
  BY EmptySeq, LenProperties
<1>2. DOMAIN c = 1 .. Len(c) /\ \A i \in 1 .. Len(c) : c[i] \in S
  BY LenProperties
<1>3. \A i, j \in 1 .. Len(c) : c[i] = c[j] => i = j
  BY <1>2 DEF IsInjective
<1>4. \A i \in 1 .. Len(c) - 1 : i \in 1 .. Len(c) /\ i # Len(c)
  BY <1>1
<1>5. Len(c) \in 1 .. Len(c)
  BY <1>1
<1>6. /\ Front(c) \in Seq(S)
      /\ Len(Front(c)) = Len(c) - 1
      /\ \A i \in 1 .. Len(c) - 1 : Front(c)[i] = c[i]
  <2>1. \A i \in 1 .. Len(c) - 1 : c[i] \in S
    BY <1>2, <1>4
  <2>2. /\ SubSeq(c, 1, Len(c) - 1) \in Seq(S)
        /\ Len(SubSeq(c, 1, Len(c) - 1))
             = IF 1 <= Len(c) - 1 THEN (Len(c) - 1) - 1 + 1 ELSE 0
        /\ \A i \in 1 .. (Len(c) - 1) - 1 + 1 :
             SubSeq(c, 1, Len(c) - 1)[i] = c[1 + i - 1]
    BY <1>1, <2>1, SubSeqProperties
  <2>3. Len(SubSeq(c, 1, Len(c) - 1)) = Len(c) - 1
    <3>1. \A n \in Nat :
            n > 0 => (IF 1 <= n - 1 THEN (n - 1) - 1 + 1 ELSE 0) = n - 1
      OBVIOUS
    <3> QED
      BY <1>1, <2>2, <3>1
  <2>4. \A i \in 1 .. Len(c) - 1 :
          i \in 1 .. (Len(c) - 1) - 1 + 1 /\ 1 + i - 1 = i
    BY <1>1
  <2>5. \A i \in 1 .. Len(c) - 1 : SubSeq(c, 1, Len(c) - 1)[i] = c[i]
    BY <2>2, <2>4
  <2> QED
    BY <2>2, <2>3, <2>5 DEF Front
<1>7. DOMAIN Front(c) = 1 .. Len(c) - 1
  BY <1>6, LenProperties
<1>8. IsInjective(Front(c))
  BY <1>3, <1>4, <1>6, <1>7 DEF IsInjective
<1>9. Last(c) \in Range(c)
  BY <1>2, <1>5 DEF Last, Range
<1>10. Range(Front(c)) = Range(c) \ {Last(c)}
  <2>1. ASSUME NEW x \in Range(Front(c))
        PROVE  x \in Range(c) \ {Last(c)}
    <3>1. PICK i \in 1 .. Len(c) - 1 : x = Front(c)[i]
      BY <1>7 DEF Range
    <3>2. x = c[i]
      BY <1>6, <3>1
    <3> QED
      BY <1>2, <1>3, <1>4, <1>5, <3>2 DEF Range, Last
  <2>2. ASSUME NEW x \in Range(c), x # Last(c)
        PROVE  x \in Range(Front(c))
    <3>1. PICK i \in 1 .. Len(c) : x = c[i]
      BY <1>2 DEF Range
    <3>2. i \in 1 .. Len(c) - 1
      BY <1>1, <2>2, <3>1 DEF Last
    <3> QED
      BY <1>6, <1>7, <3>1, <3>2 DEF Range
  <2> QED
    BY <2>1, <2>2
<1> QED
  BY <1>6, <1>8, <1>9, <1>10

\* What Append does to a list without repetitions: it adds a last entry.
LEMMA AppendFacts ==
  ASSUME NEW S, NEW c \in Seq(S), NEW e \in S, IsInjective(c), e \notin Range(c)
  PROVE  /\ Append(c, e) \in Seq(S)
         /\ Append(c, e) # << >>
         /\ Len(Append(c, e)) = Len(c) + 1
         /\ \A i \in 1 .. Len(c) : Append(c, e)[i] = c[i]
         /\ Last(Append(c, e)) = e
         /\ IsInjective(Append(c, e))
         /\ Range(Append(c, e)) = Range(c) \cup {e}
<1>1. /\ Len(c) \in Nat
      /\ DOMAIN c = 1 .. Len(c)
  BY LenProperties
<1>2. /\ Append(c, e) \in Seq(S)
      /\ Append(c, e) # << >>
      /\ Len(Append(c, e)) = Len(c) + 1
      /\ \A i \in 1 .. Len(c) : Append(c, e)[i] = c[i]
      /\ Append(c, e)[Len(c) + 1] = e
  BY AppendProperties
<1>3. DOMAIN Append(c, e) = 1 .. Len(c) + 1
  BY <1>2, LenProperties
<1>4. \A i \in 1 .. Len(c) : c[i] # e
  BY <1>1 DEF Range
<1>5. IsInjective(Append(c, e))
  BY <1>1, <1>2, <1>3, <1>4 DEF IsInjective
<1>6. Range(Append(c, e)) = Range(c) \cup {e}
  BY <1>1, <1>2, <1>3 DEF Range
<1> QED
  BY <1>2, <1>5, <1>6 DEF Last

-----------------------------------------------------------------------------
(***************************************************************************)
(* Linked lists.                                                           *)
(***************************************************************************)

\* A list stays linked when next changes only outside it.
LEMMA LinkedFrame ==
  ASSUME NEW c \in Seq(Entries), NEW tp, NEW nx, NEW nx2,
         Linked(c, tp, nx),
         \A e \in Range(c) : nx2[e] = nx[e]
  PROVE  Linked(c, tp, nx2)
BY LenProperties DEF Linked, Range

\* What a pop finds at the head of a list is what a pop leaves there.
LEMMA LinkedFront ==
  ASSUME NEW c \in Seq(Entries), NEW tp, NEW nx,
         Linked(c, tp, nx), tp # NULL
  PROVE  /\ c # << >>
         /\ tp = Last(c)
         /\ Linked(Front(c), nx[tp], nx)
<1>1. c # << >> /\ tp = Last(c) /\ IsInjective(c)
  BY DEF Linked
<1>2. Len(c) \in Nat /\ Len(c) > 0 /\ DOMAIN c = 1 .. Len(c)
  BY <1>1, EmptySeq, LenProperties
<1>3. /\ Front(c) \in Seq(Entries)
      /\ Len(Front(c)) = Len(c) - 1
      /\ \A i \in 1 .. Len(c) - 1 : Front(c)[i] = c[i]
      /\ IsInjective(Front(c))
  BY <1>1, FrontFacts
<1>4. DOMAIN Front(c) = 1 .. Len(c) - 1
  BY <1>3, LenProperties
<1>5. \A i \in 1 .. Len(c) : nx[c[i]] = IF i = 1 THEN NULL ELSE c[i - 1]
  BY <1>2 DEF Linked
<1>6. \A i \in 1 .. Len(c) - 1 : nx[Front(c)[i]] = IF i = 1 THEN NULL ELSE Front(c)[i - 1]
  <2>1. \A i \in 1 .. Len(c) - 1 :
          i \in 1 .. Len(c) /\ (i # 1 => i - 1 \in 1 .. Len(c) - 1)
    BY <1>2
  <2> QED
    BY <1>3, <1>5, <2>1
<1>7. nx[tp] = IF Front(c) = << >> THEN NULL ELSE Last(Front(c))
  <2>1. nx[c[Len(c)]] = IF Len(c) = 1 THEN NULL ELSE c[Len(c) - 1]
    BY <1>2, <1>5
  <2>2. CASE Len(c) = 1
    <3>1. Len(Front(c)) = 0
      BY <1>3, <2>2
    <3>2. Front(c) = << >>
      BY <1>3, <3>1, EmptySeq
    <3> QED
      BY <1>1, <2>1, <2>2, <3>2 DEF Last
  <2>3. CASE Len(c) # 1
    <3>1. Len(c) - 1 \in 1 .. Len(c) - 1 /\ Len(c) - 1 # 0
      BY <1>2, <2>3
    <3>2. Front(c) # << >>
      BY <1>3, <3>1, EmptySeq
    <3>3. Last(Front(c)) = c[Len(c) - 1]
      BY <1>3, <3>1 DEF Last
    <3> QED
      BY <1>1, <2>1, <2>3, <3>2, <3>3 DEF Last
  <2> QED
    BY <2>2, <2>3
<1> QED
  BY <1>1, <1>3, <1>4, <1>6, <1>7 DEF Linked

\* A push links its entry in front of the list.
LEMMA LinkedAppend ==
  ASSUME NEW c \in Seq(Entries), NEW e \in Entries, NEW nx,
         Linked(c, nx[e], nx), e \notin Range(c)
  PROVE  Linked(Append(c, e), e, nx)
<1>1. Len(c) \in Nat /\ DOMAIN c = 1 .. Len(c) /\ IsInjective(c)
  BY LenProperties DEF Linked
<1>2. /\ Append(c, e) \in Seq(Entries)
      /\ Append(c, e) # << >>
      /\ Len(Append(c, e)) = Len(c) + 1
      /\ \A i \in 1 .. Len(c) : Append(c, e)[i] = c[i]
      /\ Last(Append(c, e)) = e
      /\ IsInjective(Append(c, e))
  BY <1>1, AppendFacts
<1>3. DOMAIN Append(c, e) = 1 .. Len(c) + 1
  BY <1>2, LenProperties
<1>4. Append(c, e)[Len(c) + 1] = e
  BY <1>2 DEF Last
<1>5. ASSUME NEW i \in 1 .. Len(c) + 1
      PROVE  nx[Append(c, e)[i]] = IF i = 1 THEN NULL ELSE Append(c, e)[i - 1]
  <2>1. CASE i = Len(c) + 1
    <3>1. nx[e] = IF Len(c) = 0 THEN NULL ELSE c[Len(c)]
      BY <1>1, EmptySeq DEF Linked, Last
    <3>2. CASE Len(c) = 0
      BY <1>4, <2>1, <3>1, <3>2
    <3>3. CASE Len(c) # 0
      <4>1. i - 1 = Len(c) /\ Len(c) \in 1 .. Len(c) /\ i # 1
        BY <1>1, <2>1, <3>3
      <4> QED
        BY <1>2, <1>4, <2>1, <3>1, <3>3, <4>1
    <3> QED
      BY <3>2, <3>3
  <2>2. CASE i # Len(c) + 1
    <3>1. i \in 1 .. Len(c) /\ (i # 1 => i - 1 \in 1 .. Len(c))
      BY <1>1, <2>2
    <3>2. nx[c[i]] = IF i = 1 THEN NULL ELSE c[i - 1]
      BY <1>1, <3>1 DEF Linked
    <3> QED
      BY <1>2, <3>1, <3>2
  <2> QED
    BY <2>1, <2>2
<1> QED
  BY <1>2, <1>3, <1>5 DEF Linked

-----------------------------------------------------------------------------
(***************************************************************************)
(* The steps of the queue operations.                                      *)
(***************************************************************************)

\* The labels whose locals LocalsAgree constrains: a client's own steps do
\* not jump to them.
Busy == {"popNext", "popCas", "popDetach", "pushHead", "pushLink", "pushCas"}

\* A non-null head pointer is the address of the last entry pushed.
LEMMA HeadOnList ==
  ASSUME QueueTypeOK, ListsWellFormed, NEW l \in Lists, top[l] # NULL
  PROVE  /\ chain[l] \in Seq(Entries)
         /\ chain[l] # << >>
         /\ top[l] = Last(chain[l])
         /\ top[l] \in Range(chain[l])
         /\ top[l] \in Entries
<1>1. chain[l] \in Seq(Entries) /\ Linked(chain[l], top[l], next)
  BY DEF QueueTypeOK, ListsWellFormed
<1>2. chain[l] # << >> /\ top[l] = Last(chain[l]) /\ IsInjective(chain[l])
  BY <1>1 DEF Linked
<1>3. Last(chain[l]) \in Range(chain[l])
  BY <1>1, <1>2, FrontFacts
<1> QED
  BY <1>1, <1>2, <1>3 DEF QueueTypeOK, EntryOrNull

\* The entries of a list are entries.
LEMMA ChainEntries ==
  ASSUME QueueTypeOK, NEW l \in Lists
  PROVE  Range(chain[l]) \subseteq Entries
BY LenProperties DEF QueueTypeOK, Range

\* Reading the head of a list.
LEMMA PopHeadInv ==
  ASSUME QueueInv, NEW t \in Threads, NEW none \in Labels \ Busy,
         PopHead(t, none),
         list' \in [Threads -> Lists],
         \A u \in Threads : u # t \/ top[list[t]] # NULL => list'[u] = list[u]
  PROVE  QueueInv' /\ Placed' = Placed
<1>1. QueueTypeOK /\ ListsWellFormed /\ ExclusiveEntries /\ LocalsAgree
  BY DEF QueueInv
<1>2. /\ pc[t] = "popHead"
      /\ list[t] \in Lists
      /\ UNCHANGED <<top, next, qnext, qe, chain>>
      /\ pc' = [pc EXCEPT ![t] = IF top[list[t]] = NULL THEN none ELSE "popNext"]
      /\ qhead' = [qhead EXCEPT ![t] = top[list[t]]]
  BY <1>1 DEF PopHead, Goto, QueueTypeOK
<1>3. QueueTypeOK'
  BY <1>1, <1>2 DEF QueueTypeOK, Labels
<1>4. ListsWellFormed'
  BY <1>1, <1>2 DEF ListsWellFormed
<1>5. \A u \in Threads : Holding(u)' = Holding(u)
  BY <1>1, <1>2 DEF Holding, QueueTypeOK, Busy
<1>6. ExclusiveEntries'
  BY <1>1, <1>2, <1>5 DEF ExclusiveEntries
<1>7. LocalsAgree'
  <2> SUFFICES ASSUME NEW u \in Threads
               PROVE  /\ pc'[u] \in {"popNext", "popCas"}
                           => qhead'[u] \in Range(chain'[list'[u]])
                      /\ pc'[u] = "popCas" => qnext'[u] = next'[qhead'[u]]
                      /\ pc'[u] = "popDetach" => qhead'[u] \in Entries
                      /\ Popping(u)' \/ pc'[u] = "popDetach" => qe'[u] = NULL
                      /\ Pushing(u)' => qe'[u] \in Entries
                      /\ pc'[u] = "pushCas" => next'[qe'[u]] = qhead'[u]
    BY DEF LocalsAgree
  <2>1. CASE u # t
    <3>1. /\ pc'[u] = pc[u] /\ qhead'[u] = qhead[u] /\ list'[u] = list[u]
          /\ UNCHANGED <<next, qnext, qe, chain>>
      BY <1>1, <1>2, <2>1 DEF QueueTypeOK
    <3> QED
      BY <1>1, <3>1 DEF LocalsAgree, Popping, Pushing
  <2>2. CASE u = t /\ top[list[t]] = NULL
    <3>1. pc'[u] = none /\ qe'[u] = NULL
      BY <1>1, <1>2, <2>2 DEF QueueTypeOK, LocalsAgree, Popping
    <3> QED
      BY <3>1 DEF Busy, Popping, Pushing
  <2>3. CASE u = t /\ top[list[t]] # NULL
    <3>1. /\ pc'[u] = "popNext" /\ qe'[u] = NULL
          /\ qhead'[u] = top[list[t]] /\ list'[u] = list[t] /\ chain' = chain
      BY <1>1, <1>2, <2>3 DEF QueueTypeOK, LocalsAgree, Popping
    <3>2. top[list[t]] \in Range(chain[list[t]])
      BY <1>1, <1>2, <2>3, HeadOnList
    <3> QED
      BY <3>1, <3>2 DEF Pushing
  <2> QED
    BY <2>1, <2>2, <2>3
<1>8. Placed' = Placed
  BY <1>5, <1>2 DEF Placed, Listed, Held
<1> QED
  BY <1>8, <1>3, <1>4, <1>6, <1>7 DEF QueueInv

\* Reading qe_head->next: the entry is still on the list.
LEMMA PopNextInv ==
  ASSUME QueueInv, NEW t \in Threads, PopNext(t)
  PROVE  QueueInv' /\ Placed' = Placed
<1>1. QueueTypeOK /\ ListsWellFormed /\ ExclusiveEntries /\ LocalsAgree
  BY DEF QueueInv
<1>2. /\ pc[t] = "popNext"
      /\ list[t] \in Lists
      /\ UNCHANGED <<top, next, list, qhead, qe, chain>>
      /\ pc' = [pc EXCEPT ![t] = "popCas"]
      /\ qnext' = [qnext EXCEPT ![t] = next[qhead[t]]]
  BY <1>1 DEF PopNext, Goto, QueueTypeOK
<1>3. qhead[t] \in Range(chain[list[t]]) /\ qhead[t] \in Entries
  BY <1>1, <1>2, ChainEntries DEF LocalsAgree
<1>4. QueueTypeOK'
  BY <1>1, <1>2, <1>3 DEF QueueTypeOK, Labels
<1>5. ListsWellFormed'
  BY <1>1, <1>2 DEF ListsWellFormed
<1>6. \A u \in Threads : Holding(u)' = Holding(u)
  BY <1>1, <1>2 DEF Holding, QueueTypeOK
<1>7. ExclusiveEntries'
  BY <1>1, <1>2, <1>6 DEF ExclusiveEntries
<1>8. LocalsAgree'
  BY <1>1, <1>2, <1>3 DEF LocalsAgree, Popping, Pushing, QueueTypeOK
<1>9. Placed' = Placed
  BY <1>6, <1>2 DEF Placed, Listed, Held
<1> QED
  BY <1>9, <1>4, <1>5, <1>7, <1>8 DEF QueueInv

\* The compare-and-swap of a pop.  Without SoleGetter another thread could
\* pop qhead[t] and its successor and push qhead[t] back in the meantime.
LEMMA PopCasInv ==
  ASSUME QueueInv, SoleGetter, NEW t \in Threads, PopCas(t)
  PROVE  QueueInv' /\ Placed' = Placed
<1> DEFINE l == list[t]
<1>1. QueueTypeOK /\ ListsWellFormed /\ ExclusiveEntries /\ LocalsAgree
  BY DEF QueueInv
<1>2. /\ pc[t] = "popCas"
      /\ l \in Lists
      /\ UNCHANGED <<next, list, qhead, qnext, qe>>
  BY <1>1 DEF PopCas, QueueTypeOK
<1>3. /\ qhead[t] \in Range(chain[l]) /\ qhead[t] \in Entries
      /\ qnext[t] = next[qhead[t]]
      /\ qe[t] = NULL
  BY <1>1, <1>2, ChainEntries DEF LocalsAgree, Popping
<1>4. CASE top[l] # qhead[t]
  <2>1. UNCHANGED <<top, chain>> /\ pc' = [pc EXCEPT ![t] = "popHead"]
    BY <1>4 DEF PopCas, Goto
  <2>2. QueueTypeOK'
    BY <1>1, <1>2, <2>1 DEF QueueTypeOK, Labels
  <2>3. ListsWellFormed'
    BY <1>1, <1>2, <2>1 DEF ListsWellFormed
  <2>4. \A u \in Threads : Holding(u)' = Holding(u)
    BY <1>1, <1>2, <2>1 DEF Holding, QueueTypeOK
  <2>5. ExclusiveEntries'
    BY <1>1, <2>1, <2>4 DEF ExclusiveEntries
  <2>6. LocalsAgree'
    BY <1>1, <1>2, <1>3, <2>1 DEF LocalsAgree, Popping, Pushing, QueueTypeOK
  <2>7. Placed' = Placed
    BY <2>1, <2>4 DEF Placed, Listed, Held
  <2> QED
    BY <2>2, <2>3, <2>5, <2>6, <2>7 DEF QueueInv
<1>5. CASE top[l] = qhead[t]
  <2>1. /\ top'   = [top EXCEPT ![l] = qnext[t]]
        /\ chain' = [chain EXCEPT ![l] = Front(chain[l])]
        /\ pc' = [pc EXCEPT ![t] = "popDetach"]
    BY <1>5 DEF PopCas, Goto
  <2>2. qhead[t] # NULL
    BY <1>3, QueueAssumption
  <2>3. chain[l] \in Seq(Entries) /\ Linked(chain[l], top[l], next)
    BY <1>1, <1>2 DEF QueueTypeOK, ListsWellFormed
  <2>4. /\ chain[l] # << >>
        /\ qhead[t] = Last(chain[l])
        /\ Linked(Front(chain[l]), next[qhead[t]], next)
    BY <1>5, <2>2, <2>3, LinkedFront
  <2>5. /\ Front(chain[l]) \in Seq(Entries)
        /\ Range(Front(chain[l])) = Range(chain[l]) \ {qhead[t]}
    BY <2>3, <2>4, FrontFacts DEF Linked
  <2>6. QueueTypeOK'
    BY <1>1, <1>2, <2>1, <2>5 DEF QueueTypeOK, Labels
  <2>7. ListsWellFormed'
    <3> SUFFICES ASSUME NEW m \in Lists
                 PROVE  Linked(chain'[m], top'[m], next')
      BY DEF ListsWellFormed
    <3>1. CASE m = l
      BY <1>1, <1>2, <1>3, <2>1, <2>4, <3>1 DEF QueueTypeOK
    <3>2. CASE m # l
      BY <1>1, <1>2, <2>1, <3>2 DEF QueueTypeOK, ListsWellFormed
    <3> QED
      BY <3>1, <3>2
  <2>8. /\ Holding(t)' = qhead[t]
        /\ \A u \in Threads : u # t => Holding(u)' = Holding(u)
    BY <1>1, <1>2, <2>1 DEF Holding, QueueTypeOK
  <2>9. /\ Range(chain'[l]) = Range(chain[l]) \ {qhead[t]}
        /\ \A m \in Lists : m # l => chain'[m] = chain[m]
    BY <1>1, <1>2, <2>1, <2>5 DEF QueueTypeOK
  <2>10. ExclusiveEntries'
    <3>1. \A m, n \in Lists : m # n => Range(chain'[m]) \cap Range(chain'[n]) = {}
      BY <1>1, <1>2, <2>9 DEF ExclusiveEntries
    <3>2. \A u \in Threads, m \in Lists : Holding(u)' \notin Range(chain'[m])
      BY <1>1, <1>2, <1>3, <2>8, <2>9 DEF ExclusiveEntries
    <3>3. \A u, v \in Threads :
            u # v /\ Holding(u)' # NULL => Holding(u)' # Holding(v)'
      BY <1>1, <1>2, <1>3, <2>8 DEF ExclusiveEntries
    <3> QED
      BY <3>1, <3>2, <3>3 DEF ExclusiveEntries
  <2>11. LocalsAgree'
    <3> SUFFICES ASSUME NEW u \in Threads
                 PROVE  /\ pc'[u] \in {"popNext", "popCas"}
                             => qhead'[u] \in Range(chain'[list'[u]])
                        /\ pc'[u] = "popCas" => qnext'[u] = next'[qhead'[u]]
                        /\ pc'[u] = "popDetach" => qhead'[u] \in Entries
                        /\ Popping(u)' \/ pc'[u] = "popDetach" => qe'[u] = NULL
                        /\ Pushing(u)' => qe'[u] \in Entries
                        /\ pc'[u] = "pushCas" => next'[qe'[u]] = qhead'[u]
      BY DEF LocalsAgree
    <3>1. CASE u = t
      <4>1. pc'[u] = "popDetach"
        BY <1>1, <2>1, <3>1 DEF QueueTypeOK
      <4> QED
        BY <1>2, <1>3, <3>1, <4>1 DEF Pushing
    <3>2. CASE u # t
      <4>1. pc'[u] = pc[u] /\ list[u] \in Lists
        BY <1>1, <2>1, <3>2 DEF QueueTypeOK
      <4>2. pc[u] \in {"popNext", "popCas"} => chain'[list[u]] = chain[list[u]]
        BY <1>2, <2>9, <3>2, <4>1 DEF SoleGetter, Popping
      <4> QED
        BY <1>1, <1>2, <4>1, <4>2 DEF LocalsAgree, Popping, Pushing
    <3> QED
      BY <3>1, <3>2
  <2>12. Placed' = Placed
    <3>1. Held' = Held \cup {qhead[t]}
      <4>1. Holding(t) = NULL
        BY <1>2, <1>3 DEF Holding
      <4> QED
        BY <2>2, <2>8, <4>1 DEF Held
    <3>2. Listed' = Listed \ {qhead[t]}
      BY <1>1, <1>2, <1>3, <2>9 DEF ExclusiveEntries, Listed
    <3>3. qhead[t] \in Listed
      BY <1>2, <1>3 DEF Listed
    <3> QED
      BY <3>1, <3>2, <3>3 DEF Placed
  <2> QED
    BY <2>6, <2>7, <2>10, <2>11, <2>12 DEF QueueInv
<1> QED
  BY <1>4, <1>5

\* qe_head->next = NULL writes to the caller's own entry.
LEMMA PopDetachInv ==
  ASSUME QueueInv, NEW t \in Threads, NEW done \in Labels \ Busy,
         done # "popHead",
         PopDetach(t, done), list' = list
  PROVE  QueueInv' /\ Placed' = Placed
<1>1. QueueTypeOK /\ ListsWellFormed /\ ExclusiveEntries /\ LocalsAgree
  BY DEF QueueInv
<1>2. /\ pc[t] = "popDetach"
      /\ UNCHANGED <<top, list, chain>>
      /\ pc' = [pc EXCEPT ![t] = done]
      /\ next' = [next EXCEPT ![qhead[t]] = NULL]
      /\ qe' = [qe EXCEPT ![t] = qhead[t]]
      /\ qhead' = [qhead EXCEPT ![t] = NULL]
      /\ qnext' = [qnext EXCEPT ![t] = NULL]
  BY DEF PopDetach, Goto
<1>3. qhead[t] \in Entries /\ Holding(t) = qhead[t] /\ qhead[t] # NULL
  BY <1>1, <1>2, QueueAssumption DEF LocalsAgree, Holding
<1>4. QueueTypeOK'
  BY <1>1, <1>2, <1>3 DEF QueueTypeOK, Labels, EntryOrNull
<1>5. \A m \in Lists : \A e \in Range(chain[m]) : next'[e] = next[e]
  BY <1>1, <1>2, <1>3 DEF ExclusiveEntries, QueueTypeOK
<1>6. ListsWellFormed'
  <2> SUFFICES ASSUME NEW m \in Lists
               PROVE  Linked(chain'[m], top'[m], next')
    BY DEF ListsWellFormed
  <2>1. chain[m] \in Seq(Entries) /\ Linked(chain[m], top[m], next)
    BY <1>1 DEF QueueTypeOK, ListsWellFormed
  <2>2. Linked(chain[m], top[m], next')
    BY <1>5, <2>1, LinkedFrame
  <2> QED
    BY <1>2, <2>2
<1>7. \A u \in Threads : Holding(u)' = Holding(u)
  BY <1>1, <1>2, <1>3 DEF Holding, QueueTypeOK, Busy
<1>8. ExclusiveEntries'
  BY <1>1, <1>2, <1>7 DEF ExclusiveEntries
<1>9. LocalsAgree'
  <2> SUFFICES ASSUME NEW u \in Threads
               PROVE  /\ pc'[u] \in {"popNext", "popCas"}
                           => qhead'[u] \in Range(chain'[list'[u]])
                      /\ pc'[u] = "popCas" => qnext'[u] = next'[qhead'[u]]
                      /\ pc'[u] = "popDetach" => qhead'[u] \in Entries
                      /\ Popping(u)' \/ pc'[u] = "popDetach" => qe'[u] = NULL
                      /\ Pushing(u)' => qe'[u] \in Entries
                      /\ pc'[u] = "pushCas" => next'[qe'[u]] = qhead'[u]
    BY DEF LocalsAgree
  <2>1. CASE u = t
    <3>1. pc'[u] = done
      BY <1>1, <1>2, <2>1 DEF QueueTypeOK
    <3> QED
      BY <3>1 DEF Busy, Popping, Pushing
  <2>2. CASE u # t
    <3>1. /\ pc'[u] = pc[u] /\ qhead'[u] = qhead[u] /\ qnext'[u] = qnext[u]
          /\ qe'[u] = qe[u] /\ list[u] \in Lists
      BY <1>1, <1>2, <2>2 DEF QueueTypeOK
    <3>2. pc[u] = "popCas" => next'[qhead[u]] = next[qhead[u]]
      BY <1>1, <1>5, <3>1 DEF LocalsAgree
    <3>3. pc[u] = "pushCas" => next'[qe[u]] = next[qe[u]]
      <4>1. SUFFICES ASSUME pc[u] = "pushCas"
                     PROVE  next'[qe[u]] = next[qe[u]]
        OBVIOUS
      <4>2. qe[u] \in Entries /\ Holding(u) = qe[u]
        BY <1>1, <4>1 DEF LocalsAgree, Pushing, Holding
      <4>3. qe[u] # qhead[t]
        BY <1>1, <1>3, <2>2, <4>2 DEF ExclusiveEntries
      <4> QED
        BY <1>1, <1>2, <4>2, <4>3 DEF QueueTypeOK
    <3> QED
      BY <1>1, <1>2, <3>1, <3>2, <3>3 DEF LocalsAgree, Popping, Pushing
  <2> QED
    BY <2>1, <2>2
<1>10. Placed' = Placed
  BY <1>7, <1>2 DEF Placed, Listed, Held
<1> QED
  BY <1>10, <1>4, <1>6, <1>8, <1>9 DEF QueueInv

\* Reading the head of the list to push on.
LEMMA PushHeadInv ==
  ASSUME QueueInv, NEW t \in Threads, PushHead(t)
  PROVE  QueueInv' /\ Placed' = Placed
<1>1. QueueTypeOK /\ ListsWellFormed /\ ExclusiveEntries /\ LocalsAgree
  BY DEF QueueInv
<1>2. /\ pc[t] = "pushHead"
      /\ list[t] \in Lists
      /\ UNCHANGED <<top, next, list, qnext, qe, chain>>
      /\ pc' = [pc EXCEPT ![t] = "pushLink"]
      /\ qhead' = [qhead EXCEPT ![t] = top[list[t]]]
  BY <1>1 DEF PushHead, Goto, QueueTypeOK
<1>3. QueueTypeOK'
  BY <1>1, <1>2 DEF QueueTypeOK, Labels
<1>4. ListsWellFormed'
  BY <1>1, <1>2 DEF ListsWellFormed
<1>5. \A u \in Threads : Holding(u)' = Holding(u)
  BY <1>1, <1>2 DEF Holding, QueueTypeOK
<1>6. ExclusiveEntries'
  BY <1>1, <1>2, <1>5 DEF ExclusiveEntries
<1>7. LocalsAgree'
  BY <1>1, <1>2 DEF LocalsAgree, Popping, Pushing, QueueTypeOK
<1>8. Placed' = Placed
  BY <1>5, <1>2 DEF Placed, Listed, Held
<1> QED
  BY <1>8, <1>3, <1>4, <1>6, <1>7 DEF QueueInv

\* qe->next = qe_head writes to the caller's own entry.
LEMMA PushLinkInv ==
  ASSUME QueueInv, NEW t \in Threads, PushLink(t)
  PROVE  QueueInv' /\ Placed' = Placed
<1>1. QueueTypeOK /\ ListsWellFormed /\ ExclusiveEntries /\ LocalsAgree
  BY DEF QueueInv
<1>2. /\ pc[t] = "pushLink"
      /\ UNCHANGED <<top, list, qhead, qnext, qe, chain>>
      /\ pc' = [pc EXCEPT ![t] = "pushCas"]
      /\ next' = [next EXCEPT ![qe[t]] = qhead[t]]
  BY DEF PushLink, Goto
<1>3. qe[t] \in Entries /\ Holding(t) = qe[t] /\ qe[t] # NULL
  BY <1>1, <1>2, QueueAssumption DEF LocalsAgree, Pushing, Holding
<1>4. QueueTypeOK'
  BY <1>1, <1>2, <1>3 DEF QueueTypeOK, Labels
<1>5. \A m \in Lists : \A e \in Range(chain[m]) : next'[e] = next[e]
  BY <1>1, <1>2, <1>3 DEF ExclusiveEntries, QueueTypeOK
<1>6. ListsWellFormed'
  <2> SUFFICES ASSUME NEW m \in Lists
               PROVE  Linked(chain'[m], top'[m], next')
    BY DEF ListsWellFormed
  <2>1. chain[m] \in Seq(Entries) /\ Linked(chain[m], top[m], next)
    BY <1>1 DEF QueueTypeOK, ListsWellFormed
  <2>2. Linked(chain[m], top[m], next')
    BY <1>5, <2>1, LinkedFrame
  <2> QED
    BY <1>2, <2>2
<1>7. \A u \in Threads : Holding(u)' = Holding(u)
  BY <1>1, <1>2 DEF Holding, QueueTypeOK
<1>8. ExclusiveEntries'
  BY <1>1, <1>2, <1>7 DEF ExclusiveEntries
<1>9. LocalsAgree'
  <2> SUFFICES ASSUME NEW u \in Threads
               PROVE  /\ pc'[u] \in {"popNext", "popCas"}
                           => qhead'[u] \in Range(chain'[list'[u]])
                      /\ pc'[u] = "popCas" => qnext'[u] = next'[qhead'[u]]
                      /\ pc'[u] = "popDetach" => qhead'[u] \in Entries
                      /\ Popping(u)' \/ pc'[u] = "popDetach" => qe'[u] = NULL
                      /\ Pushing(u)' => qe'[u] \in Entries
                      /\ pc'[u] = "pushCas" => next'[qe'[u]] = qhead'[u]
    BY DEF LocalsAgree
  <2>1. CASE u = t
    <3>1. pc'[u] = "pushCas" /\ next'[qe[t]] = qhead[t]
      BY <1>1, <1>2, <1>3, <2>1 DEF QueueTypeOK
    <3> QED
      BY <1>2, <1>3, <2>1, <3>1 DEF Popping
  <2>2. CASE u # t
    <3>1. pc'[u] = pc[u] /\ list[u] \in Lists
      BY <1>1, <1>2, <2>2 DEF QueueTypeOK
    <3>2. pc[u] = "popCas" => next'[qhead[u]] = next[qhead[u]]
      BY <1>1, <1>5, <3>1 DEF LocalsAgree
    <3>3. pc[u] = "pushCas" => next'[qe[u]] = next[qe[u]]
      <4>1. SUFFICES ASSUME pc[u] = "pushCas"
                     PROVE  next'[qe[u]] = next[qe[u]]
        OBVIOUS
      <4>2. qe[u] \in Entries /\ Holding(u) = qe[u]
        BY <1>1, <4>1 DEF LocalsAgree, Pushing, Holding
      <4>3. qe[u] # qe[t]
        BY <1>1, <1>3, <2>2, <4>2 DEF ExclusiveEntries
      <4> QED
        BY <1>1, <1>2, <4>2, <4>3 DEF QueueTypeOK
    <3> QED
      BY <1>1, <1>2, <3>1, <3>2, <3>3 DEF LocalsAgree, Popping, Pushing
  <2> QED
    BY <2>1, <2>2
<1>10. Placed' = Placed
  BY <1>7, <1>2 DEF Placed, Listed, Held
<1> QED
  BY <1>10, <1>4, <1>6, <1>8, <1>9 DEF QueueInv

\* The compare-and-swap of a push needs no SoleGetter: whatever happened to
\* the list since qe_head was read, an equal head is a correct next pointer.
LEMMA PushCasInv ==
  ASSUME QueueInv, NEW t \in Threads, NEW done \in Labels \ Busy,
         PushCas(t, done)
  PROVE  QueueInv' /\ Placed' = Placed
<1> DEFINE l == list[t]
<1>1. QueueTypeOK /\ ListsWellFormed /\ ExclusiveEntries /\ LocalsAgree
  BY DEF QueueInv
<1>2. /\ pc[t] = "pushCas"
      /\ l \in Lists
      /\ UNCHANGED <<next, list, qnext>>
  BY <1>1 DEF PushCas, QueueTypeOK
<1>3. /\ qe[t] \in Entries /\ qe[t] # NULL /\ Holding(t) = qe[t]
      /\ next[qe[t]] = qhead[t]
  BY <1>1, <1>2, QueueAssumption DEF LocalsAgree, Pushing, Holding
<1>4. CASE top[l] # qhead[t]
  <2>1. UNCHANGED <<top, qhead, qe, chain>> /\ pc' = [pc EXCEPT ![t] = "pushHead"]
    BY <1>4 DEF PushCas, Goto
  <2>2. QueueTypeOK'
    BY <1>1, <1>2, <2>1 DEF QueueTypeOK, Labels
  <2>3. ListsWellFormed'
    BY <1>1, <1>2, <2>1 DEF ListsWellFormed
  <2>4. \A u \in Threads : Holding(u)' = Holding(u)
    BY <1>1, <1>2, <2>1 DEF Holding, QueueTypeOK
  <2>5. ExclusiveEntries'
    BY <1>1, <2>1, <2>4 DEF ExclusiveEntries
  <2>6. LocalsAgree'
    BY <1>1, <1>2, <1>3, <2>1 DEF LocalsAgree, Popping, Pushing, QueueTypeOK
  <2>7. Placed' = Placed
    BY <2>1, <2>4 DEF Placed, Listed, Held
  <2> QED
    BY <2>2, <2>3, <2>5, <2>6, <2>7 DEF QueueInv
<1>5. CASE top[l] = qhead[t]
  <2>1. /\ top'   = [top EXCEPT ![l] = qe[t]]
        /\ chain' = [chain EXCEPT ![l] = Append(chain[l], qe[t])]
        /\ qe'    = [qe EXCEPT ![t] = NULL]
        /\ qhead' = [qhead EXCEPT ![t] = NULL]
        /\ pc'    = [pc EXCEPT ![t] = done]
    BY <1>5 DEF PushCas, Goto
  <2>2. chain[l] \in Seq(Entries) /\ Linked(chain[l], top[l], next)
    BY <1>1, <1>2 DEF QueueTypeOK, ListsWellFormed
  <2>3. qe[t] \notin Range(chain[l])
    BY <1>1, <1>2, <1>3 DEF ExclusiveEntries
  <2>4. Linked(Append(chain[l], qe[t]), qe[t], next)
    BY <1>3, <1>5, <2>2, <2>3, LinkedAppend
  <2>5. /\ Append(chain[l], qe[t]) \in Seq(Entries)
        /\ Range(Append(chain[l], qe[t])) = Range(chain[l]) \cup {qe[t]}
    BY <1>3, <2>2, <2>3, AppendFacts DEF Linked
  <2>6. QueueTypeOK'
    BY <1>1, <1>2, <1>3, <2>1, <2>5 DEF QueueTypeOK, EntryOrNull
  <2>7. ListsWellFormed'
    <3> SUFFICES ASSUME NEW m \in Lists
                 PROVE  Linked(chain'[m], top'[m], next')
      BY DEF ListsWellFormed
    <3>1. CASE m = l
      BY <1>1, <1>2, <2>1, <2>4, <3>1 DEF QueueTypeOK
    <3>2. CASE m # l
      BY <1>1, <1>2, <2>1, <3>2 DEF QueueTypeOK, ListsWellFormed
    <3> QED
      BY <3>1, <3>2
  <2>8. /\ Holding(t)' = NULL
        /\ \A u \in Threads : u # t => Holding(u)' = Holding(u)
    BY <1>1, <1>2, <2>1 DEF Holding, QueueTypeOK, Busy
  <2>9. /\ Range(chain'[l]) = Range(chain[l]) \cup {qe[t]}
        /\ \A m \in Lists : m # l => chain'[m] = chain[m]
    BY <1>1, <1>2, <2>1, <2>5 DEF QueueTypeOK
  <2>10. ExclusiveEntries'
    <3>1. \A m, n \in Lists : m # n => Range(chain'[m]) \cap Range(chain'[n]) = {}
      BY <1>1, <1>2, <1>3, <2>9 DEF ExclusiveEntries
    <3>2. ASSUME NEW u \in Threads, NEW m \in Lists
          PROVE  Holding(u)' \notin Range(chain'[m])
      <4>1. Range(chain'[m]) \subseteq Entries
        BY <2>6, ChainEntries, LenProperties DEF QueueTypeOK, Range
      <4>2. CASE u = t
        BY <2>8, <4>1, <4>2, QueueAssumption
      <4>3. CASE u # t
        <5>1. Holding(u)' # qe[t] /\ Holding(u)' \notin Range(chain[m])
          BY <1>1, <1>3, <2>8, <4>3 DEF ExclusiveEntries
        <5> QED
          BY <2>9, <5>1
      <4> QED
        BY <4>2, <4>3
    <3>3. \A u, v \in Threads :
            u # v /\ Holding(u)' # NULL => Holding(u)' # Holding(v)'
      BY <1>1, <2>8 DEF ExclusiveEntries
    <3> QED
      BY <3>1, <3>2, <3>3 DEF ExclusiveEntries
  <2>11. LocalsAgree'
    <3> SUFFICES ASSUME NEW u \in Threads
                 PROVE  /\ pc'[u] \in {"popNext", "popCas"}
                             => qhead'[u] \in Range(chain'[list'[u]])
                        /\ pc'[u] = "popCas" => qnext'[u] = next'[qhead'[u]]
                        /\ pc'[u] = "popDetach" => qhead'[u] \in Entries
                        /\ Popping(u)' \/ pc'[u] = "popDetach" => qe'[u] = NULL
                        /\ Pushing(u)' => qe'[u] \in Entries
                        /\ pc'[u] = "pushCas" => next'[qe'[u]] = qhead'[u]
      BY DEF LocalsAgree
    <3>1. CASE u = t
      <4>1. pc'[u] = done /\ qe'[u] = NULL
        BY <1>1, <2>1, <3>1 DEF QueueTypeOK
      <4> QED
        BY <4>1 DEF Busy, Pushing
    <3>2. CASE u # t
      <4>1. /\ pc'[u] = pc[u] /\ qe'[u] = qe[u] /\ qhead'[u] = qhead[u]
            /\ list[u] \in Lists
        BY <1>1, <2>1, <3>2 DEF QueueTypeOK
      <4>2. Range(chain[list[u]]) \subseteq Range(chain'[list[u]])
        BY <2>9, <4>1
      <4> QED
        BY <1>1, <1>2, <4>1, <4>2 DEF LocalsAgree, Popping, Pushing
    <3> QED
      BY <3>1, <3>2
  <2>12. Placed' = Placed
    <3>1. Held' = Held \ {qe[t]}
      BY <1>1, <1>3, <2>8 DEF Held, ExclusiveEntries
    <3>2. Listed' = Listed \cup {qe[t]}
      BY <1>2, <2>9 DEF Listed
    <3>3. qe[t] \in Held
      BY <1>3 DEF Held
    <3> QED
      BY <3>1, <3>2, <3>3 DEF Placed
  <2> QED
    BY <2>6, <2>7, <2>10, <2>11, <2>12 DEF QueueInv
<1> QED
  BY <1>4, <1>5

\* A step of the client outside the queue operations: it starts a pop with
\* no entry in hand or a push with one, or forgets its entry.
LEMMA ClientStepInv ==
  ASSUME QueueInv, NEW t \in Threads,
         pc[t] # "popDetach",
         NEW label \in Labels \ (Busy \ {"pushHead"}), Goto(t, label),
         list' \in [Threads -> Lists],
         \A u \in Threads : u # t => list'[u] = list[u],
         qe' = qe \/ qe' = [qe EXCEPT ![t] = NULL],
         label = "popHead" => qe'[t] = NULL,
         label = "pushHead" => qe'[t] \in Entries,
         UNCHANGED <<top, next, qhead, qnext, chain>>
  PROVE  /\ QueueInv'
         /\ Placed' = Placed \ (IF qe' = qe THEN {} ELSE {qe[t]})
<1>1. QueueTypeOK /\ ListsWellFormed /\ ExclusiveEntries /\ LocalsAgree
  BY DEF QueueInv
<1>2. pc' = [pc EXCEPT ![t] = label] /\ pc'[t] = label
  BY <1>1 DEF Goto, QueueTypeOK
<1>3. QueueTypeOK'
  BY <1>1, <1>2 DEF QueueTypeOK, EntryOrNull
<1>4. ListsWellFormed'
  BY <1>1 DEF ListsWellFormed
<1>5. \A u \in Threads : u # t => Holding(u)' = Holding(u)
  BY <1>1, <1>2 DEF Holding, QueueTypeOK
<1>6. Holding(t)' \in {Holding(t), NULL}
  BY <1>1, <1>2 DEF Holding, QueueTypeOK, Busy
<1>7. \A m \in Lists : NULL \notin Range(chain[m])
  BY <1>1, ChainEntries, QueueAssumption
<1>8. ExclusiveEntries'
  BY <1>1, <1>5, <1>6, <1>7 DEF ExclusiveEntries
<1>9. LocalsAgree'
  <2> SUFFICES ASSUME NEW u \in Threads
               PROVE  /\ pc'[u] \in {"popNext", "popCas"}
                           => qhead'[u] \in Range(chain'[list'[u]])
                      /\ pc'[u] = "popCas" => qnext'[u] = next'[qhead'[u]]
                      /\ pc'[u] = "popDetach" => qhead'[u] \in Entries
                      /\ Popping(u)' \/ pc'[u] = "popDetach" => qe'[u] = NULL
                      /\ Pushing(u)' => qe'[u] \in Entries
                      /\ pc'[u] = "pushCas" => next'[qe'[u]] = qhead'[u]
    BY DEF LocalsAgree
  <2>1. CASE u = t
    BY <1>2, <2>1 DEF Busy, Popping, Pushing
  <2>2. CASE u # t
    <3>1. pc'[u] = pc[u] /\ qe'[u] = qe[u] /\ list'[u] = list[u]
      BY <1>1, <1>2, <2>2 DEF QueueTypeOK
    <3> QED
      BY <1>1, <3>1 DEF LocalsAgree, Popping, Pushing
  <2> QED
    BY <2>1, <2>2
<1>10. Placed' = Placed \ (IF qe' = qe THEN {} ELSE {qe[t]})
  <2>1. Holding(t) = qe[t] /\ Holding(t)' = qe'[t]
    BY <1>2 DEF Holding, Busy
  <2>2. CASE qe' = qe
    BY <1>5, <2>1, <2>2 DEF Placed, Listed, Held
  <2>3. CASE qe' # qe
    <3>1. Holding(t)' = NULL /\ Holding(t) # NULL
      BY <1>1, <2>1, <2>3 DEF QueueTypeOK
    <3>2. Held' = Held \ {qe[t]}
      BY <1>1, <1>5, <2>1, <3>1 DEF Held, ExclusiveEntries
    <3>3. \A m \in Lists : qe[t] \notin Range(chain[m])
      BY <1>1, <2>1 DEF ExclusiveEntries
    <3> QED
      BY <2>3, <3>2, <3>3 DEF Placed, Listed
  <2> QED
    BY <2>2, <2>3
<1> QED
  BY <1>3, <1>4, <1>8, <1>9, <1>10 DEF QueueInv

\* queue_init establishes the invariant.
LEMMA QueueInitInv ==
  ASSUME NEW start \in [Threads -> Labels], QueueInit(start),
         \A t \in Threads : start[t] \in {"idle", "wait", "run"},
         list \in [Threads -> Lists]
  PROVE  QueueInv /\ Placed = Entries
<1>1. QLen \in Nat /\ QLen > 0 /\ NULL \notin Entries
  BY QueueAssumption
<1>2. /\ top   = [l \in Lists |-> IF l[2] = "empty" THEN <<l[1], 0>> ELSE NULL]
      /\ next  = [e \in Entries |-> IF e[2] < QLen - 1 THEN <<e[1], e[2] + 1>> ELSE NULL]
      /\ chain = [l \in Lists |-> IF l[2] = "empty"
                                  THEN [i \in 1 .. QLen |-> <<l[1], QLen - i>>]
                                  ELSE << >>]
      /\ pc    = start
      /\ qhead = [t \in Threads |-> NULL]
      /\ qnext = [t \in Threads |-> NULL]
      /\ qe    = [t \in Threads |-> NULL]
  BY DEF QueueInit
<1>3. ASSUME NEW l \in Lists
      PROVE  /\ chain[l] \in Seq(Entries)
             /\ top[l] \in EntryOrNull
             /\ Linked(chain[l], top[l], next)
             /\ Range(chain[l]) = IF l[2] = "empty" THEN {l[1]} \X (0 .. QLen - 1) ELSE {}
  <2>1. CASE l[2] = "empty"
    <3> DEFINE c == [i \in 1 .. QLen |-> <<l[1], QLen - i>>]
    <3>1. chain[l] = c /\ top[l] = <<l[1], 0>> /\ l[1] \in Queues
      BY <1>2, <2>1 DEF Lists
    <3>2. \A i \in 1 .. QLen : QLen - i \in 0 .. QLen - 1
      BY <1>1
    <3>3. c \in [1 .. QLen -> Entries]
      BY <3>1, <3>2 DEF Entries
    <3>4. c \in Seq(Entries) /\ Len(c) = QLen /\ DOMAIN c = 1 .. QLen
      BY <1>1, <3>3
    <3>5. c # << >> /\ Last(c) = <<l[1], 0>>
      BY <1>1, <3>4 DEF Last
    <3>6. IsInjective(c)
      BY <1>1, <3>4 DEF IsInjective
    <3>7. ASSUME NEW i \in 1 .. QLen
          PROVE  next[c[i]] = IF i = 1 THEN NULL ELSE c[i - 1]
      <4>1. c[i] = <<l[1], QLen - i>> /\ c[i] \in Entries
        BY <3>3
      <4>2. next[c[i]] = IF QLen - i < QLen - 1 THEN <<l[1], QLen - i + 1>> ELSE NULL
        BY <1>2, <4>1
      <4>3. i # 1 => i - 1 \in 1 .. QLen /\ QLen - (i - 1) = QLen - i + 1 /\ QLen - i < QLen - 1
        BY <1>1
      <4>4. i = 1 => ~(QLen - i < QLen - 1)
        BY <1>1
      <4> QED
        BY <4>2, <4>3, <4>4
    <3>8. Range(c) = {l[1]} \X (0 .. QLen - 1)
      <4>1. \A n \in 0 .. QLen - 1 : QLen - n \in 1 .. QLen /\ QLen - (QLen - n) = n
        BY <1>1
      <4> QED
        BY <3>2, <3>4, <4>1 DEF Range
    <3>9. <<l[1], 0>> \in EntryOrNull
      BY <1>1, <3>1 DEF Entries, EntryOrNull
    <3> QED
      BY <2>1, <3>1, <3>4, <3>5, <3>6, <3>7, <3>8, <3>9 DEF Linked
  <2>2. CASE l[2] # "empty"
    <3>1. chain[l] = << >> /\ top[l] = NULL
      BY <1>2, <2>2
    <3>2. Range(chain[l]) = {} /\ IsInjective(chain[l]) /\ DOMAIN chain[l] = {}
      BY <3>1 DEF Range, IsInjective
    <3> QED
      BY <2>2, <3>1, <3>2 DEF Linked, EntryOrNull
  <2> QED
    BY <2>1, <2>2
<1>4. QueueTypeOK
  <2>1. top \in [Lists -> EntryOrNull] /\ chain \in [Lists -> Seq(Entries)]
    BY <1>2, <1>3
  <2>2. next \in [Entries -> EntryOrNull]
    BY <1>1, <1>2 DEF Entries, EntryOrNull
  <2> QED
    BY <1>2, <2>1, <2>2 DEF QueueTypeOK, EntryOrNull
<1>5. ListsWellFormed
  BY <1>3 DEF ListsWellFormed
<1>6. \A t \in Threads : Holding(t) = NULL
  BY <1>2 DEF Holding
<1>7. ExclusiveEntries
  <2>1. \A l, m \in Lists : l # m => Range(chain[l]) \cap Range(chain[m]) = {}
    <3> SUFFICES ASSUME NEW l \in Lists, NEW m \in Lists, NEW e,
                        e \in Range(chain[l]), e \in Range(chain[m])
                 PROVE  l = m
      OBVIOUS
    <3>1. /\ l[2] = "empty" /\ e \in {l[1]} \X (0 .. QLen - 1)
          /\ m[2] = "empty" /\ e \in {m[1]} \X (0 .. QLen - 1)
      BY <1>3
    <3>2. e[1] = l[1] /\ e[1] = m[1]
      BY <3>1
    <3>3. l = <<l[1], l[2]>> /\ m = <<m[1], m[2]>>
      BY DEF Lists
    <3> QED
      BY <3>1, <3>2, <3>3
  <2>2. \A l \in Lists : NULL \notin Range(chain[l])
    BY <1>1, <1>4, ChainEntries
  <2> QED
    BY <1>6, <2>1, <2>2 DEF ExclusiveEntries
<1>8. LocalsAgree
  BY <1>2 DEF LocalsAgree, Popping, Pushing
<1>9. Placed = Entries
  <2>1. Held = {}
    BY <1>6 DEF Held
  <2>2. \A q \in Queues : Range(chain[<<q, "empty">>]) = {q} \X (0 .. QLen - 1)
    BY <1>3 DEF Lists
  <2>3. \A q \in Queues : <<q, "empty">> \in Lists
    BY DEF Lists
  <2>4. Entries \subseteq Listed
    <3> SUFFICES ASSUME NEW e \in Entries
                 PROVE  e \in Listed
      OBVIOUS
    <3>1. e[1] \in Queues /\ e \in {e[1]} \X (0 .. QLen - 1)
      BY DEF Entries
    <3>2. e \in Range(chain[<<e[1], "empty">>])
      BY <2>2, <3>1
    <3> QED
      BY <2>3, <3>1, <3>2 DEF Listed
  <2>5. Listed \subseteq Entries
    BY <1>4, ChainEntries DEF Listed
  <2> QED
    BY <2>1, <2>4, <2>5 DEF Placed
<1> QED
  BY <1>4, <1>5, <1>7, <1>8, <1>9 DEF QueueInv

-----------------------------------------------------------------------------
(***************************************************************************)
(* Where the entries of a kind of list go.                                 *)
(***************************************************************************)

\* The entries of the lists of a kind, when one list of that kind changes.
LEMMA OnListChange ==
  ASSUME NEW l \in Lists, NEW kind \in {"empty", "full"},
         \A m \in Lists : m # l => chain'[m] = chain[m]
  PROVE  /\ kind # l[2] => OnList(kind)' = OnList(kind)
         /\ kind = l[2] =>
              \A e : e \notin Range(chain[l]) \cup Range(chain'[l]) =>
                       (e \in OnList(kind)' <=> e \in OnList(kind))
<1>1. \A q \in Queues : <<q, kind>> \in Lists
  BY DEF Lists
<1>2. CASE kind # l[2]
  <2>1. \A q \in Queues : chain'[<<q, kind>>] = chain[<<q, kind>>]
    BY <1>1, <1>2
  <2>2. UNION {Range(chain'[<<q, kind>>]) : q \in Queues}
          = UNION {Range(chain[<<q, kind>>]) : q \in Queues}
    BY <2>1
  <2> QED
    BY <1>2, <2>2 DEF OnList
<1>3. CASE kind = l[2]
  <2>1. ASSUME NEW e, e \notin Range(chain[l]), e \notin Range(chain'[l])
        PROVE  \A q \in Queues : e \in Range(chain'[<<q, kind>>]) <=> e \in Range(chain[<<q, kind>>])
    BY <1>1, <2>1
  <2> QED
    BY <1>3, <2>1 DEF OnList
<1> QED
  BY <1>2, <1>3

\* A successful compare-and-swap of a pop takes one entry off its list, and so
\* off the lists of that kind.
LEMMA PopCasTakes ==
  ASSUME QueueInv, NEW t \in Threads, PopCas(t), top[list[t]] = qhead[t],
         NEW kind \in {"empty", "full"}
  PROVE  /\ qhead[t] \in Entries
         /\ Holding(t) = NULL /\ Holding(t)' = qhead[t]
         /\ pc'[t] = "popDetach"
         /\ list[t][2] # kind => OnList(kind)' = OnList(kind)
         /\ list[t][2] = kind => /\ qhead[t] \in OnList(kind)
                                 /\ OnList(kind)' = OnList(kind) \ {qhead[t]}
<1> DEFINE l == list[t]
           e == qhead[t]
<1>1. QueueTypeOK /\ ListsWellFormed /\ ExclusiveEntries /\ LocalsAgree
  BY DEF QueueInv
<1>2. /\ pc[t] = "popCas" /\ l \in Lists
      /\ UNCHANGED <<qhead, qe, list>>
      /\ chain' = [chain EXCEPT ![l] = Front(chain[l])]
      /\ pc' = [pc EXCEPT ![t] = "popDetach"]
  BY <1>1 DEF PopCas, QueueTypeOK, Goto
<1>3. e \in Range(chain[l]) /\ e \in Entries /\ e # NULL /\ qe[t] = NULL
  BY <1>1, <1>2, ChainEntries, QueueAssumption DEF LocalsAgree, Popping
<1>4. /\ chain[l] \in Seq(Entries) /\ chain[l] # << >>
      /\ e = Last(chain[l]) /\ IsInjective(chain[l])
  BY <1>1, <1>2, <1>3, HeadOnList DEF ListsWellFormed, Linked
<1>5. /\ Range(chain'[l]) = Range(chain[l]) \ {e}
      /\ \A m \in Lists : m # l => chain'[m] = chain[m]
  BY <1>1, <1>2, <1>4, FrontFacts DEF QueueTypeOK
<1>6. Holding(t) = NULL /\ Holding(t)' = e /\ pc'[t] = "popDetach"
  BY <1>1, <1>2, <1>3 DEF Holding, QueueTypeOK
<1>7. ASSUME l[2] = kind
      PROVE  e \in OnList(kind) /\ OnList(kind)' = OnList(kind) \ {e}
  <2>1. PICK q \in Queues : l = <<q, kind>>
    BY <1>2, <1>7 DEF Lists
  <2>2. e \in OnList(kind)
    BY <1>3, <2>1 DEF OnList
  <2>3. e \notin OnList(kind)'
    <3>1. \A r \in Queues : <<r, kind>> \in Lists
      BY DEF Lists
    <3>2. \A r \in Queues : r # q => e \notin Range(chain[<<r, kind>>])
      BY <1>1, <1>2, <1>3, <2>1, <3>1 DEF ExclusiveEntries
    <3>3. \A r \in Queues : e \notin Range(chain'[<<r, kind>>])
      BY <1>5, <2>1, <3>1, <3>2
    <3> QED
      BY <3>3 DEF OnList
  <2>4. ASSUME NEW x, x # e
        PROVE  x \in OnList(kind)' <=> x \in OnList(kind)
    <3>1. CASE x \in Range(chain[l])
      <4>1. x \in Range(chain'[l])
        BY <1>5, <2>4, <3>1
      <4> QED
        BY <2>1, <3>1, <4>1 DEF OnList
    <3>2. CASE x \notin Range(chain[l])
      BY <1>2, <1>5, <1>7, <3>2, OnListChange
    <3> QED
      BY <3>1, <3>2
  <2> QED
    BY <2>2, <2>3, <2>4
<1>8. l[2] # kind => OnList(kind)' = OnList(kind)
  BY <1>2, <1>5, OnListChange
<1> QED
  BY <1>3, <1>6, <1>7, <1>8

\* A successful compare-and-swap of a push puts the entry in hand on its list,
\* and so on the lists of that kind.
LEMMA PushCasGives ==
  ASSUME QueueInv, NEW t \in Threads, NEW done \in Labels \ Busy,
         PushCas(t, done), top[list[t]] = qhead[t],
         NEW kind \in {"empty", "full"}
  PROVE  /\ qe[t] \in Entries
         /\ Holding(t) = qe[t] /\ Holding(t)' = NULL
         /\ pc'[t] = done
         /\ list[t][2] # kind => OnList(kind)' = OnList(kind)
         /\ list[t][2] = kind => /\ qe[t] \notin OnList(kind)
                                 /\ OnList(kind)' = OnList(kind) \cup {qe[t]}
<1> DEFINE l == list[t]
           e == qe[t]
<1>1. QueueTypeOK /\ ListsWellFormed /\ ExclusiveEntries /\ LocalsAgree
  BY DEF QueueInv
<1>2. /\ pc[t] = "pushCas" /\ l \in Lists
      /\ UNCHANGED list
      /\ chain' = [chain EXCEPT ![l] = Append(chain[l], e)]
      /\ qe' = [qe EXCEPT ![t] = NULL]
      /\ pc' = [pc EXCEPT ![t] = done]
  BY <1>1 DEF PushCas, QueueTypeOK, Goto
<1>3. e \in Entries /\ e # NULL /\ Holding(t) = e
  BY <1>1, <1>2, QueueAssumption DEF LocalsAgree, Pushing, Holding
<1>4. /\ chain[l] \in Seq(Entries) /\ IsInjective(chain[l])
      /\ e \notin Range(chain[l])
  BY <1>1, <1>2, <1>3 DEF QueueTypeOK, ListsWellFormed, Linked, ExclusiveEntries
<1>5. /\ Range(chain'[l]) = Range(chain[l]) \cup {e}
      /\ \A m \in Lists : m # l => chain'[m] = chain[m]
  BY <1>1, <1>2, <1>3, <1>4, AppendFacts DEF QueueTypeOK
<1>6. Holding(t)' = NULL /\ pc'[t] = done
  BY <1>1, <1>2 DEF Holding, QueueTypeOK, Busy
<1>7. ASSUME l[2] = kind
      PROVE  e \notin OnList(kind) /\ OnList(kind)' = OnList(kind) \cup {e}
  <2>1. PICK q \in Queues : l = <<q, kind>>
    BY <1>2, <1>7 DEF Lists
  <2>2. e \notin OnList(kind)
    <3>1. \A r \in Queues : e \notin Range(chain[<<r, kind>>])
      BY <1>1, <1>3 DEF ExclusiveEntries, Lists
    <3> QED
      BY <3>1 DEF OnList
  <2>3. e \in OnList(kind)'
    BY <1>5, <2>1 DEF OnList
  <2>4. ASSUME NEW x, x # e
        PROVE  x \in OnList(kind)' <=> x \in OnList(kind)
    <3>1. CASE x \in Range(chain[l])
      <4>1. x \in Range(chain'[l])
        BY <1>5, <3>1
      <4> QED
        BY <2>1, <3>1, <4>1 DEF OnList
    <3>2. CASE x \notin Range(chain[l])
      BY <1>2, <1>5, <1>7, <2>4, <3>2, OnListChange
    <3> QED
      BY <3>1, <3>2
  <2> QED
    BY <2>2, <2>3, <2>4
<1>8. l[2] # kind => OnList(kind)' = OnList(kind)
  BY <1>2, <1>5, OnListChange
<1> QED
  BY <1>3, <1>6, <1>7, <1>8

\* A step that leaves the histories alone leaves the lists of every kind alone.
LEMMA OnListFrame ==
  ASSUME chain' = chain, NEW kind
  PROVE  OnList(kind)' = OnList(kind)
BY DEF OnList

\* The steps that move no entry: all but a successful compare-and-swap.
LEMMA QuietStep ==
  ASSUME QueueTypeOK, NEW t \in Threads, NEW done \in Labels \ Busy,
         \/ PopHead(t, done)
         \/ PopNext(t)
         \/ PopCas(t) /\ top[list[t]] # qhead[t]
         \/ PopDetach(t, done)
         \/ PushHead(t)
         \/ PushLink(t)
         \/ PushCas(t, done) /\ top[list[t]] # qhead[t]
  PROVE  chain' = chain /\ \A u \in Threads : Holding(u)' = Holding(u)
<1>1. CASE PopHead(t, done)
  BY <1>1 DEF PopHead, Goto, QueueTypeOK, Holding, Busy
<1>2. CASE PopNext(t)
  BY <1>2 DEF PopNext, Goto, QueueTypeOK, Holding
<1>3. CASE PopCas(t) /\ top[list[t]] # qhead[t]
  BY <1>3 DEF PopCas, Goto, QueueTypeOK, Holding
<1>4. CASE PopDetach(t, done)
  BY <1>4 DEF PopDetach, Goto, QueueTypeOK, Holding, Busy
<1>5. CASE PushHead(t)
  BY <1>5 DEF PushHead, Goto, QueueTypeOK, Holding
<1>6. CASE PushLink(t)
  BY <1>6 DEF PushLink, Goto, QueueTypeOK, Holding
<1>7. CASE PushCas(t, done) /\ top[list[t]] # qhead[t]
  BY <1>7 DEF PushCas, Goto, QueueTypeOK, Holding
<1> QED
  BY <1>1, <1>2, <1>3, <1>4, <1>5, <1>6, <1>7

\* The entries on the lists of a kind are entries, finitely many.
LEMMA OnListFinite ==
  ASSUME QueueTypeOK, IsFiniteSet(Entries), NEW kind \in {"empty", "full"}
  PROVE  OnList(kind) \subseteq Entries /\ IsFiniteSet(OnList(kind))
<1>1. \A q \in Queues : <<q, kind>> \in Lists
  BY DEF Lists
<1>2. OnList(kind) \subseteq Entries
  BY <1>1, ChainEntries DEF OnList
<1> QED
  BY <1>2, FS_Subset

\* No entry is on a list of a kind when all lists of that kind are empty.
LEMMA NothingListed ==
  ASSUME NEW kind, \A q \in Queues : chain[<<q, kind>>] = << >>
  PROVE  OnList(kind) = {}
<1>1. Range(<< >>) = {}
  BY DEF Range
<1>2. \A q \in Queues : Range(chain[<<q, kind>>]) = {}
  BY <1>1
<1> QED
  BY <1>2 DEF OnList
-----------------------------------------------------------------------------
(***************************************************************************)
(* Owners.  What the steps of a call do to the owners of the entries, for  *)
(* the refinements of EntryPool.                                           *)
(***************************************************************************)

Places == {"empty", "full", "lost"}

\* What Owner says of an entry
OwnerIs ==
  /\ Owner \in [Entries -> Threads \cup Places]
  /\ \A e \in Entries :
       /\ Owner[e] = "empty" <=> e \in OnList("empty")
       /\ Owner[e] = "full"  <=> e \in OnList("full")
       /\ Owner[e] = "lost"  <=> e \notin Placed
       /\ \A t \in Threads : Owner[e] = t <=> Holding(t) = e

\* In the states of the invariant an entry is in one place, and Owner names it.
LEMMA OwnerFacts == QueueInv => OwnerIs
<1> SUFFICES ASSUME QueueInv
             PROVE  OwnerIs
  OBVIOUS
<1>1. ExclusiveEntries
  BY DEF QueueInv
<1>2. Threads \cap Places = {} /\ NULL \notin Entries
  BY QueueAssumption DEF Places
<1>3. ASSUME NEW e \in Entries
      PROVE  /\ Owner[e] \in Threads \cup Places
             /\ Owner[e] = "empty" <=> e \in OnList("empty")
             /\ Owner[e] = "full"  <=> e \in OnList("full")
             /\ Owner[e] = "lost"  <=> e \notin Placed
             /\ \A t \in Threads : Owner[e] = t <=> Holding(t) = e
  <2>1. Owner[e] = IF e \in OnList("empty") THEN "empty"
                   ELSE IF e \in OnList("full") THEN "full"
                   ELSE IF e \in Held THEN CHOOSE t \in Threads : Holding(t) = e
                   ELSE "lost"
    BY DEF Owner
  <2>2. Listed = OnList("empty") \cup OnList("full")
    <3>1. \A l \in Lists : \E q \in Queues : l = <<q, "empty">> \/ l = <<q, "full">>
      BY DEF Lists
    <3>2. \A q \in Queues : <<q, "empty">> \in Lists /\ <<q, "full">> \in Lists
      BY DEF Lists
    <3>3. Listed \subseteq OnList("empty") \cup OnList("full")
      BY <3>1 DEF Listed, OnList
    <3>4. OnList("empty") \cup OnList("full") \subseteq Listed
      BY <3>2 DEF Listed, OnList
    <3> QED
      BY <3>3, <3>4
  <2>3. ~(e \in OnList("empty") /\ e \in OnList("full"))
    <3> SUFFICES ASSUME NEW q \in Queues, NEW r \in Queues,
                        e \in Range(chain[<<q, "empty">>]),
                        e \in Range(chain[<<r, "full">>])
                 PROVE  FALSE
      BY DEF OnList
    <3>1. <<q, "empty">> \in Lists /\ <<r, "full">> \in Lists /\ <<q, "empty">> # <<r, "full">>
      BY DEF Lists
    <3> QED
      BY <1>1, <3>1 DEF ExclusiveEntries
  <2>4. \A t \in Threads : Holding(t) = e => e \notin Listed /\ e \in Held
    BY <1>1, <1>2 DEF ExclusiveEntries, Listed, Held
  <2>5. CASE e \in Listed
    BY <1>2, <2>1, <2>2, <2>3, <2>4, <2>5 DEF Places, Placed
  <2>6. CASE e \notin Placed
    BY <1>2, <2>1, <2>2, <2>4, <2>6 DEF Places, Placed
  <2>7. CASE e \notin Listed /\ e \in Held
    <3>1. PICK t \in Threads : Holding(t) = e
      BY <2>7 DEF Held
    <3>2. \A u \in Threads : Holding(u) = e => u = t
      BY <1>1, <1>2, <3>1 DEF ExclusiveEntries
    <3>3. Owner[e] = CHOOSE u \in Threads : Holding(u) = e
      BY <2>1, <2>2, <2>7
    <3>4. Owner[e] = t
      BY <3>1, <3>2, <3>3
    <3>5. t \notin Places /\ e \in Placed
      BY <1>2, <2>7 DEF Placed
    <3> QED
      BY <2>2, <2>7, <3>1, <3>2, <3>4, <3>5 DEF Places
  <2> QED
    BY <2>5, <2>6, <2>7 DEF Placed
<1>4. Owner \in [Entries -> Threads \cup Places]
  <2>1. Owner = [e \in Entries |-> Owner[e]]
    BY DEF Owner
  <2> QED
    BY <1>3, <2>1
<1> QED
  BY <1>3, <1>4 DEF OwnerIs

\* An entry that stays where it is keeps its owner.
LEMMA OwnerKeeps ==
  ASSUME OwnerIs, OwnerIs', NEW e \in Entries,
         e \in OnList("empty")' <=> e \in OnList("empty"),
         e \in OnList("full")' <=> e \in OnList("full"),
         \A t \in Threads : Holding(t)' = e <=> Holding(t) = e
  PROVE  Owner'[e] = Owner[e]
<1>1. Owner[e] \in Threads \cup Places /\ Owner'[e] \in Threads \cup Places
  BY DEF OwnerIs
<1>2. CASE Owner[e] \in Threads
  BY <1>2 DEF OwnerIs
<1>3. CASE Owner'[e] \in Threads
  BY <1>3 DEF OwnerIs
<1>4. CASE Owner[e] \in Places /\ Owner'[e] \in Places
  BY <1>4 DEF OwnerIs, Places
<1> QED
  BY <1>1, <1>2, <1>3, <1>4

\* A step that leaves every entry where it is leaves the owners alone.
LEMMA OwnersStay ==
  ASSUME OwnerIs, OwnerIs', chain' = chain,
         \A t \in Threads : Holding(t)' = Holding(t)
  PROVE  Owner' = Owner
<1>1. \A e \in Entries : Owner'[e] = Owner[e]
  BY OwnerKeeps, OnListFrame
<1> QED
  BY <1>1 DEF OwnerIs

\* A step that moves one entry, which one thread gets or gives up
LEMMA OwnersMove ==
  ASSUME OwnerIs, OwnerIs', NEW e \in Entries, NEW to \in Threads \cup Places,
         NEW t \in Threads, Holding(t) \in {e, NULL}, Holding(t)' \in {e, NULL},
         \A u \in Threads : u # t => Holding(u)' = Holding(u),
         \A x \in Entries : x # e =>
           /\ x \in OnList("empty")' <=> x \in OnList("empty")
           /\ x \in OnList("full")' <=> x \in OnList("full"),
         Owner'[e] = to
  PROVE  Owner' = [Owner EXCEPT ![e] = to]
<1>1. \A x \in Entries : x # e => Owner'[x] = Owner[x]
  BY OwnerKeeps, QueueAssumption
<1> QED
  BY <1>1 DEF OwnerIs

\* A successful compare-and-swap of a pop: the entry goes from its list to the
\* thread, which has no other.
LEMMA PopMoves ==
  ASSUME QueueInv, OwnerIs, OwnerIs', NEW t \in Threads, PopCas(t), top[list[t]] = qhead[t],
         NEW kind \in {"empty", "full"}, list[t][2] = kind
  PROVE  /\ qhead[t] \in Entries /\ Owner[qhead[t]] = kind
         /\ Owner' = [Owner EXCEPT ![qhead[t]] = t]
         /\ \A e \in Entries : Owner[e] # t
<1> DEFINE e == qhead[t]
<1>1. \A u \in Threads : u # t => Holding(u)' = Holding(u)
  BY DEF PopCas, Goto, Holding, QueueTypeOK, QueueInv
<1>2. /\ e \in Entries /\ Holding(t) = NULL /\ Holding(t)' = e
      /\ e \in OnList(kind) /\ OnList(kind)' = OnList(kind) \ {e}
      /\ \A other \in {"empty", "full"} : other # kind => OnList(other)' = OnList(other)
  BY PopCasTakes
<1>3. Owner[e] = kind /\ Owner'[e] = t
  BY <1>2 DEF OwnerIs
<1>4. \A x \in Entries : Owner[x] # t
  BY <1>2, QueueAssumption DEF OwnerIs
<1>5. \A x \in Entries : x # e =>
        /\ x \in OnList("empty")' <=> x \in OnList("empty")
        /\ x \in OnList("full")' <=> x \in OnList("full")
  BY <1>2
<1> QED
  BY <1>1, <1>2, <1>3, <1>4, <1>5, OwnersMove

\* A successful compare-and-swap of a push: the entry goes from the thread to
\* the list.
LEMMA PushMoves ==
  ASSUME QueueInv, OwnerIs, OwnerIs', NEW t \in Threads, NEW done \in Labels \ Busy,
         PushCas(t, done), top[list[t]] = qhead[t],
         NEW kind \in {"empty", "full"}, list[t][2] = kind
  PROVE  /\ qe[t] \in Entries /\ Owner[qe[t]] = t
         /\ Owner' = [Owner EXCEPT ![qe[t]] = kind]
<1> DEFINE e == qe[t]
<1>1. \A u \in Threads : u # t => Holding(u)' = Holding(u)
  BY DEF PushCas, Goto, Holding, QueueTypeOK, QueueInv
<1>2. /\ e \in Entries /\ Holding(t) = e /\ Holding(t)' = NULL
      /\ OnList(kind)' = OnList(kind) \cup {e}
      /\ \A other \in {"empty", "full"} : other # kind => OnList(other)' = OnList(other)
  BY PushCasGives
<1>3. Owner[e] = t /\ Owner'[e] = kind
  BY <1>2 DEF OwnerIs
<1>4. \A x \in Entries : x # e =>
        /\ x \in OnList("empty")' <=> x \in OnList("empty")
        /\ x \in OnList("full")' <=> x \in OnList("full")
  BY <1>2
<1> QED
  BY <1>1, <1>2, <1>3, <1>4, OwnersMove DEF Places

\* At the start every entry is empty.
LEMMA OwnersInit ==
  ASSUME QueueInv, Placed = Entries, NEW start \in [Threads -> Labels], QueueInit(start),
         \A t \in Threads : start[t] # "popDetach"
  PROVE  Owner = [e \in Entries |-> "empty"]
<1>1. OwnerIs
  BY OwnerFacts
<1>2. \A q \in Queues : chain[<<q, "full">>] = << >>
  BY DEF QueueInit, Lists
<1>3. OnList("full") = {}
  BY <1>2, NothingListed
<1>4. \A t \in Threads : Holding(t) = NULL
  BY DEF QueueInit, Holding
<1>5. \A e \in Entries : Owner[e] = "empty"
  BY <1>1, <1>3, <1>4, QueueAssumption DEF OwnerIs, Places
<1> QED
  BY <1>1, <1>5 DEF OwnerIs
-----------------------------------------------------------------------------
(***************************************************************************)
(* Types.  They hold whatever the links in memory have become: the steps   *)
(* of a call use a pointer to an entry only where it has one.              *)
(***************************************************************************)

\* What a call knows of its own locals
CallOK(t) ==
  /\ pc[t] \in {"popNext", "popCas", "popDetach"} => qhead[t] \in Entries
  /\ Popping(t) \/ pc[t] = "popDetach" => qe[t] = NULL
  /\ Pushing(t) => qe[t] \in Entries

Typed == QueueTypeOK /\ \A t \in Threads : CallOK(t)

\* A step of one thread leaves the calls of the others alone.
LEMMA CallsFrame ==
  ASSUME Typed, NEW t \in Threads, QueueTypeOK', CallOK(t)',
         \A u \in Threads : u # t => /\ pc'[u] = pc[u] /\ qe'[u] = qe[u]
                                     /\ qhead'[u] = qhead[u]
  PROVE  Typed'
<1>1. ASSUME NEW u \in Threads, u # t
      PROVE  CallOK(u)'
  BY <1>1 DEF Typed, CallOK, Popping, Pushing
<1> QED
  BY <1>1 DEF Typed

\* What is left of a history is a history, even where nothing was left to take.
LEMMA FrontType ==
  ASSUME NEW S, NEW c \in Seq(S)
  PROVE  Front(c) \in Seq(S)
<1>1. Len(c) \in Nat /\ \A i \in 1 .. Len(c) : c[i] \in S
  BY LenProperties, ElementOfSeq
<1>2. CASE c = << >>
  <2>1. Front(c) = << >>
    BY <1>2 DEF Front
  <2> QED
    BY <2>1
<1>3. CASE c # << >>
  <2>1. 1 \in 1 .. Len(c) + 1 /\ Len(c) - 1 \in 1 - 1 .. Len(c)
    BY <1>1, <1>3, EmptySeq
  <2> QED
    BY <2>1, SubSeqProperties DEF Front
<1> QED
  BY <1>2, <1>3

\* The steps of a get
LEMMA PopTyped ==
  ASSUME Typed, NEW t \in Threads, NEW done \in Labels \ Busy, done # "popHead",
         \/ PopHead(t, done) /\ UNCHANGED list
         \/ PopNext(t)
         \/ PopCas(t)
         \/ PopDetach(t, done) /\ UNCHANGED list
  PROVE  Typed'
<1>1. QueueTypeOK /\ CallOK(t)
  BY DEF Typed
<1>2. CASE PopHead(t, done) /\ UNCHANGED list
  <2>1. /\ list[t] \in Lists /\ top[list[t]] \in EntryOrNull
        /\ pc' = [pc EXCEPT ![t] = IF top[list[t]] = NULL THEN done ELSE "popNext"]
        /\ qhead' = [qhead EXCEPT ![t] = top[list[t]]]
        /\ pc[t] = "popHead" /\ UNCHANGED <<top, next, list, qnext, qe, chain>>
    BY <1>1, <1>2 DEF PopHead, Goto, QueueTypeOK
  <2>2. QueueTypeOK'
    BY <1>1, <2>1 DEF QueueTypeOK, Labels
  <2>3. CallOK(t)'
    BY <1>1, <2>1 DEF QueueTypeOK, CallOK, Popping, Pushing, Busy, EntryOrNull
  <2> QED
    BY <1>1, <2>1, <2>2, <2>3, CallsFrame DEF QueueTypeOK
<1>3. CASE PopNext(t)
  <2>1. /\ qhead[t] \in Entries /\ next[qhead[t]] \in EntryOrNull
        /\ pc' = [pc EXCEPT ![t] = "popCas"]
        /\ qnext' = [qnext EXCEPT ![t] = next[qhead[t]]]
        /\ pc[t] = "popNext" /\ UNCHANGED <<top, next, list, qhead, qe, chain>>
    BY <1>1, <1>3 DEF PopNext, Goto, QueueTypeOK, CallOK
  <2>2. QueueTypeOK'
    BY <1>1, <2>1 DEF QueueTypeOK, Labels
  <2>3. CallOK(t)'
    BY <1>1, <2>1 DEF QueueTypeOK, CallOK, Popping, Pushing
  <2> QED
    BY <1>1, <2>1, <2>2, <2>3, CallsFrame DEF QueueTypeOK
<1>4. CASE PopCas(t) /\ top[list[t]] = qhead[t]
  <2>1. /\ list[t] \in Lists /\ qnext[t] \in EntryOrNull
        /\ pc' = [pc EXCEPT ![t] = "popDetach"]
        /\ top' = [top EXCEPT ![list[t]] = qnext[t]]
        /\ chain' = [chain EXCEPT ![list[t]] = Front(@)]
        /\ pc[t] = "popCas" /\ UNCHANGED <<next, list, qhead, qnext, qe>>
    BY <1>1, <1>4 DEF PopCas, Goto, QueueTypeOK
  <2>2. Front(chain[list[t]]) \in Seq(Entries)
    BY <1>1, <2>1, FrontType DEF QueueTypeOK
  <2>3. QueueTypeOK'
    BY <1>1, <2>1, <2>2 DEF QueueTypeOK, Labels
  <2>4. CallOK(t)'
    BY <1>1, <2>1 DEF QueueTypeOK, CallOK, Popping, Pushing
  <2> QED
    BY <1>1, <2>1, <2>3, <2>4, CallsFrame DEF QueueTypeOK
<1>5. CASE PopCas(t) /\ top[list[t]] # qhead[t]
  <2>1. /\ pc' = [pc EXCEPT ![t] = "popHead"] /\ pc[t] = "popCas"
        /\ UNCHANGED <<top, next, list, qhead, qnext, qe, chain>>
    BY <1>1, <1>5 DEF PopCas, Goto
  <2>2. QueueTypeOK'
    BY <1>1, <2>1 DEF QueueTypeOK, Labels
  <2>3. CallOK(t)'
    BY <1>1, <2>1 DEF QueueTypeOK, CallOK, Popping, Pushing
  <2> QED
    BY <1>1, <2>1, <2>2, <2>3, CallsFrame DEF QueueTypeOK
<1>6. CASE PopDetach(t, done) /\ UNCHANGED list
  <2>1. /\ qhead[t] \in Entries
        /\ pc' = [pc EXCEPT ![t] = done]
        /\ next' = [next EXCEPT ![qhead[t]] = NULL]
        /\ qe' = [qe EXCEPT ![t] = qhead[t]]
        /\ qhead' = [qhead EXCEPT ![t] = NULL]
        /\ qnext' = [qnext EXCEPT ![t] = NULL]
        /\ UNCHANGED <<top, list, chain>>
    BY <1>1, <1>6 DEF PopDetach, Goto, CallOK
  <2>2. QueueTypeOK'
    BY <1>1, <2>1 DEF QueueTypeOK, EntryOrNull
  <2>3. CallOK(t)'
    BY <1>1, <2>1 DEF QueueTypeOK, CallOK, Popping, Pushing, Busy
  <2> QED
    BY <1>1, <2>1, <2>2, <2>3, CallsFrame DEF QueueTypeOK
<1> QED
  BY <1>2, <1>3, <1>4, <1>5, <1>6

\* The steps of a put
LEMMA PushTyped ==
  ASSUME Typed, NEW t \in Threads, NEW done \in Labels \ Busy, done # "popHead",
         PushHead(t) \/ PushLink(t) \/ PushCas(t, done)
  PROVE  Typed'
<1>1. QueueTypeOK /\ CallOK(t)
  BY DEF Typed
<1>2. CASE PushHead(t)
  <2>1. /\ list[t] \in Lists /\ top[list[t]] \in EntryOrNull
        /\ pc' = [pc EXCEPT ![t] = "pushLink"]
        /\ qhead' = [qhead EXCEPT ![t] = top[list[t]]]
        /\ pc[t] = "pushHead" /\ UNCHANGED <<top, next, list, qnext, qe, chain>>
    BY <1>1, <1>2 DEF PushHead, Goto, QueueTypeOK
  <2>2. QueueTypeOK'
    BY <1>1, <2>1 DEF QueueTypeOK, Labels
  <2>3. CallOK(t)'
    BY <1>1, <2>1 DEF QueueTypeOK, CallOK, Popping, Pushing
  <2> QED
    BY <1>1, <2>1, <2>2, <2>3, CallsFrame DEF QueueTypeOK
<1>3. CASE PushLink(t)
  <2>1. /\ qe[t] \in Entries /\ qhead[t] \in EntryOrNull
        /\ pc' = [pc EXCEPT ![t] = "pushCas"]
        /\ next' = [next EXCEPT ![qe[t]] = qhead[t]]
        /\ pc[t] = "pushLink" /\ UNCHANGED <<top, list, qhead, qnext, qe, chain>>
    BY <1>1, <1>3 DEF PushLink, Goto, QueueTypeOK, CallOK, Pushing
  <2>2. QueueTypeOK'
    BY <1>1, <2>1 DEF QueueTypeOK, Labels
  <2>3. CallOK(t)'
    BY <1>1, <2>1 DEF QueueTypeOK, CallOK, Popping, Pushing
  <2> QED
    BY <1>1, <2>1, <2>2, <2>3, CallsFrame DEF QueueTypeOK
<1>4. CASE PushCas(t, done) /\ top[list[t]] = qhead[t]
  <2>1. /\ list[t] \in Lists /\ qe[t] \in Entries /\ chain[list[t]] \in Seq(Entries)
        /\ pc' = [pc EXCEPT ![t] = done]
        /\ top' = [top EXCEPT ![list[t]] = qe[t]]
        /\ chain' = [chain EXCEPT ![list[t]] = Append(@, qe[t])]
        /\ qe' = [qe EXCEPT ![t] = NULL]
        /\ qhead' = [qhead EXCEPT ![t] = NULL]
        /\ pc[t] = "pushCas" /\ UNCHANGED <<next, list, qnext>>
    BY <1>1, <1>4 DEF PushCas, Goto, QueueTypeOK, CallOK, Pushing
  <2>2. Append(chain[list[t]], qe[t]) \in Seq(Entries)
    BY <1>1, <2>1, AppendProperties DEF QueueTypeOK
  <2>3. QueueTypeOK'
    BY <1>1, <2>1, <2>2 DEF QueueTypeOK, EntryOrNull
  <2>4. CallOK(t)'
    BY <1>1, <2>1 DEF QueueTypeOK, CallOK, Popping, Pushing, Busy
  <2> QED
    BY <1>1, <2>1, <2>3, <2>4, CallsFrame DEF QueueTypeOK
<1>5. CASE PushCas(t, done) /\ top[list[t]] # qhead[t]
  <2>1. /\ pc' = [pc EXCEPT ![t] = "pushHead"] /\ pc[t] = "pushCas"
        /\ UNCHANGED <<top, next, list, qhead, qnext, qe, chain>>
    BY <1>1, <1>5 DEF PushCas, Goto
  <2>2. QueueTypeOK'
    BY <1>1, <2>1 DEF QueueTypeOK, Labels
  <2>3. CallOK(t)'
    BY <1>1, <2>1 DEF QueueTypeOK, CallOK, Popping, Pushing
  <2> QED
    BY <1>1, <2>1, <2>2, <2>3, CallsFrame DEF QueueTypeOK
<1> QED
  BY <1>2, <1>3, <1>4, <1>5

\* A step of the client: it starts a get with no entry in hand or a put with one.
LEMMA ClientTyped ==
  ASSUME Typed, NEW t \in Threads,
         NEW label \in Labels \ (Busy \ {"pushHead"}), Goto(t, label),
         list' \in [Threads -> Lists], next' \in [Entries -> EntryOrNull],
         UNCHANGED <<top, qhead, qnext, qe, chain>>,
         label = "popHead" => qe[t] = NULL,
         label = "pushHead" => qe[t] \in Entries
  PROVE  Typed'
<1>1. QueueTypeOK /\ pc' = [pc EXCEPT ![t] = label]
  BY DEF Typed, Goto
<1>2. QueueTypeOK'
  BY <1>1 DEF QueueTypeOK
<1>3. CallOK(t)'
  BY <1>1 DEF QueueTypeOK, CallOK, Popping, Pushing, Busy
<1> QED
  BY <1>1, <1>2, <1>3, CallsFrame DEF QueueTypeOK
=============================================================================
