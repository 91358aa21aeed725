--------------------------- MODULE ShutdownProofs ---------------------------
(***************************************************************************)
(* Theorems about Shutdown, for any number of inputs, workers, outputs,    *)
(* messages and signals.  The two properties of cleanup are not inductive; *)
(* the invariant Inv says                                                  *)
(*   - that the hash tables are lists in the order of insertion, whoever   *)
(*     takes objects out of them (TablesInOrder);                          *)
(*   - that only what is out of its table is freed, and a worker's queues  *)
(*     before it by the cleanup that has the worker at hand (FreedLast);   *)
(*   - that one cleanup alone has only objects at hand that are where they *)
(*     should be (Undisturbed);                                            *)
(*   - that of several, each has emptied all it has been through, or will  *)
(*     use something freed or unlinked before it gets to its end           *)
(*     (Progress);                                                         *)
(*   - that semaphores are removed before objects (SemaphoresFirst).       *)
(* The last part is about the way up: ComingUp says what main has started  *)
(* when nothing has been taken down yet, and that every step until then is *)
(* one of Startup's.                                                       *)
(***************************************************************************)
EXTENDS Shutdown, StartupProofs, FiniteSetTheorems, TLAPS

Points == {"no", "over", "destroy", "queues", "unlink", "free"}

\* Where something can be in cleanup
Spots  == [at : Points, obj : Threads \cup {None}, nxt : Threads \cup {None}]

\* There is an object at hand.
Busy(c) == c.at \in {"destroy", "queues", "unlink", "free"}

HeapTypes ==
  /\ head   \in [Kinds -> Threads \cup {None}]
  /\ succ   \in [Threads -> Threads \cup {None}]
  /\ linked \subseteq Threads
  /\ freed  \subseteq Blocks
  /\ cl     \in [Runners -> Spots]
  /\ \A x \in Runners : Busy(cl[x]) => cl[x].obj \in Threads
  /\ \A x \in Runners : cl[x].at = "queues" => cl[x].obj \in Workers
  /\ overlap \in BOOLEAN /\ misused \in BOOLEAN

Labels == {"new", "semget", "setval", "barrier", "loop", "signal", "take", "produce",
           "eexit", "exit"}

\* A thread is in cleanup only in an EEXIT or in exit.
Callers == \A t \in Threads : cl[t] # Idle => pc[t] \in {"eexit", "exit"}

ThreadTypes ==
  /\ pc     \in [Threads -> Labels]
  /\ semid  \in [Receivers -> Ids]
  /\ sems   \subseteq Receivers
  /\ tgt    \in [Inputs -> Workers \cup {None}]
  /\ exits  \subseteq Threads
  /\ unready \subseteq Receivers
  /\ signals \in 0 .. MaxSignals
  /\ mi \in [at : {"begin", "workers", "outputs", "inputs"},
             obj : Threads \cup {None}, nxt : Threads \cup {None}]
  /\ aborted \in BOOLEAN /\ held \in BOOLEAN /\ foreign \in BOOLEAN /\ exited \in BOOLEAN
  /\ Callers

\* p is behind o in their table.
Behind(p, o) == KindOf(p) = KindOf(o) /\ Place(p) > Place(o)

\* q is the first object in table k, or None if the table is empty.
HeadIs(k, q) ==
  IF q = None THEN \A p \in linked : KindOf(p) # k
  ELSE /\ q \in linked /\ KindOf(q) = k
       /\ \A p \in linked : ~Behind(q, p)

\* q is the next object behind o in its table, or None if there is none.
NextIs(o, q) ==
  IF q = None THEN \A p \in linked : ~Behind(p, o)
  ELSE /\ q \in linked /\ Behind(q, o)
       /\ \A p \in linked : Behind(p, o) => ~Behind(q, p)

TablesInOrder ==
  /\ \A k \in Kinds : HeadIs(k, head[k])
  /\ \A o \in linked : NextIs(o, succ[o])

FreedLast ==
  /\ linked \cap freed = {}
  /\ \A x \in Runners : cl[x].at = "free" => cl[x].obj \notin linked
  /\ \A w \in linked \cap Workers :
       Queues(w) \in freed => \E x \in Runners : cl[x].at = "unlink" /\ cl[x].obj = w

\* What is at hand is in its table, or about to be freed for the first time.
Steady(c) ==
  Busy(c) => /\ IF c.at = "free" THEN c.obj \notin freed ELSE c.obj \in linked
             /\ c.nxt # None => c.nxt \in linked /\ c.nxt # c.obj

Undisturbed ==
  ~overlap => /\ ~misused
              /\ \A x, y \in Runners : cl[x] # Idle /\ cl[y] # Idle => x = y
              /\ \A x \in Runners : Steady(cl[x])

\* Another cleanup has taken an object out of its table that is at hand here.
Doomed(c) ==
  \/ c.at # "free" /\ c.obj \notin linked
  \/ c.nxt # None /\ c.nxt \notin linked

\* Nothing is left in the tables before the object at hand.
BeenThrough(c) ==
  /\ \A p \in linked : Rank(KindOf(p)) >= Rank(KindOf(c.obj)) /\ ~Behind(c.obj, p)
  /\ NextIs(c.obj, c.nxt)

Thorough(c) ==
  /\ Busy(c) /\ ~Doomed(c) => BeenThrough(c)
  /\ c.at = "over" => linked = {}

Progress == ~misused => \A x \in Runners : Thorough(cl[x])

\* x has removed the semaphore of r, which is still in its table.
Removed(r) == \E x \in Runners : cl[x].at \in {"queues", "unlink"} /\ cl[x].obj = r

\* A receiver makes its semaphore once.
MadeOnce == \A r \in Receivers : semid[r] = r => pc[r] \notin {"new", "semget"}

SemaphoresFirst ==
  /\ MadeOnce
  /\ unready = {} => /\ ~foreign
                     /\ \A r \in Receivers :
                          r \notin linked \/ Removed(r) => semid[r] = r /\ r \notin sems

\* The process ends in an exit when its cleanup is done.
ExitedClean == exited /\ ~aborted /\ Cardinality(exits) <= 1 => linked = {}

\* What the steps of cleanup keep
HeapInv == HeapTypes /\ TablesInOrder /\ FreedLast /\ Undisturbed /\ Progress

Inv == HeapInv /\ ThreadTypes /\ SemaphoresFirst /\ ExitedClean

-----------------------------------------------------------------------------
(***************************************************************************)
(* The order of a table.                                                   *)
(***************************************************************************)

\* Every object has a place of its own in its table.
LEMMA Places ==
  ASSUME NEW o \in Threads
  PROVE  /\ KindOf(o) \in Kinds
         /\ Place(o) \in 1 .. Len(Order[KindOf(o)])
         /\ Order[KindOf(o)][Place(o)] = o
<1> DEFINE s == Order[KindOf(o)]
<1>1. KindOf(o) \in Kinds
  BY DEF KindOf, Kinds
<1>2. s \in Seq(Threads)
  BY <1>1, ShutdownAssumption
<1>3. DOMAIN s = 1 .. Len(s)
  BY <1>2
<1>4. o \in {s[n] : n \in DOMAIN s}
  BY <1>1, ShutdownAssumption
<1>5. \E n \in DOMAIN s : s[n] = o
  BY <1>4
<1>6. Place(o) \in DOMAIN s /\ s[Place(o)] = o
  BY <1>5 DEF Place
<1> QED
  BY <1>1, <1>3, <1>6

\* What is at a position of a table has its place there.
LEMMA PlaceIsPosition ==
  ASSUME NEW k \in Kinds, NEW n \in 1 .. Len(Order[k])
  PROVE  Order[k][n] \in Threads /\ KindOf(Order[k][n]) = k /\ Place(Order[k][n]) = n
<1>1. Order[k] \in Seq(Threads)
  BY ShutdownAssumption
<1>2. DOMAIN Order[k] = 1 .. Len(Order[k]) /\ Order[k][n] \in Threads
  BY <1>1
<1>3. Order[k][n] \in {Order[k][m] : m \in DOMAIN Order[k]}
  BY <1>2
<1>4. KindOf(Order[k][n]) = k
  BY <1>3, ShutdownAssumption
<1>5. Place(Order[k][n]) \in DOMAIN Order[k] /\ Order[k][Place(Order[k][n])] = Order[k][n]
  BY <1>2, <1>4, Places
<1>6. Place(Order[k][n]) = n
  BY <1>2, <1>5, ShutdownAssumption
<1> QED
  BY <1>2, <1>4, <1>6

\* Behind orders the objects of each table.
LEMMA BehindOrders ==
  /\ \A a \in Threads : ~Behind(a, a)
  /\ \A a, b \in Threads : Behind(a, b) => ~Behind(b, a) /\ KindOf(a) = KindOf(b)
  /\ \A a, b, c \in Threads : Behind(a, b) /\ Behind(b, c) => Behind(a, c)
  /\ \A a, b \in Threads :
       KindOf(a) = KindOf(b) /\ a # b => Behind(a, b) \/ Behind(b, a)
<1>1. \A o \in Threads : Place(o) \in Int
  <2> SUFFICES ASSUME NEW o \in Threads PROVE Place(o) \in Int
    OBVIOUS
  <2>1. Len(Order[KindOf(o)]) \in Nat
    BY Places, ShutdownAssumption
  <2> QED
    BY <2>1, Places
<1>2. \A a, b \in Threads : KindOf(a) = KindOf(b) /\ Place(a) = Place(b) => a = b
  BY Places
<1> QED
  BY <1>1, <1>2 DEF Behind

\* The tables are as main has built them.
LEMMA InitTables == ShutdownInit => TablesInOrder
<1> SUFFICES ASSUME ShutdownInit PROVE TablesInOrder
  OBVIOUS
<1>0. None \notin Threads /\ linked = Threads
  BY ShutdownAssumption DEF ShutdownInit
<1>1. ASSUME NEW k \in Kinds PROVE HeadIs(k, head[k])
  <2>1. head[k] = IF Order[k] = << >> THEN None ELSE Order[k][1]
    BY DEF ShutdownInit
  <2>2. Order[k] \in Seq(Threads) /\ Len(Order[k]) \in Nat
    BY ShutdownAssumption
  <2>3. CASE Order[k] = << >>
    <3>1. ASSUME NEW p \in Threads, KindOf(p) = k PROVE FALSE
      <4>1. Place(p) \in 1 .. Len(Order[k])
        BY <3>1, Places
      <4> QED
        BY <2>3, <4>1
    <3> QED
      BY <1>0, <2>1, <2>3, <3>1 DEF HeadIs
  <2>4. CASE Order[k] # << >>
    <3>1. 1 \in 1 .. Len(Order[k])
      BY <2>2, <2>4
    <3>2. head[k] \in Threads /\ KindOf(head[k]) = k /\ Place(head[k]) = 1
      BY <2>1, <2>4, <3>1, PlaceIsPosition
    <3>3. ASSUME NEW p \in Threads PROVE ~Behind(head[k], p)
      <4>1. Place(p) >= 1
        BY <3>3, Places, ShutdownAssumption
      <4> QED
        BY <3>2, <4>1, BehindOrders, Places DEF Behind
    <3> QED
      BY <1>0, <3>2, <3>3 DEF HeadIs
  <2> QED
    BY <2>3, <2>4
<1>2. ASSUME NEW o \in Threads PROVE NextIs(o, succ[o])
  <2> DEFINE k == KindOf(o)
  <2>1. succ[o] = IF Place(o) < Len(Order[k]) THEN Order[k][Place(o) + 1] ELSE None
    BY <1>2 DEF ShutdownInit
  <2>2. k \in Kinds /\ Place(o) \in 1 .. Len(Order[k])
    BY Places
  <2>3. Len(Order[k]) \in Nat
    BY <2>2, ShutdownAssumption
  <2>4. \A p \in Threads : KindOf(p) = k => Place(p) \in 1 .. Len(Order[k])
    BY Places
  <2>5. CASE Place(o) < Len(Order[k])
    <3>1. Place(o) + 1 \in 1 .. Len(Order[k])
      BY <2>2, <2>3, <2>5
    <3>2. /\ succ[o] \in Threads /\ KindOf(succ[o]) = k
          /\ Place(succ[o]) = Place(o) + 1
      BY <2>1, <2>2, <2>5, <3>1, PlaceIsPosition
    <3>3. \A p \in Threads : Behind(p, o) => ~Behind(succ[o], p)
      BY <2>2, <2>3, <2>4, <3>2 DEF Behind
    <3>4. Behind(succ[o], o)
      BY <2>2, <2>3, <3>2 DEF Behind
    <3> QED
      BY <1>0, <3>2, <3>3, <3>4 DEF NextIs
  <2>6. CASE ~(Place(o) < Len(Order[k]))
    <3>1. \A p \in Threads : ~Behind(p, o)
      BY <2>2, <2>3, <2>4, <2>6 DEF Behind
    <3> QED
      BY <1>0, <2>1, <2>6, <3>1 DEF NextIs
  <2> QED
    BY <2>5, <2>6
<1> QED
  BY <1>0, <1>1, <1>2 DEF TablesInOrder

\* HASH_DEL leaves the tables in order, even when the object is not the first
\* of its table or not in it at all.
LEMMA UnlinkKeepsTables ==
  ASSUME TablesInOrder, linked \subseteq Threads,
         head \in [Kinds -> Threads \cup {None}], succ \in [Threads -> Threads \cup {None}],
         NEW o \in Threads,
         linked' = linked \ {o},
         head' = [head EXCEPT ![KindOf(o)] = IF @ = o THEN succ[o] ELSE @],
         succ' = [p \in Threads |->
                   IF succ[p] = o /\ {o, p} \subseteq linked THEN succ[o] ELSE succ[p]]
  PROVE  TablesInOrder'
<1>0. None \notin Threads /\ o # None /\ KindOf(o) \in Kinds
  BY ShutdownAssumption, Places
<1>1. CASE o \notin linked
  <2>1. linked' = linked /\ succ' = succ
    BY <1>1
  <2>2. head[KindOf(o)] # o
    BY <1>0, <1>1 DEF TablesInOrder, HeadIs
  <2>3. head' = head
    BY <2>2
  <2> QED
    BY <2>1, <2>3 DEF TablesInOrder, HeadIs, NextIs
<1>2. CASE o \in linked
  <2>1. NextIs(o, succ[o]) /\ HeadIs(KindOf(o), head[KindOf(o)])
    BY <1>0, <1>2 DEF TablesInOrder
  <2>2. ASSUME NEW k \in Kinds PROVE HeadIs(k, head[k])'
    <3>1. HeadIs(k, head[k])
      BY DEF TablesInOrder
    <3>2. CASE head[k] # o
      <4>1. head'[k] = head[k]
        BY <3>2
      <4> QED
        BY <3>1, <3>2, <4>1 DEF HeadIs
    <3>3. CASE head[k] = o
      <4>1. k = KindOf(o)
        BY <1>0, <3>1, <3>3 DEF HeadIs
      <4>2. head'[k] = succ[o]
        BY <3>3, <4>1
      <4>3. \A p \in linked' : KindOf(p) = k => Behind(p, o)
        BY <1>0, <3>1, <3>3, <4>1, BehindOrders DEF HeadIs
      <4>4. CASE succ[o] = None
        BY <2>1, <4>2, <4>3, <4>4 DEF NextIs, HeadIs
      <4>5. CASE succ[o] # None
        <5>1. /\ succ[o] \in linked /\ Behind(succ[o], o)
              /\ \A p \in linked : Behind(p, o) => ~Behind(succ[o], p)
          BY <2>1, <4>5 DEF NextIs
        <5>2. succ[o] \in linked' /\ KindOf(succ[o]) = k
          BY <4>1, <5>1, BehindOrders
        <5>3. \A p \in linked' : ~Behind(succ[o], p)
          BY <4>3, <5>1, <5>2, BehindOrders
        <5> QED
          BY <4>2, <4>5, <5>2, <5>3 DEF HeadIs
      <4> QED
        BY <4>4, <4>5
    <3> QED
      BY <3>2, <3>3
  <2>3. ASSUME NEW p \in linked' PROVE NextIs(p, succ[p])'
    <3>1. p \in linked /\ p # o /\ p \in Threads /\ NextIs(p, succ[p])
      BY DEF TablesInOrder
    <3>2. CASE succ[p] # o
      <4>1. succ'[p] = succ[p]
        BY <3>1, <3>2
      <4> QED
        BY <3>1, <3>2, <4>1 DEF NextIs
    <3>3. CASE succ[p] = o
      <4>1. succ'[p] = succ[o]
        BY <1>2, <3>1, <3>3
      <4>2. Behind(o, p) /\ \A r \in linked : Behind(r, p) => ~Behind(o, r)
        BY <1>0, <3>1, <3>3 DEF NextIs
      <4>3. \A r \in linked' : Behind(r, p) => Behind(r, o)
        BY <3>1, <4>2, BehindOrders
      <4>4. CASE succ[o] = None
        <5>1. \A r \in linked' : ~Behind(r, p)
          BY <2>1, <4>3, <4>4 DEF NextIs
        <5> QED
          BY <4>1, <4>4, <5>1 DEF NextIs
      <4>5. CASE succ[o] # None
        <5>1. /\ succ[o] \in linked /\ Behind(succ[o], o)
              /\ \A r \in linked : Behind(r, o) => ~Behind(succ[o], r)
          BY <2>1, <4>5 DEF NextIs
        <5>2. succ[o] \in linked' /\ Behind(succ[o], p)
          BY <3>1, <4>2, <5>1, BehindOrders
        <5>3. \A r \in linked' : Behind(r, p) => ~Behind(succ[o], r)
          BY <4>3, <5>1
        <5> QED
          BY <4>1, <4>5, <5>2, <5>3 DEF NextIs
      <4> QED
        BY <4>4, <4>5
    <3> QED
      BY <3>2, <3>3
  <2> QED
    BY <2>2, <2>3 DEF TablesInOrder
<1> QED
  BY <1>1, <1>2

-----------------------------------------------------------------------------
(***************************************************************************)
(* Where a cleanup is.                                                     *)
(***************************************************************************)

\* The object c has at hand is in its table, and so is the next one.
InPlace(c) ==
  /\ c.obj \in linked
  /\ c.nxt # None => c.nxt \in linked /\ c.nxt # c.obj
  /\ NextIs(c.obj, c.nxt)

\* HASH_ITER comes to an object that is in its table.
LEMMA AtIsInPlace ==
  ASSUME HeapTypes, TablesInOrder, NEW o \in linked
  PROVE  At(o) \in Spots /\ At(o).at = "destroy" /\ At(o).obj = o /\ InPlace(At(o))
<1>1. /\ o \in Threads /\ o # None /\ succ[o] \in Threads \cup {None}
      /\ linked \subseteq Threads
  BY ShutdownAssumption DEF HeapTypes
<1>2. At(o) = [at |-> "destroy", obj |-> o, nxt |-> succ[o]]
  BY <1>1 DEF At
<1>3. NextIs(o, succ[o])
  BY DEF TablesInOrder
<1>4. succ[o] # None => succ[o] \in linked /\ succ[o] # o
  BY <1>1, <1>3, BehindOrders DEF NextIs
<1> QED
  BY <1>1, <1>2, <1>3, <1>4 DEF InPlace, Spots, Points

\* The next table that is not empty, or the end
LEMMA FirstOfTables ==
  ASSUME HeapTypes, TablesInOrder, NEW ks \in SUBSET Kinds
  PROVE  \/ FirstOf(ks) = Over /\ \A p \in linked : KindOf(p) \notin ks
         \/ /\ FirstOf(ks) \in Spots /\ FirstOf(ks).at = "destroy" /\ InPlace(FirstOf(ks))
            /\ \A p \in linked :
                 KindOf(p) \in ks => /\ Rank(KindOf(p)) >= Rank(KindOf(FirstOf(ks).obj))
                                    /\ ~Behind(FirstOf(ks).obj, p)
<1> DEFINE busy  == {k \in ks : head[k] # None}
           first == CHOOSE k \in busy : \A l \in busy : Rank(k) <= Rank(l)
<1>1. \A k \in ks : HeadIs(k, head[k])
  BY DEF TablesInOrder
<1>2. CASE busy = {}
  <2>1. FirstOf(ks) = Over
    BY <1>2 DEF FirstOf
  <2>2. \A k \in ks : head[k] = None
    BY <1>2
  <2> QED
    BY <1>1, <2>1, <2>2 DEF HeadIs
<1>3. CASE busy # {}
  <2>1. \E k \in busy : \A l \in busy : Rank(k) <= Rank(l)
    <3>1. busy \subseteq {"inputs", "outputs", "workers"}
      BY DEF Kinds
    <3> HIDE DEF busy
    <3>2. CASE "inputs" \in busy
      <4>1. \A l \in busy : Rank("inputs") <= Rank(l)
        BY DEF Rank
      <4> QED
        BY <3>2, <4>1
    <3>3. CASE "inputs" \notin busy /\ "outputs" \in busy
      <4>1. \A l \in busy : Rank("outputs") <= Rank(l)
        BY <3>1, <3>3 DEF Rank
      <4> QED
        BY <3>3, <4>1
    <3>4. CASE busy = {"workers"}
      BY <3>4 DEF Rank
    <3> QED
      BY <1>3, <3>1, <3>2, <3>3, <3>4
  <2>2. first \in busy /\ \A l \in busy : Rank(first) <= Rank(l)
    BY <2>1
  <2>3. FirstOf(ks) = At(head[first])
    BY <1>3 DEF FirstOf
  <2> HIDE DEF first
  <2>4. head[first] \in linked /\ KindOf(head[first]) = first
    BY <1>1, <2>2 DEF HeadIs
  <2>5. \A p \in linked : ~Behind(head[first], p)
    BY <1>1, <2>2 DEF HeadIs
  <2>6. ASSUME NEW p \in linked, KindOf(p) \in ks PROVE Rank(KindOf(p)) >= Rank(first)
    <3>1. KindOf(p) \in busy
      BY <1>1, <2>6 DEF HeadIs
    <3>2. Rank(first) <= Rank(KindOf(p))
      BY <2>2, <3>1
    <3> QED
      BY <3>2 DEF Rank
  <2> QED
    BY <2>3, <2>4, <2>5, <2>6, AtIsInPlace
<1> QED
  BY <1>2, <1>3

-----------------------------------------------------------------------------
(***************************************************************************)
(* The steps of cleanup.                                                   *)
(***************************************************************************)

\* A step that stays away from the heap and from cleanup
LEMMA HeapKept ==
  ASSUME HeapInv, UNCHANGED <<heap, cl, overlap, misused>>
  PROVE  HeapInv'
<1>1. UNCHANGED <<head, succ, linked, freed, cl, overlap, misused>>
  BY DEF heap
<1>2. HeapTypes'
  BY <1>1 DEF HeapInv, HeapTypes
<1>3. TablesInOrder'
  BY <1>1 DEF HeapInv, TablesInOrder, HeadIs, NextIs
<1>4. FreedLast'
  BY <1>1 DEF HeapInv, FreedLast
<1>5. Undisturbed'
  BY <1>1 DEF HeapInv, Undisturbed, Steady
<1>6. Progress'
  BY <1>1 DEF HeapInv, Progress, Thorough, Doomed, BeenThrough, NextIs
<1> QED
  BY <1>2, <1>3, <1>4, <1>5, <1>6 DEF HeapInv

\* One runner gets on, and cleanups are still apart.
LEMMA OneGetsOn ==
  ASSUME HeapTypes, NEW x \in Runners, NEW c \in Spots, cl' = [cl EXCEPT ![x] = c],
         overlap' \/ (~misused' /\ Steady(c)' /\ \A y \in Runners \ {x} : cl[y] = Idle)
  PROVE  Undisturbed'
<1> SUFFICES ASSUME ~overlap' PROVE Undisturbed'
  BY DEF Undisturbed
<1>1. cl'[x] = c /\ \A y \in Runners \ {x} : cl'[y] = Idle
  BY DEF HeapTypes
<1>2. \A y \in Runners : Steady(cl[y])'
  BY <1>1 DEF Steady, Busy, Idle
<1> QED
  BY <1>1, <1>2 DEF Undisturbed

\* Objects that leave their tables do not change what others have been through.
LEMMA OthersThorough ==
  ASSUME HeapTypes, Progress, ~misused, NEW x \in Runners, NEW c \in Spots,
         cl' = [cl EXCEPT ![x] = c], linked' \subseteq linked, misused' \/ Thorough(c)'
  PROVE  Progress'
<1> SUFFICES ASSUME ~misused' PROVE \A y \in Runners : Thorough(cl[y])'
  BY DEF Progress
<1>1. cl'[x] = c /\ \A y \in Runners \ {x} : cl'[y] = cl[y]
  BY DEF HeapTypes
<1>2. ASSUME NEW d, Thorough(d) PROVE Thorough(d)'
  <2>1. d.at = "over" => linked' = {}
    BY <1>2 DEF Thorough
  <2>2. ASSUME Busy(d), ~Doomed(d)' PROVE BeenThrough(d)'
    <3>1. ~Doomed(d)
      BY <2>2 DEF Doomed
    <3>2. BeenThrough(d) /\ (d.nxt # None => d.nxt \in linked')
      BY <1>2, <2>2, <3>1 DEF Thorough, Doomed
    <3> QED
      BY <3>2 DEF BeenThrough, NextIs
  <2> QED
    BY <2>1, <2>2 DEF Thorough
<1>3. ASSUME NEW y \in Runners PROVE Thorough(cl[y])'
  <2>1. CASE y = x
    <3>1. Thorough(c)'
      OBVIOUS
    <3> QED
      BY <1>1, <2>1, <3>1 DEF Thorough, Doomed, BeenThrough, NextIs
  <2>2. CASE y # x
    <3>1. PICK d : d = cl[y]
      OBVIOUS
    <3>2. Thorough(d)'
      BY <1>2, <3>1 DEF Progress
    <3> QED
      BY <1>1, <2>2, <3>1, <3>2 DEF Thorough, Doomed, BeenThrough, NextIs
  <2> QED
    BY <2>1, <2>2
<1> QED
  BY <1>3

\* A cleanup alone finds nothing freed in what it is about to touch.
LEMMA NothingFreedTouched ==
  ASSUME HeapInv, ~overlap, NEW x \in Runners, Busy(cl[x])
  PROVE  /\ Touched(x) \cap freed = {}
         /\ Steady(cl[x])
         /\ \A y \in Runners \ {x} : cl[y] = Idle
<1> DEFINE c == cl[x]
<1>1. c # Idle /\ c.obj \in Threads /\ (c.at = "queues" => c.obj \in Workers)
  BY DEF Busy, Idle, HeapInv, HeapTypes
<1>2. Steady(c) /\ \A y \in Runners \ {x} : cl[y] = Idle
  BY <1>1 DEF HeapInv, Undisturbed
<1>3. linked \cap freed = {}
  BY DEF HeapInv, FreedLast
<1>4. c.obj \notin freed /\ (c.nxt # None => c.nxt \notin freed)
  BY <1>2, <1>3 DEF Steady
<1>5. ASSUME c.at = "queues" PROVE Queues(c.obj) \notin freed
  <2> SUFFICES ASSUME Queues(c.obj) \in freed PROVE FALSE
    OBVIOUS
  <2>1. c.obj \in linked \cap Workers
    BY <1>1, <1>2, <1>5 DEF Steady, Busy
  <2>2. PICK y \in Runners : cl[y].at = "unlink" /\ cl[y].obj = c.obj
    BY <2>1 DEF HeapInv, FreedLast
  <2>3. y # x
    BY <1>5, <2>2
  <2> QED
    BY <1>2, <2>2, <2>3 DEF Idle
<1>6. Touched(x) \cap freed = {}
  BY <1>4, <1>5 DEF Touched, Busy
<1> QED
  BY <1>2, <1>6

\* worker_destroy and output_destroy
LEMMA DestroyingKeeps ==
  ASSUME HeapInv, ~misused, NEW x \in Runners, NEW d \in Spots,
         cl[x].at \in {"destroy", "queues"}, d.at \in {"queues", "unlink"},
         d.obj = cl[x].obj, d.nxt = cl[x].nxt, d.at = "queues" => d.obj \in Workers,
         cl' = [cl EXCEPT ![x] = d],
         UNCHANGED <<head, succ, linked, overlap>>,
         misused' = (misused \/ Touched(x) \cap freed # {}),
         \/ freed' = freed
         \/ d.at = "unlink" /\ d.obj \in Workers /\ freed' = freed \cup {Queues(d.obj)}
  PROVE  HeapInv'
<1>1. HeapTypes /\ TablesInOrder /\ FreedLast /\ Undisturbed /\ Progress
  BY DEF HeapInv
<1>2. cl'[x] = d /\ (\A y \in Runners \ {x} : cl'[y] = cl[y]) /\ Busy(cl[x])
  BY <1>1 DEF HeapTypes, Busy
<1>3. HeapTypes'
  <2>1. d.obj \in Threads
    BY <1>1, <1>2 DEF HeapTypes
  <2>2. freed' \subseteq Blocks
    BY <1>1 DEF HeapTypes, Blocks
  <2>3. cl' \in [Runners -> Spots]
    BY <1>1 DEF HeapTypes
  <2>4. /\ \A y \in Runners : Busy(cl'[y]) => cl'[y].obj \in Threads
        /\ \A y \in Runners : cl'[y].at = "queues" => cl'[y].obj \in Workers
    BY <1>1, <1>2, <2>1 DEF HeapTypes
  <2>5. misused' \in BOOLEAN
    BY <1>1 DEF HeapTypes
  <2> QED
    BY <1>1, <2>2, <2>3, <2>4, <2>5 DEF HeapTypes, Busy
<1>4. TablesInOrder'
  BY <1>1 DEF TablesInOrder, HeadIs, NextIs
<1>5. FreedLast'
  <2>1. linked \cap freed' = {}
    BY <1>1, ShutdownAssumption DEF FreedLast, HeapTypes
  <2>2. \A y \in Runners : cl'[y].at = "free" => cl'[y].obj \notin linked
    BY <1>1, <1>2 DEF FreedLast
  <2>3. ASSUME NEW w \in linked \cap Workers, Queues(w) \in freed'
        PROVE  \E y \in Runners : cl'[y].at = "unlink" /\ cl'[y].obj = w
    <3>1. CASE Queues(w) \in freed
      <4>1. PICK y \in Runners : cl[y].at = "unlink" /\ cl[y].obj = w
        BY <1>1, <3>1 DEF FreedLast
      <4>2. y # x
        BY <4>1
      <4> QED
        BY <1>2, <4>1, <4>2
    <3>2. CASE Queues(w) \notin freed
      <4>1. d.at = "unlink" /\ Queues(w) = Queues(d.obj)
        BY <2>3, <3>2
      <4>2. w = d.obj
        BY <4>1 DEF Queues
      <4> QED
        BY <1>2, <4>1, <4>2
    <3> QED
      BY <3>1, <3>2
  <2> QED
    BY <2>1, <2>2, <2>3 DEF FreedLast
<1>6. Undisturbed'
  <2>1. ASSUME ~overlap
        PROVE  ~misused' /\ Steady(d)' /\ \A y \in Runners \ {x} : cl[y] = Idle
    <3>1. /\ Touched(x) \cap freed = {} /\ Steady(cl[x])
          /\ \A y \in Runners \ {x} : cl[y] = Idle
      BY <1>2, <2>1, NothingFreedTouched
    <3>2. Steady(d)'
      BY <1>2, <3>1 DEF Steady
    <3> QED
      BY <3>1, <3>2
  <2> QED
    BY <1>1, <2>1, OneGetsOn
<1>7. Thorough(d)'
  <2>1. Thorough(cl[x])
    BY <1>1 DEF Progress
  <2>2. ~Doomed(d)' => ~Doomed(cl[x])
    BY DEF Doomed
  <2> QED
    BY <1>2, <2>1, <2>2 DEF Thorough, BeenThrough, NextIs
<1>8. Progress'
  BY <1>1, <1>7, OthersThorough
<1> QED
  BY <1>3, <1>4, <1>5, <1>6, <1>8 DEF HeapInv

\* A destroy function touches the object at hand and frees nothing.
LEMMA DestroyKeeps ==
  ASSUME HeapInv, ~misused, NEW x \in Runners, Destroy(x)
  PROVE  HeapInv'
<1> DEFINE o == cl[x].obj
<1>1. PICK d : d = [cl[x] EXCEPT !.at = IF o \in Workers THEN "queues" ELSE "unlink"]
  OBVIOUS
<1>2. /\ cl[x].at = "destroy" /\ cl' = [cl EXCEPT ![x] = d]
      /\ UNCHANGED <<head, succ, linked, freed, overlap>>
      /\ misused' = (misused \/ Touched(x) \cap freed # {})
  BY <1>1 DEF Destroy, heap
<1>3. cl[x] \in Spots
  BY DEF HeapInv, HeapTypes
<1>4. /\ d \in Spots /\ d.at \in {"queues", "unlink"} /\ d.obj = cl[x].obj /\ d.nxt = cl[x].nxt
      /\ d.at = "queues" => d.obj \in Workers
  BY <1>1, <1>3 DEF Spots, Points
<1> QED
  BY <1>2, <1>4, DestroyingKeeps

\* worker_destroy frees the queues of a worker that is still in its table.
LEMMA FreeQueuesKeeps ==
  ASSUME HeapInv, ~misused, NEW x \in Runners, FreeQueues(x)
  PROVE  HeapInv'
<1>1. PICK d : d = [cl[x] EXCEPT !.at = "unlink"]
  OBVIOUS
<1>2. /\ cl[x].at = "queues" /\ cl' = [cl EXCEPT ![x] = d]
      /\ UNCHANGED <<head, succ, linked, overlap>>
      /\ freed' = freed \cup {Queues(cl[x].obj)}
      /\ misused' = (misused \/ Touched(x) \cap freed # {})
  BY <1>1 DEF FreeQueues
<1>3. cl[x] \in Spots /\ cl[x].obj \in Workers
  BY <1>2 DEF HeapInv, HeapTypes
<1>4. d \in Spots /\ d.at = "unlink" /\ d.obj = cl[x].obj /\ d.nxt = cl[x].nxt
  BY <1>1, <1>3 DEF Spots, Points
<1> QED
  BY <1>2, <1>3, <1>4, DestroyingKeeps

\* HASH_DEL takes the object at hand out of its table.
LEMMA UnlinkKeeps ==
  ASSUME HeapInv, ~misused, NEW x \in Runners, Unlink(x)
  PROVE  HeapInv'
<1>1. PICK o : o = cl[x].obj
  OBVIOUS
<1>2. PICK d : d = [cl[x] EXCEPT !.at = "free"]
  OBVIOUS
<1>3. /\ cl[x].at = "unlink" /\ cl' = [cl EXCEPT ![x] = d]
      /\ misused' = (misused \/ Touched(x) \cap freed # {} \/ o \notin linked)
      /\ linked' = linked \ {o}
      /\ head' = [head EXCEPT ![KindOf(o)] = IF @ = o THEN succ[o] ELSE @]
      /\ succ' = [p \in Threads |->
                   IF succ[p] = o /\ {o, p} \subseteq linked THEN succ[o] ELSE succ[p]]
      /\ UNCHANGED <<freed, overlap>>
  BY <1>1, <1>2 DEF Unlink
<1>4. HeapTypes /\ TablesInOrder /\ FreedLast /\ Undisturbed /\ Progress
  BY DEF HeapInv
<1>5. cl'[x] = d /\ (\A y \in Runners \ {x} : cl'[y] = cl[y]) /\ Busy(cl[x])
  BY <1>3, <1>4 DEF HeapTypes, Busy
<1>6. o \in Threads /\ cl[x] \in Spots
  BY <1>1, <1>4, <1>5 DEF HeapTypes
<1>7. d \in Spots /\ d.at = "free" /\ d.obj = o /\ d.nxt = cl[x].nxt
  BY <1>1, <1>2, <1>6 DEF Spots, Points
<1>8. HeapTypes'
  <2>1. head' \in [Kinds -> Threads \cup {None}] /\ succ' \in [Threads -> Threads \cup {None}]
    BY <1>3, <1>4, <1>6 DEF HeapTypes
  <2>2. cl' \in [Runners -> Spots]
    BY <1>3, <1>4, <1>7 DEF HeapTypes
  <2>3. /\ \A y \in Runners : Busy(cl'[y]) => cl'[y].obj \in Threads
        /\ \A y \in Runners : cl'[y].at = "queues" => cl'[y].obj \in Workers
    BY <1>4, <1>5, <1>6, <1>7 DEF HeapTypes
  <2>4. misused' \in BOOLEAN /\ overlap' \in BOOLEAN /\ linked' \subseteq Threads
    BY <1>3, <1>4 DEF HeapTypes
  <2>5. freed' \subseteq Blocks
    BY <1>3, <1>4 DEF HeapTypes, Blocks
  <2> QED
    BY <2>1, <2>2, <2>3, <2>4, <2>5 DEF HeapTypes, Busy
<1>9. TablesInOrder'
  BY <1>3, <1>4, <1>6, UnlinkKeepsTables DEF HeapTypes
<1>10. FreedLast'
  <2>1. \A y \in Runners : cl'[y].at = "free" => cl'[y].obj \notin linked'
    BY <1>3, <1>4, <1>5, <1>7 DEF FreedLast
  <2>2. ASSUME NEW w \in linked' \cap Workers, Queues(w) \in freed'
        PROVE  \E y \in Runners : cl'[y].at = "unlink" /\ cl'[y].obj = w
    <3>1. PICK y \in Runners : cl[y].at = "unlink" /\ cl[y].obj = w
      BY <1>3, <1>4, <2>2 DEF FreedLast
    <3>2. y # x
      BY <1>1, <1>3, <3>1
    <3> QED
      BY <1>5, <3>1, <3>2
  <2> QED
    BY <1>3, <1>4, <2>1, <2>2 DEF FreedLast
<1>11. Undisturbed'
  <2>1. ASSUME ~overlap
        PROVE  ~misused' /\ Steady(d)' /\ \A y \in Runners \ {x} : cl[y] = Idle
    <3>1. /\ Touched(x) \cap freed = {} /\ Steady(cl[x])
          /\ \A y \in Runners \ {x} : cl[y] = Idle
      BY <1>5, <2>1, NothingFreedTouched
    <3>2. o \notin freed
      BY <1>1, <1>3, <3>1 DEF Touched
    <3>3. o \in linked /\ (d.nxt # None => d.nxt \in linked /\ d.nxt # o)
      BY <1>1, <1>3, <1>5, <1>7, <3>1 DEF Steady
    <3>4. Steady(d)'
      BY <1>3, <1>7, <3>2, <3>3 DEF Steady
    <3> QED
      BY <1>3, <3>1, <3>3, <3>4
  <2> QED
    BY <1>3, <1>4, <1>7, <2>1, OneGetsOn
<1>12. ASSUME ~misused' PROVE Thorough(d)'
  <2>1. Thorough(cl[x]) /\ o \in linked
    BY <1>3, <1>4, <1>12 DEF Progress
  <2>2. ASSUME ~Doomed(d)' PROVE BeenThrough(d)'
    <3>1. d.nxt # None => d.nxt \in linked'
      BY <2>2 DEF Doomed
    <3>2. ~Doomed(cl[x])
      BY <1>1, <1>3, <1>7, <2>1, <3>1 DEF Doomed
    <3>3. BeenThrough(cl[x])
      BY <1>5, <2>1, <3>2 DEF Thorough
    <3> QED
      BY <1>1, <1>3, <1>7, <3>1, <3>3 DEF BeenThrough, NextIs
  <2> QED
    BY <1>7, <2>2 DEF Thorough
<1>13. Progress'
  BY <1>3, <1>4, <1>7, <1>12, OthersThorough
<1> QED
  BY <1>8, <1>9, <1>10, <1>11, <1>13 DEF HeapInv

\* A cleanup comes to an object, to its end, or returns.
LEMMA ArrivingKeeps ==
  ASSUME HeapInv, ~misused, NEW x \in Runners, NEW d \in Spots,
         cl[x].at # "unlink", d.at \in {"destroy", "over", "no"},
         d.at = "destroy" => d.obj \in Threads,
         cl' = [cl EXCEPT ![x] = d],
         UNCHANGED <<head, succ, linked>>,
         overlap' \in BOOLEAN, misused' \in BOOLEAN,
         \/ freed' = freed
         \/ cl[x].obj \in Threads \ linked /\ freed' = freed \cup {cl[x].obj},
         overlap' \/ (~misused' /\ Steady(d)' /\ \A y \in Runners \ {x} : cl[y] = Idle),
         misused' \/ Thorough(d)'
  PROVE  HeapInv'
<1>1. HeapTypes /\ TablesInOrder /\ FreedLast /\ Progress
  BY DEF HeapInv
<1>2. cl'[x] = d /\ \A y \in Runners \ {x} : cl'[y] = cl[y]
  BY <1>1 DEF HeapTypes
<1>3. HeapTypes'
  <2>1. freed' \subseteq Blocks /\ cl' \in [Runners -> Spots]
    BY <1>1 DEF HeapTypes, Blocks
  <2>2. /\ \A y \in Runners : Busy(cl'[y]) => cl'[y].obj \in Threads
        /\ \A y \in Runners : cl'[y].at = "queues" => cl'[y].obj \in Workers
    BY <1>1, <1>2 DEF HeapTypes, Busy
  <2> QED
    BY <1>1, <2>1, <2>2 DEF HeapTypes, Busy
<1>4. TablesInOrder'
  BY <1>1 DEF TablesInOrder, HeadIs, NextIs
<1>5. FreedLast'
  <2>1. \A y \in Runners : cl'[y].at = "free" => cl'[y].obj \notin linked
    BY <1>1, <1>2 DEF FreedLast
  <2>2. ASSUME NEW w \in linked \cap Workers, Queues(w) \in freed'
        PROVE  \E y \in Runners : cl'[y].at = "unlink" /\ cl'[y].obj = w
    <3>1. Queues(w) \in freed
      BY <2>2, ShutdownAssumption
    <3>2. PICK y \in Runners : cl[y].at = "unlink" /\ cl[y].obj = w
      BY <1>1, <3>1 DEF FreedLast
    <3> QED
      BY <1>2, <3>2
  <2> QED
    BY <1>1, <2>1, <2>2 DEF FreedLast
<1>6. Undisturbed'
  BY <1>1, OneGetsOn
<1>7. Progress'
  BY <1>1, OthersThorough
<1> QED
  BY <1>3, <1>4, <1>5, <1>6, <1>7 DEF HeapInv

\* free, and on to the object that was next, which may be gone by now.
LEMMA FreeKeeps ==
  ASSUME HeapInv, ~misused, NEW x \in Runners, Free(x)
  PROVE  HeapInv'
<1>1. PICK o : o = cl[x].obj
  OBVIOUS
<1>2. PICK q : q = cl[x].nxt
  OBVIOUS
<1>3. PICK d : d = IF q # None THEN At(q) ELSE FirstOf(TablesAfter(KindOf(o)))
  OBVIOUS
<1>4. /\ cl[x].at = "free" /\ cl' = [cl EXCEPT ![x] = d]
      /\ misused' = (misused \/ Touched(x) \cap freed # {})
      /\ freed' = freed \cup {o}
      /\ UNCHANGED <<head, succ, linked, overlap>>
  BY <1>1, <1>2, <1>3 DEF Free
<1>5. HeapTypes /\ TablesInOrder /\ FreedLast /\ Undisturbed /\ Progress
  BY DEF HeapInv
<1>6. /\ Busy(cl[x]) /\ cl[x] \in Spots /\ o \in Threads \ linked
      /\ q \in Threads \cup {None} /\ None \notin Threads
  BY <1>1, <1>2, <1>4, <1>5, ShutdownAssumption DEF HeapTypes, FreedLast, Busy, Spots
<1>7. linked \subseteq Threads /\ succ \in [Threads -> Threads \cup {None}]
  BY <1>5 DEF HeapTypes
<1>8. TablesAfter(KindOf(o)) \in SUBSET Kinds
  BY DEF TablesAfter
<1>9. q = None =>
        \/ d = Over /\ \A p \in linked : KindOf(p) \notin TablesAfter(KindOf(o))
        \/ /\ d \in Spots /\ d.at = "destroy" /\ InPlace(d)
           /\ \A p \in linked :
                KindOf(p) \in TablesAfter(KindOf(o)) =>
                  Rank(KindOf(p)) >= Rank(KindOf(d.obj)) /\ ~Behind(d.obj, p)
  BY <1>3, <1>5, <1>8, FirstOfTables
<1>10. ASSUME q \in linked PROVE d \in Spots /\ d.at = "destroy" /\ d.obj = q /\ InPlace(d)
  BY <1>3, <1>5, <1>6, <1>7, <1>10, AtIsInPlace
<1>11. ASSUME q # None, q \notin linked
       PROVE  d \in Spots /\ d.at = "destroy" /\ d.obj = q
  BY <1>3, <1>6, <1>7, <1>11 DEF At, Spots, Points
<1>12. /\ d \in Spots /\ d.at \in {"destroy", "over"}
       /\ d.at = "destroy" => d.obj \in Threads
  <2>1. Over \in Spots /\ Over.at = "over"
    BY DEF Over, Spots, Points
  <2>2. InPlace(d) => d.obj \in Threads
    BY <1>7 DEF InPlace
  <2> QED
    BY <1>6, <1>9, <1>10, <1>11, <2>1, <2>2
<1>13. ASSUME ~overlap
       PROVE  ~misused' /\ Steady(d)' /\ \A y \in Runners \ {x} : cl[y] = Idle
  <2>1. /\ Touched(x) \cap freed = {} /\ Steady(cl[x])
        /\ \A y \in Runners \ {x} : cl[y] = Idle
    BY <1>6, <1>13, NothingFreedTouched
  <2>2. q # None => q \in linked
    BY <1>2, <1>6, <2>1 DEF Steady
  <2>3. d = Over \/ (d.at = "destroy" /\ InPlace(d))
    BY <1>9, <1>10, <2>2
  <2>4. Steady(d)'
    BY <1>4, <2>3 DEF Steady, InPlace, Over, Busy
  <2> QED
    BY <1>4, <2>1, <2>4
<1>14. ASSUME ~misused' PROVE Thorough(d)'
  <2>1. Thorough(cl[x])
    BY <1>5 DEF Progress
  <2>2. CASE q # None /\ q \notin linked
    BY <1>4, <1>11, <2>2 DEF Thorough, Doomed
  <2>3. CASE q = None \/ q \in linked
    <3>1. BeenThrough(cl[x])
      BY <1>2, <1>4, <1>6, <2>1, <2>3 DEF Thorough, Doomed
    <3>2. /\ \A p \in linked : Rank(KindOf(p)) >= Rank(KindOf(o)) /\ ~Behind(o, p)
          /\ NextIs(o, q)
      BY <1>1, <1>2, <3>1 DEF BeenThrough
    <3>3. CASE q \in linked
      <4>1. Behind(q, o) /\ \A p \in linked : Behind(p, o) => ~Behind(q, p)
        BY <1>6, <1>7, <3>2, <3>3 DEF NextIs
      <4>2. KindOf(q) = KindOf(o)
        BY <1>6, <1>7, <3>3, <4>1, BehindOrders
      <4>3. ASSUME NEW p \in linked PROVE ~Behind(q, p)
        <5>1. p \in Threads /\ q \in Threads /\ p # o
          BY <1>6, <1>7, <3>3
        <5>2. Behind(q, p) => Behind(p, o)
          BY <1>6, <3>2, <4>2, <5>1, BehindOrders
        <5> QED
          BY <4>1, <5>2
      <4>4. BeenThrough(d)
        BY <1>10, <3>2, <3>3, <4>2, <4>3 DEF BeenThrough, InPlace
      <4> QED
        BY <1>4, <1>10, <3>3, <4>4 DEF Thorough, BeenThrough, NextIs
    <3>4. CASE q = None
      <4>1. ASSUME NEW p \in linked PROVE KindOf(p) \in TablesAfter(KindOf(o))
        <5>1. p \in Threads /\ p # o
          BY <1>6, <1>7
        <5>2. ~Behind(p, o) /\ ~Behind(o, p) /\ Rank(KindOf(p)) >= Rank(KindOf(o))
          BY <3>2, <3>4 DEF NextIs
        <5>3. KindOf(p) # KindOf(o)
          BY <1>6, <5>1, <5>2, BehindOrders
        <5>4. KindOf(p) \in Kinds /\ KindOf(o) \in Kinds
          BY <1>6, <5>1, Places
        <5>5. Rank(KindOf(p)) > Rank(KindOf(o))
          BY <5>2, <5>3, <5>4 DEF Rank, Kinds
        <5> QED
          BY <5>4, <5>5 DEF TablesAfter
      <4>2. CASE d = Over
        <5>1. linked = {}
          BY <1>9, <3>4, <4>1, <4>2 DEF Over, InPlace
        <5> QED
          BY <1>4, <4>2, <5>1 DEF Thorough, Over, Busy
      <4>3. CASE d # Over
        <5>1. d.at = "destroy" /\ BeenThrough(d)
          BY <1>9, <3>4, <4>1, <4>3 DEF BeenThrough, InPlace
        <5> QED
          BY <1>4, <5>1 DEF Thorough, BeenThrough, NextIs
      <4> QED
        BY <4>2, <4>3
    <3> QED
      BY <2>3, <3>3, <3>4
  <2> QED
    BY <2>2, <2>3
<1>15. overlap' \in BOOLEAN /\ misused' \in BOOLEAN
  BY <1>4, <1>5 DEF HeapTypes
<1> QED
  BY <1>1, <1>4, <1>6, <1>12, <1>13, <1>14, <1>15, ArrivingKeeps

\* A cleanup begins at the first object there is.
LEMMA BeginKeeps ==
  ASSUME HeapInv, ~misused, NEW x \in Runners, cl[x] = Idle, Begin(x),
         UNCHANGED <<heap, misused>>
  PROVE  HeapInv'
<1>1. PICK d : d = FirstOf(Kinds)
  OBVIOUS
<1>2. /\ cl' = [cl EXCEPT ![x] = d]
      /\ overlap' = (overlap \/ \E y \in Runners \ {x} : cl[y] # Idle)
      /\ UNCHANGED <<head, succ, linked, freed, misused>>
  BY <1>1 DEF Begin, heap
<1>3. HeapTypes /\ TablesInOrder /\ Undisturbed
  BY DEF HeapInv
<1>4. \A p \in linked : p \in Threads /\ KindOf(p) \in Kinds
  BY <1>3, Places DEF HeapTypes
<1>5. \/ d = Over /\ linked = {}
      \/ d \in Spots /\ d.at = "destroy" /\ InPlace(d) /\ BeenThrough(d)
  BY <1>1, <1>3, <1>4, FirstOfTables DEF BeenThrough, InPlace
<1>6. /\ d \in Spots /\ d.at \in {"destroy", "over"}
      /\ d.at = "destroy" => d.obj \in Threads
  BY <1>4, <1>5 DEF Over, Spots, Points, InPlace
<1>7. Steady(d)'
  BY <1>2, <1>5 DEF Steady, InPlace, Over, Busy
<1>8. Thorough(d)'
  BY <1>2, <1>5 DEF Thorough, BeenThrough, NextIs, Over, Busy
<1>9. overlap' \in BOOLEAN /\ misused' \in BOOLEAN
  BY <1>2, <1>3 DEF HeapTypes
<1>10. cl[x].at # "unlink"
  BY DEF Idle
<1>11. overlap' \/ (~misused' /\ Steady(d)' /\ \A y \in Runners \ {x} : cl[y] = Idle)
  <2>1. CASE \E y \in Runners \ {x} : cl[y] # Idle
    BY <1>2, <2>1
  <2>2. CASE ~(\E y \in Runners \ {x} : cl[y] # Idle)
    BY <1>2, <1>7, <2>2
  <2> QED
    BY <2>1, <2>2
<1> QED
  BY <1>2, <1>6, <1>8, <1>9, <1>10, <1>11, ArrivingKeeps

\* A cleanup that is done returns.
LEMMA ReturnKeeps ==
  ASSUME HeapInv, ~misused, NEW x \in Runners, Return(x)
  PROVE  HeapInv'
<1>1. PICK d : d = Idle
  OBVIOUS
<1>2. /\ cl[x] = Over /\ cl' = [cl EXCEPT ![x] = d]
      /\ UNCHANGED <<head, succ, linked, freed, overlap, misused>>
  BY <1>1 DEF Return, heap, past
<1>3. HeapTypes /\ Undisturbed
  BY DEF HeapInv
<1>4. d \in Spots /\ d.at = "no" /\ cl[x].at # "unlink" /\ cl[x] # Idle
  BY <1>1, <1>2 DEF Idle, Over, Spots, Points
<1>5. Steady(d)' /\ Thorough(d)'
  BY <1>4 DEF Steady, Thorough, Busy
<1>6. overlap \/ \A y \in Runners \ {x} : cl[y] = Idle
  BY <1>3, <1>4 DEF Undisturbed
<1>7. overlap' \in BOOLEAN /\ misused' \in BOOLEAN
  BY <1>2, <1>3 DEF HeapTypes
<1> QED
  BY <1>2, <1>4, <1>5, <1>6, <1>7, ArrivingKeeps

\* A cleanup keeps what holds of the heap.
LEMMA CleanupKeepsHeap ==
  ASSUME HeapInv, ~misused, NEW x \in Runners, Cleanup(x)
  PROVE  HeapInv'
BY DestroyKeeps, FreeQueuesKeeps, UnlinkKeeps, FreeKeeps, ReturnKeeps DEF Cleanup

-----------------------------------------------------------------------------
(***************************************************************************)
(* The steps of the threads.                                               *)
(***************************************************************************)

\* A thread moves on to a label behind the making of its semaphore.
LEMMA GotoKeeps ==
  ASSUME ThreadTypes, MadeOnce, NEW t \in Threads, NEW from, NEW label \in Labels,
         Goto(t, from, label),
         from \notin {"eexit", "exit"},
         label \notin {"new", "semget"} \/ from = "new",
         UNCHANGED <<semid, cl>>
  PROVE  pc' \in [Threads -> Labels] /\ Callers' /\ MadeOnce'
<1>1. pc \in [Threads -> Labels] /\ pc[t] = from /\ pc' = [pc EXCEPT ![t] = label]
  BY DEF ThreadTypes, Goto
<1>2. pc' \in [Threads -> Labels] /\ pc'[t] = label /\ \A u \in Threads \ {t} : pc'[u] = pc[u]
  BY <1>1
<1>3. cl[t] = Idle
  BY <1>1 DEF ThreadTypes, Callers
<1>4. Callers'
  BY <1>2, <1>3 DEF ThreadTypes, Callers
<1>5. MadeOnce'
  BY <1>1, <1>2 DEF MadeOnce, Threads
<1> QED
  BY <1>2, <1>4, <1>5

\* A step that stays away from the heap and from cleanup
LEMMA QuietKeeps ==
  ASSUME Inv, ~exited,
         UNCHANGED <<heap, cl, past, exits, signals>>,
         pc' \in [Threads -> Labels], Callers', MadeOnce',
         semid' \in [Receivers -> Ids], sems' \subseteq Receivers,
         tgt' \in [Inputs -> Workers \cup {None}],
         mi' \in [at : {"begin", "workers", "outputs", "inputs"},
                  obj : Threads \cup {None}, nxt : Threads \cup {None}],
         aborted' \in BOOLEAN, held' \in BOOLEAN, exited' \in BOOLEAN, exited' => aborted',
         \A r \in Receivers : semid[r] = r /\ r \notin sems => semid'[r] = r /\ r \notin sems'
  PROVE  Inv'
<1>1. UNCHANGED <<linked, overlap, misused, unready, foreign>>
  BY DEF heap, past
<1>2. HeapInv'
  BY <1>1, HeapKept DEF Inv
<1>3. ThreadTypes'
  BY <1>1 DEF Inv, ThreadTypes
<1>4. \A r \in Receivers : Removed(r)' => Removed(r)
  BY DEF Removed
<1>5. SemaphoresFirst'
  BY <1>1, <1>4 DEF Inv, SemaphoresFirst
<1>6. ExitedClean'
  BY DEF ExitedClean
<1> QED
  BY <1>2, <1>3, <1>5, <1>6 DEF Inv

\* The same of a step that only moves a thread
LEMMA MoveKeeps ==
  ASSUME Inv, ~exited, NEW t \in Threads, NEW from, NEW label \in Labels,
         Goto(t, from, label), from \notin {"eexit", "exit"},
         label \notin {"new", "semget"} \/ from = "new",
         UNCHANGED <<semid, exited, heap, sems, mi, cl, tgt, exits, signals, aborted, held, past>>
  PROVE  Inv'
<1>1. ThreadTypes /\ MadeOnce
  BY DEF Inv, SemaphoresFirst
<1>2. pc' \in [Threads -> Labels] /\ Callers' /\ MadeOnce'
  BY <1>1, GotoKeeps
<1> QED
  BY <1>1, <1>2, QuietKeeps DEF ThreadTypes

\* The process dies in an assertion or a fault.
LEMMA AbortKeeps ==
  ASSUME Inv, ~exited, Abort
  PROVE  Inv'
<1>1. UNCHANGED <<pc, semid, heap, sems, mi, cl, tgt, exits, signals, held, past>>
      /\ aborted' = TRUE /\ exited' = TRUE
  BY DEF Abort
<1>2. ThreadTypes /\ MadeOnce
  BY DEF Inv, SemaphoresFirst
<1>3. Callers' /\ MadeOnce'
  BY <1>1, <1>2 DEF ThreadTypes, Callers, MadeOnce
<1> QED
  BY <1>1, <1>2, <1>3, QuietKeeps DEF ThreadTypes

\* main's loops over the tables start threads and free nothing.
LEMMA MainStartsKeeps ==
  ASSUME Inv, ~exited, MainStarts
  PROVE  Inv'
<1>1. ThreadTypes /\ MadeOnce /\ HeapTypes
  BY DEF Inv, SemaphoresFirst, HeapInv
<1>2. ASSUME NEW o \in Threads \cup {None}, NEW a \in {"begin", "workers", "outputs", "inputs"}
      PROVE  [At(o) EXCEPT !.at = a] \in [at : {"begin", "workers", "outputs", "inputs"},
                                         obj : Threads \cup {None}, nxt : Threads \cup {None}]
  BY <1>1 DEF At, HeapTypes
<1>3. CASE MainStartsReceiver
  <2>1. /\ mi.obj \in Threads /\ Goto(mi.obj, "new", "semget")
        /\ mi' = [At(mi.nxt) EXCEPT !.at = mi.at]
        /\ UNCHANGED <<semid, exited, heap, sems, cl, tgt, exits, signals, aborted, held, past>>
    BY <1>1, <1>3 DEF MainStartsReceiver, ThreadTypes
  <2>2. pc' \in [Threads -> Labels] /\ Callers' /\ MadeOnce'
    BY <1>1, <2>1, GotoKeeps DEF Labels
  <2>3. mi' \in [at : {"begin", "workers", "outputs", "inputs"},
                 obj : Threads \cup {None}, nxt : Threads \cup {None}]
    BY <1>1, <1>2, <2>1 DEF ThreadTypes
  <2> QED
    BY <1>1, <2>1, <2>2, <2>3, QuietKeeps DEF ThreadTypes
<1>4. CASE MainNextTable
  <2>1. UNCHANGED <<pc, semid, exited, heap, sems, cl, tgt, exits, signals, aborted, held, past>>
    BY <1>4 DEF MainNextTable, vars
  <2>2. mi' \in [at : {"begin", "workers", "outputs", "inputs"},
                 obj : Threads \cup {None}, nxt : Threads \cup {None}]
    <3>1. head["workers"] \in Threads \cup {None} /\ head["outputs"] \in Threads \cup {None}
      BY <1>1 DEF HeapTypes, Kinds
    <3>2. \/ mi' = [At(head["workers"]) EXCEPT !.at = "workers"]
          \/ mi' = [At(head["outputs"]) EXCEPT !.at = "outputs"]
          \/ mi' = [mi EXCEPT !.at = "inputs"]
      BY <1>4 DEF MainNextTable
    <3>3. [mi EXCEPT !.at = "inputs"] \in [at : {"begin", "workers", "outputs", "inputs"},
                 obj : Threads \cup {None}, nxt : Threads \cup {None}]
      BY <1>1 DEF ThreadTypes
    <3> QED
      BY <1>2, <3>1, <3>2, <3>3
  <2>3. Callers' /\ MadeOnce'
    BY <1>1, <2>1 DEF ThreadTypes, Callers, MadeOnce
  <2> QED
    BY <1>1, <2>1, <2>2, <2>3, QuietKeeps DEF ThreadTypes
<1>5. CASE MainStartsInput
  <2>1. /\ NextInput \in Threads /\ Goto(NextInput, "new", "barrier")
        /\ UNCHANGED <<semid, exited, heap, sems, mi, cl, tgt, exits, signals, aborted, held, past>>
    BY <1>1, <1>5 DEF MainStartsInput, HeapTypes, downVars
  <2> QED
    BY <2>1, MoveKeeps DEF Labels
<1>6. CASE MainFindsNoInput
  BY <1>6, AbortKeeps DEF MainFindsNoInput
<1> QED
  BY <1>3, <1>4, <1>5, <1>6 DEF MainStarts

\* A receiver makes its semaphore, which it did not have before.
LEMMA MakeSemaphoreKeeps ==
  ASSUME Inv, ~exited, NEW r \in Receivers, MakeSemaphore(r)
  PROVE  Inv'
<1>1. /\ pc[r] = "semget" /\ pc' = [pc EXCEPT ![r] = "setval"]
      /\ semid' = [semid EXCEPT ![r] = r] /\ sems' = sems \cup {r}
      /\ UNCHANGED <<exited, heap, mi, cl, tgt, exits, signals, aborted, held, past>>
  BY DEF MakeSemaphore, SetSemid, Goto
<1>2. ThreadTypes /\ MadeOnce /\ r \in Threads
  BY DEF Inv, SemaphoresFirst, Threads
<1>3. /\ pc' \in [Threads -> Labels] /\ pc'[r] = "setval"
      /\ \A t \in Threads \ {r} : pc'[t] = pc[t]
  BY <1>1, <1>2 DEF ThreadTypes, Labels
<1>4. /\ semid' \in [Receivers -> Ids] /\ semid'[r] = r
      /\ \A q \in Receivers \ {r} : semid'[q] = semid[q]
  BY <1>1, <1>2 DEF ThreadTypes, Ids
<1>5. Callers'
  BY <1>1, <1>2, <1>3 DEF ThreadTypes, Callers
<1>6. MadeOnce'
  BY <1>2, <1>3, <1>4 DEF MadeOnce, Threads
<1>7. ASSUME NEW q \in Receivers, semid[q] = q, q \notin sems
      PROVE  semid'[q] = q /\ q \notin sems'
  <2>1. q # r
    BY <1>1, <1>2, <1>7 DEF MadeOnce
  <2> QED
    BY <1>1, <1>4, <1>7, <2>1
<1>8. sems' \subseteq Receivers
  BY <1>1, <1>2 DEF ThreadTypes
<1> QED
  BY <1>1, <1>2, <1>3, <1>4, <1>5, <1>6, <1>7, <1>8, QuietKeeps DEF ThreadTypes

\* The other steps a thread takes outside of cleanup
Moves(t) ==
  \/ PassBarrier(t) /\ UNCHANGED downVars
  \/ SendSignal(t)
  \/ ResetSemaphore(t) \/ WaitToken(t) \/ WaitFails(t)
  \/ Take(t) /\ UNCHANGED downVars
  \/ Produce(t) /\ UNCHANGED downVars
  \/ Abort

\* They keep the invariant, too.
LEMMA ThreadKeeps ==
  ASSUME Inv, ~exited, NEW t \in Threads, Moves(t)
  PROVE  Inv'
<1> DEFINE Stays == UNCHANGED <<semid, exited, heap, sems, mi, cl, tgt, exits, signals,
                               aborted, held, past>>
<1>1. CASE PassBarrier(t) /\ UNCHANGED downVars
  <2>1. Goto(t, "barrier", "loop") /\ Stays
    BY <1>1 DEF PassBarrier, downVars
  <2> QED
    BY <2>1, MoveKeeps DEF Labels
<1>2. CASE SendSignal(t)
  <2>1. Goto(t, "signal", "loop") /\ Stays
    BY <1>2 DEF SendSignal, SignalReaches, SignalElsewhere, downVars
  <2> QED
    BY <2>1, MoveKeeps DEF Labels
<1>3. CASE ResetSemaphore(t)
  <2>1. CASE SetVal(t) /\ UNCHANGED downVars
    <3>1. Goto(t, "setval", "barrier") /\ Stays
      BY <2>1 DEF SetVal, downVars
    <3> QED
      BY <3>1, MoveKeeps DEF Labels
  <2>2. CASE Abort
    BY <2>2, AbortKeeps
  <2> QED
    BY <1>3, <2>1, <2>2 DEF ResetSemaphore
<1>4. CASE WaitToken(t)
  <2>1. Goto(t, "loop", "take") /\ Stays
    BY <1>4 DEF WaitToken, Awake, downVars
  <2> QED
    BY <2>1, MoveKeeps DEF Labels
<1>5. CASE WaitFails(t)
  <2>1. Goto(t, "loop", "exit") /\ Stays
    BY <1>5 DEF WaitFails, downVars
  <2> QED
    BY <2>1, MoveKeeps DEF Labels
<1>6. CASE Take(t) /\ UNCHANGED downVars
  <2>1. PICK label : label = IF t \in Workers /\ OutputOf[t] # None THEN "produce" ELSE "loop"
    OBVIOUS
  <2>2. Goto(t, "take", label) /\ Stays
    BY <1>6, <2>1 DEF Take, downVars
  <2>3. label \in {"produce", "loop"}
    BY <2>1
  <2> QED
    BY <2>2, <2>3, MoveKeeps DEF Labels
<1>7. CASE Produce(t) /\ UNCHANGED downVars
  <2>1. Goto(t, "produce", "signal") /\ Stays
    BY <1>7 DEF Produce, downVars
  <2> QED
    BY <2>1, MoveKeeps DEF Labels
<1>8. CASE Abort
  BY <1>8, AbortKeeps
<1> QED
  BY <1>1, <1>2, <1>3, <1>4, <1>5, <1>6, <1>7, <1>8 DEF Moves

\* An input finds a worker for its message, and puts the message on its list.
LEMMA InputKeeps ==
  ASSUME Inv, ~exited, NEW p \in Inputs, NEW w \in Workers,
         FindWorker(p, w) \/ PutMessage(p, w)
  PROVE  Inv'
<1>1. ThreadTypes /\ MadeOnce /\ p \in Threads
  BY DEF Inv, SemaphoresFirst, Threads
<1>2. CASE FindWorker(p, w)
  <2>1. /\ tgt' = [tgt EXCEPT ![p] = w]
        /\ UNCHANGED <<pc, semid, exited, heap, sems, mi, cl, exits, signals, aborted, held, past>>
    BY <1>2 DEF FindWorker, vars
  <2>2. tgt' \in [Inputs -> Workers \cup {None}]
    BY <1>1, <2>1 DEF ThreadTypes
  <2>3. Callers' /\ MadeOnce'
    BY <1>1, <2>1 DEF ThreadTypes, Callers, MadeOnce
  <2> QED
    BY <1>1, <2>1, <2>2, <2>3, QuietKeeps DEF ThreadTypes
<1>3. CASE PutMessage(p, w)
  <2>1. /\ tgt' = [tgt EXCEPT ![p] = None] /\ Goto(p, "loop", "signal")
        /\ UNCHANGED <<semid, exited, heap, sems, mi, cl, exits, signals, aborted, held, past>>
    BY <1>3 DEF PutMessage, Receive
  <2>2. tgt' \in [Inputs -> Workers \cup {None}]
    BY <1>1, <2>1 DEF ThreadTypes
  <2>3. pc' \in [Threads -> Labels] /\ Callers' /\ MadeOnce'
    BY <1>1, <2>1, GotoKeeps DEF Labels
  <2> QED
    BY <1>1, <2>1, <2>2, <2>3, QuietKeeps DEF ThreadTypes
<1> QED
  BY <1>2, <1>3

-----------------------------------------------------------------------------
(***************************************************************************)
(* The steps of cleanup.                                                   *)
(***************************************************************************)

\* cleanup starts at an object, or finds nothing to do.
LEMMA FirstIsAnObject ==
  ASSUME HeapTypes, TablesInOrder, NEW ks \in SUBSET Kinds
  PROVE  FirstOf(ks).at \in {"destroy", "over"}
BY FirstOfTables DEF Over

\* x comes to an object or to the end: it has not removed a semaphore there.
LEMMA NothingRemovedYet ==
  ASSUME HeapTypes, NEW x \in Runners, NEW d, d.at \notin {"queues", "unlink"},
         cl' = [cl EXCEPT ![x] = d], NEW r, Removed(r)'
  PROVE  Removed(r)
<1>1. cl'[x] = d /\ \A y \in Runners \ {x} : cl'[y] = cl[y]
  BY DEF HeapTypes
<1> QED
  BY <1>1 DEF Removed

\* A thread that is not in cleanup, or the signal handler, begins it.
LEMMA BeginningKeeps ==
  ASSUME Inv, ~exited, ~misused, NEW x \in Runners, cl[x] = Idle, Begin(x),
         UNCHANGED <<semid, heap, sems, mi, tgt, aborted, misused, unready, foreign, exited>>,
         pc' \in [Threads -> Labels], Callers', MadeOnce',
         exits' \subseteq Threads, signals' \in 0 .. MaxSignals, held' \in BOOLEAN
  PROVE  Inv'
<1>1. HeapInv /\ HeapTypes /\ TablesInOrder
  BY DEF Inv, HeapInv
<1>2. linked' = linked
  BY DEF heap
<1>3. HeapInv'
  BY <1>1, BeginKeeps
<1>4. ThreadTypes'
  BY DEF Inv, ThreadTypes
<1>5. PICK d : d = FirstOf(Kinds)
  OBVIOUS
<1>6. d.at \notin {"queues", "unlink"} /\ cl' = [cl EXCEPT ![x] = d]
  BY <1>1, <1>5, FirstIsAnObject DEF Begin
<1>7. \A r \in Receivers : Removed(r)' => Removed(r)
  BY <1>1, <1>6, NothingRemovedYet
<1>8. SemaphoresFirst'
  BY <1>2, <1>7 DEF Inv, SemaphoresFirst
<1>9. ExitedClean'
  BY DEF ExitedClean
<1> QED
  BY <1>3, <1>4, <1>8, <1>9 DEF Inv

\* The signal handler begins a cleanup on the main thread.
LEMMA SignalArrivesKeeps ==
  ASSUME Inv, ~exited, ~misused, SignalArrives
  PROVE  Inv'
<1>1. /\ cl[Handler] = Idle /\ Begin(Handler) /\ signals < MaxSignals
      /\ signals' = signals + 1 /\ held' \in BOOLEAN
      /\ UNCHANGED <<pc, semid, heap, sems, mi, tgt, exits, aborted, misused, unready,
                     foreign, exited>>
  BY DEF SignalArrives, vars
<1>2. ThreadTypes /\ MadeOnce /\ HeapTypes
  BY DEF Inv, SemaphoresFirst, HeapInv
<1>3. Handler \in Runners /\ Handler \notin Threads /\ MaxSignals \in Nat
  BY ShutdownAssumption DEF Runners
<1>4. PICK d : d = FirstOf(Kinds)
  OBVIOUS
<1>5. cl' = [cl EXCEPT ![Handler] = d]
  BY <1>1, <1>4 DEF Begin
<1>6. \A t \in Threads : cl'[t] = cl[t]
  BY <1>2, <1>3, <1>5 DEF HeapTypes, Runners
<1>7. Callers' /\ MadeOnce'
  BY <1>1, <1>2, <1>6 DEF ThreadTypes, Callers, MadeOnce
<1>8. signals' \in 0 .. MaxSignals
  BY <1>1, <1>2, <1>3 DEF ThreadTypes
<1> QED
  BY <1>1, <1>2, <1>3, <1>7, <1>8, BeginningKeeps DEF ThreadTypes

\* EEXIT: a sender finds no semaphore and calls cleanup.
LEMMA SignalFindsNoneKeeps ==
  ASSUME Inv, ~exited, ~misused, NEW t \in Threads, SignalFindsNone(t)
  PROVE  Inv'
<1>1. /\ pc[t] = "signal" /\ pc' = [pc EXCEPT ![t] = "eexit"] /\ Begin(t)
      /\ UNCHANGED <<semid, heap, sems, mi, tgt, exits, signals, aborted, held, misused,
                     unready, foreign, exited>>
  BY DEF SignalFindsNone, Goto
<1>2. ThreadTypes /\ MadeOnce /\ HeapTypes
  BY DEF Inv, SemaphoresFirst, HeapInv
<1>3. t \in Runners /\ cl[t] = Idle
  BY <1>1, <1>2 DEF ThreadTypes, Callers, Runners
<1>4. /\ pc' \in [Threads -> Labels] /\ pc'[t] = "eexit"
      /\ \A u \in Threads \ {t} : pc'[u] = pc[u]
  BY <1>1, <1>2 DEF ThreadTypes, Labels
<1>5. PICK d : d = FirstOf(Kinds)
  OBVIOUS
<1>6. cl' = [cl EXCEPT ![t] = d]
  BY <1>1, <1>5 DEF Begin
<1>7. \A u \in Threads \ {t} : cl'[u] = cl[u]
  BY <1>2, <1>3, <1>6 DEF HeapTypes, Runners
<1>8. Callers'
  BY <1>2, <1>4, <1>7 DEF ThreadTypes, Callers
<1>9. MadeOnce'
  BY <1>1, <1>2, <1>4 DEF MadeOnce, Threads
<1> QED
  BY <1>1, <1>2, <1>3, <1>4, <1>8, <1>9, BeginningKeeps DEF ThreadTypes

\* exit: the first caller runs cleanup; with a second one the process may end.
LEMMA ExitKeeps ==
  ASSUME Inv, ~exited, ~misused, NEW t \in Threads, Exit(t)
  PROVE  Inv'
<1>1. /\ pc[t] = "exit" /\ cl[t] = Idle /\ t \notin exits /\ exits' = exits \cup {t}
      /\ UNCHANGED <<pc, semid, heap, sems, mi, tgt, signals, aborted, held, misused,
                     unready, foreign>>
  BY DEF Exit
<1>2. ThreadTypes /\ MadeOnce /\ HeapTypes
  BY DEF Inv, SemaphoresFirst, HeapInv
<1>3. MadeOnce' /\ exits' \subseteq Threads
  BY <1>1, <1>2 DEF MadeOnce, ThreadTypes
<1>4. CASE Begin(t) /\ UNCHANGED exited
  <2>1. PICK d : d = FirstOf(Kinds)
    OBVIOUS
  <2>2. cl' = [cl EXCEPT ![t] = d] /\ t \in Runners
    BY <1>4, <2>1 DEF Begin, Runners
  <2>3. \A u \in Threads \ {t} : cl'[u] = cl[u]
    BY <1>2, <2>2 DEF HeapTypes, Runners
  <2>4. Callers'
    BY <1>1, <1>2, <2>3 DEF ThreadTypes, Callers
  <2> QED
    BY <1>1, <1>2, <1>3, <1>4, <2>2, <2>4, BeginningKeeps DEF ThreadTypes
<1>5. CASE exits # {} /\ exited' \in BOOLEAN /\ UNCHANGED <<cl, overlap>>
  <2>1. Cardinality(exits') > 1
    <3>1. PICK u \in exits : TRUE
      BY <1>5
    <3>2. IsFiniteSet(Threads) /\ exits' \subseteq Threads /\ {t, u} \subseteq exits' /\ t # u
      BY <1>1, <1>3, <3>1, StartupAssumption
    <3>3. IsFiniteSet(exits')
      BY <3>2, FS_Subset
    <3>4. Cardinality({t}) = 1 /\ IsFiniteSet({t}) /\ u \notin {t}
      BY <3>2, FS_Singleton
    <3>5. Cardinality({t} \cup {u}) = 2
      BY <3>4, FS_AddElement
    <3>6. {t} \cup {u} \subseteq exits'
      BY <3>2
    <3>7. Cardinality({t} \cup {u}) <= Cardinality(exits')
      BY <3>3, <3>6, FS_Subset
    <3>8. Cardinality(exits') \in Nat
      BY <3>3, FS_CardinalityType
    <3> QED
      BY <3>5, <3>7, <3>8
  <2>2. Cardinality(exits') \in Nat
    <3>1. IsFiniteSet(exits')
      BY <1>3, StartupAssumption, FS_Subset
    <3> QED
      BY <3>1, FS_CardinalityType
  <2>3. HeapInv'
    BY <1>1, <1>5, HeapKept DEF Inv
  <2>4. Callers'
    BY <1>1, <1>2, <1>5 DEF ThreadTypes, Callers
  <2>5. ThreadTypes'
    BY <1>1, <1>2, <1>3, <1>5, <2>4 DEF ThreadTypes
  <2>6. linked' = linked /\ \A r \in Receivers : Removed(r)' <=> Removed(r)
    BY <1>1, <1>5 DEF heap, Removed
  <2>7. SemaphoresFirst'
    BY <1>1, <1>3, <2>6 DEF Inv, SemaphoresFirst
  <2>8. ExitedClean'
    BY <2>1, <2>2 DEF ExitedClean
  <2> QED
    BY <2>3, <2>5, <2>7, <2>8 DEF Inv
<1> QED
  BY <1>4, <1>5 DEF Exit

\* The parts that a step of cleanup hardly touches
LEMMA CleaningKeeps ==
  ASSUME Inv, ~exited, NEW x \in Runners, NEW d, cl[x] # Idle, cl' = [cl EXCEPT ![x] = d],
         UNCHANGED <<vars, mi, tgt, exits, signals, aborted, held>>,
         sems' \subseteq Receivers, unready' \subseteq Receivers, foreign' \in BOOLEAN
  PROVE  ThreadTypes' /\ MadeOnce' /\ ExitedClean'
<1>1. ThreadTypes /\ MadeOnce /\ HeapTypes
  BY DEF Inv, SemaphoresFirst, HeapInv
<1>2. UNCHANGED <<pc, semid, exited>>
  BY DEF vars
<1>3. \A y \in Runners \ {x} : cl'[y] = cl[y]
  BY <1>1 DEF HeapTypes
<1>4. Callers'
  BY <1>1, <1>2, <1>3 DEF ThreadTypes, Callers, Runners
<1>5. MadeOnce'
  BY <1>1, <1>2 DEF MadeOnce
<1>6. ExitedClean'
  BY <1>2 DEF ExitedClean
<1> QED
  BY <1>1, <1>2, <1>4, <1>5, <1>6 DEF ThreadTypes

\* The destroy functions remove the semaphore of the object at hand and, if its
\* id is stored, no other.
LEMMA DestroyKeepsInv ==
  ASSUME Inv, ~exited, ~misused, NEW x \in Runners, Destroy(x)
  PROVE  Inv'
<1>1. PICK o : o = cl[x].obj
  OBVIOUS
<1>2. PICK d : d = [cl[x] EXCEPT !.at = IF o \in Workers THEN "queues" ELSE "unlink"]
  OBVIOUS
<1>3. /\ cl[x].at = "destroy" /\ cl' = [cl EXCEPT ![x] = d]
      /\ unready' = IF o \in Receivers /\ semid[o] # o THEN unready \cup {o} ELSE unready
      /\ IF o \in Receivers
           THEN /\ foreign' = (foreign \/ semid[o] = Wild)
                /\ \E s \in IF semid[o] = Wild THEN sems \cup {Wild} ELSE {semid[o]} :
                     sems' = sems \ {s}
           ELSE UNCHANGED <<sems, foreign>>
      /\ UNCHANGED <<vars, mi, tgt, exits, signals, aborted, held>>
      /\ UNCHANGED <<semid, linked>>
  BY <1>1, <1>2 DEF Destroy, heap, vars
<1>4. ThreadTypes /\ HeapTypes /\ SemaphoresFirst
  BY DEF Inv, HeapInv
<1>5. HeapInv'
  BY DestroyKeeps DEF Inv
<1>6. /\ sems' \subseteq Receivers /\ sems' \subseteq sems
      /\ unready' \subseteq Receivers /\ foreign' \in BOOLEAN
  BY <1>3, <1>4 DEF ThreadTypes
<1>7. ThreadTypes' /\ MadeOnce' /\ ExitedClean'
  <2>1. cl[x] # Idle
    BY <1>3 DEF Idle
  <2> QED
    BY <1>3, <1>6, <2>1, CleaningKeeps
<1>8. ASSUME unready' = {}
      PROVE  /\ ~foreign'
             /\ \A r \in Receivers :
                  r \notin linked' \/ Removed(r)' => semid'[r] = r /\ r \notin sems'
  <2>1. unready = {} /\ (o \in Receivers => semid[o] = o)
    BY <1>3, <1>8
  <2>2. o \in Receivers => semid[o] # Wild /\ sems' = sems \ {o}
    BY <1>3, <2>1, StartupAssumption
  <2>3. ~foreign'
    BY <1>3, <1>4, <2>1, <2>2 DEF SemaphoresFirst
  <2>4. cl'[x] = d /\ d.obj = o /\ \A y \in Runners \ {x} : cl'[y] = cl[y]
    BY <1>1, <1>2, <1>3, <1>4 DEF HeapTypes, Spots
  <2>5. \A r : Removed(r)' => Removed(r) \/ r = o
    BY <2>4 DEF Removed
  <2>6. ASSUME NEW r \in Receivers, r \notin linked' \/ Removed(r)'
        PROVE  semid'[r] = r /\ r \notin sems'
    <3>1. CASE r = o
      BY <1>3, <2>1, <2>2, <3>1
    <3>2. CASE r \notin linked \/ Removed(r)
      BY <1>3, <1>4, <1>6, <2>1, <3>2 DEF SemaphoresFirst
    <3> QED
      BY <1>3, <2>5, <2>6, <3>1, <3>2
  <2> QED
    BY <2>3, <2>6
<1> QED
  BY <1>5, <1>7, <1>8 DEF Inv, SemaphoresFirst

\* The steps of cleanup that come after that
LEMMA AfterDestroyKeeps ==
  ASSUME Inv, ~exited, ~misused, NEW x \in Runners, NEW d, HeapInv',
         cl[x] # Idle, cl' = [cl EXCEPT ![x] = d],
         UNCHANGED <<vars, sems, mi, tgt, exits, signals, aborted, held, unready, foreign>>,
         \A r : Removed(r)' => Removed(r),
         \A r \in linked \ linked' : Removed(r)
  PROVE  Inv'
<1>1. UNCHANGED <<semid, sems, unready, foreign>>
  BY DEF vars
<1>2. ThreadTypes' /\ MadeOnce' /\ ExitedClean'
  BY CleaningKeeps DEF Inv, ThreadTypes
<1>3. SemaphoresFirst'
  BY <1>1, <1>2 DEF Inv, SemaphoresFirst
<1> QED
  BY <1>2, <1>3 DEF Inv

\* A cleanup keeps the whole invariant.
LEMMA CleanupKeeps ==
  ASSUME Inv, ~exited, ~misused, NEW x \in Runners, Cleanup(x)
  PROVE  Inv'
<1>1. HeapInv' /\ HeapInv /\ HeapTypes /\ TablesInOrder
  BY CleanupKeepsHeap DEF Inv, HeapInv
<1>2. CASE Destroy(x)
  BY <1>2, DestroyKeepsInv
<1>3. CASE FreeQueues(x)
  <2>1. PICK d : d = [cl[x] EXCEPT !.at = "unlink"]
    OBVIOUS
  <2>2. /\ cl[x].at = "queues" /\ cl' = [cl EXCEPT ![x] = d]
        /\ UNCHANGED <<vars, linked, sems, mi, tgt, exits, signals, aborted, held, unready,
                       foreign>>
    BY <1>3, <2>1 DEF FreeQueues
  <2>3. cl'[x] = d /\ d.obj = cl[x].obj /\ \A y \in Runners \ {x} : cl'[y] = cl[y]
    BY <1>1, <2>1, <2>2 DEF HeapTypes, Spots
  <2>4. \A r : Removed(r)' => Removed(r)
    BY <2>2, <2>3 DEF Removed
  <2>5. cl[x] # Idle /\ linked' = linked
    BY <2>2 DEF Idle
  <2> QED
    BY <1>1, <2>2, <2>4, <2>5, AfterDestroyKeeps
<1>4. CASE Unlink(x)
  <2>1. PICK d : d = [cl[x] EXCEPT !.at = "free"]
    OBVIOUS
  <2>2. /\ cl[x].at = "unlink" /\ cl' = [cl EXCEPT ![x] = d] /\ linked' = linked \ {cl[x].obj}
        /\ UNCHANGED <<vars, sems, mi, tgt, exits, signals, aborted, held, unready, foreign>>
    BY <1>4, <2>1 DEF Unlink
  <2>3. d.at = "free"
    BY <1>1, <2>1 DEF HeapTypes, Spots
  <2>4. \A r : Removed(r)' => Removed(r)
    BY <1>1, <2>2, <2>3, NothingRemovedYet
  <2>5. \A r \in linked \ linked' : Removed(r)
    BY <2>2 DEF Removed
  <2>6. cl[x] # Idle
    BY <2>2 DEF Idle
  <2> QED
    BY <1>1, <2>2, <2>4, <2>5, <2>6, AfterDestroyKeeps
<1>5. CASE Free(x)
  <2>1. PICK d : d = IF cl[x].nxt # None THEN At(cl[x].nxt)
                     ELSE FirstOf(TablesAfter(KindOf(cl[x].obj)))
    OBVIOUS
  <2>2. /\ cl[x].at = "free" /\ cl' = [cl EXCEPT ![x] = d]
        /\ UNCHANGED <<vars, linked, sems, mi, tgt, exits, signals, aborted, held, unready,
                       foreign>>
    BY <1>5, <2>1 DEF Free
  <2>3. d.at \notin {"queues", "unlink"}
    <3>1. TablesAfter(KindOf(cl[x].obj)) \in SUBSET Kinds
      BY DEF TablesAfter
    <3>2. FirstOf(TablesAfter(KindOf(cl[x].obj))).at \in {"destroy", "over"}
      BY <1>1, <3>1, FirstIsAnObject
    <3>3. \A o : At(o).at = "destroy"
      BY DEF At
    <3> QED
      BY <2>1, <3>2, <3>3
  <2>4. \A r : Removed(r)' => Removed(r)
    BY <1>1, <2>2, <2>3, NothingRemovedYet
  <2>5. cl[x] # Idle /\ linked' = linked
    BY <2>2 DEF Idle
  <2> QED
    BY <1>1, <2>2, <2>4, <2>5, AfterDestroyKeeps
<1>6. CASE Return(x)
  <2>1. PICK d : d = Idle
    OBVIOUS
  <2>2. /\ cl[x] = Over /\ cl' = [cl EXCEPT ![x] = d]
        /\ pc' = IF x # Handler /\ pc[x] = "eexit" THEN [pc EXCEPT ![x] = "exit"] ELSE pc
        /\ exited' = (x # Handler /\ pc[x] = "exit")
        /\ UNCHANGED <<semid, linked, sems, mi, tgt, exits, signals, aborted, held, unready,
                       foreign, misused>>
    BY <1>6, <2>1 DEF Return, heap, past
  <2>3. ThreadTypes /\ MadeOnce /\ SemaphoresFirst
    BY DEF Inv, SemaphoresFirst
  <2>4. cl'[x] = Idle /\ \A y \in Runners \ {x} : cl'[y] = cl[y]
    BY <1>1, <2>1, <2>2 DEF HeapTypes
  <2>5. /\ pc' \in [Threads -> Labels]
        /\ \A t \in Threads :
             pc'[t] = pc[t] \/ (pc[t] = "eexit" /\ pc'[t] = "exit")
    <3>1. CASE pc' = pc
      BY <2>3, <3>1 DEF ThreadTypes
    <3>2. CASE pc' # pc
      <4>1. x # Handler /\ pc[x] = "eexit" /\ pc' = [pc EXCEPT ![x] = "exit"]
        BY <2>2, <3>2
      <4>2. x \in Threads
        BY <4>1 DEF Runners
      <4> QED
        BY <2>3, <4>1, <4>2 DEF ThreadTypes, Labels
    <3> QED
      BY <3>1, <3>2
  <2>6. Callers'
    BY <2>3, <2>4, <2>5 DEF ThreadTypes, Callers, Runners
  <2>7. MadeOnce'
    BY <2>2, <2>3, <2>5 DEF MadeOnce, Threads
  <2>8. exited' \in BOOLEAN
    BY <2>2
  <2>9. ThreadTypes'
    BY <2>2, <2>3, <2>5, <2>6, <2>8 DEF ThreadTypes
  <2>10. \A r : Removed(r)' => Removed(r)
    BY <1>1, <2>1, <2>2, NothingRemovedYet DEF Idle
  <2>11. SemaphoresFirst'
    BY <2>2, <2>3, <2>7, <2>10 DEF SemaphoresFirst
  <2>12. linked = {}
    BY <2>2 DEF Inv, HeapInv, Progress, Thorough, Over
  <2>13. ExitedClean'
    BY <2>2, <2>12 DEF ExitedClean
  <2> QED
    BY <1>1, <2>9, <2>11, <2>13 DEF Inv
<1> QED
  BY <1>2, <1>3, <1>4, <1>5, <1>6 DEF Cleanup

-----------------------------------------------------------------------------
(***************************************************************************)
(* The theorems.                                                           *)
(***************************************************************************)

\* Nothing is freed yet when main has built its tables, and no cleanup runs.
LEMMA InitInv == ShutdownInit => Inv
<1> SUFFICES ASSUME ShutdownInit PROVE Inv
  OBVIOUS
<1>1. None \notin Threads /\ MaxSignals \in Nat
  BY ShutdownAssumption
<1>2. /\ linked = Threads /\ freed = {} /\ sems = {} /\ exits = {} /\ unready = {}
      /\ cl = [x \in Runners |-> Idle] /\ signals = 0
      /\ mi = [at |-> "begin", obj |-> None, nxt |-> None]
      /\ tgt = [p \in Inputs |-> None]
      /\ pc = [t \in Threads |-> "new"]
      /\ semid = [r \in Receivers |-> IF r \in Workers THEN None ELSE Wild]
      /\ ~aborted /\ ~held /\ ~overlap /\ ~misused /\ ~foreign /\ ~exited
  BY DEF ShutdownInit, Init
<1>3. Idle \in Spots /\ ~Busy(Idle) /\ Idle.at = "no"
  BY DEF Idle, Spots, Points, Busy
<1>4. \A x \in Runners : cl[x] = Idle
  BY <1>2
<1>5. HeapTypes
  <2>1. ASSUME NEW k \in Kinds PROVE head[k] \in Threads \cup {None}
    <3>1. head[k] = IF Order[k] = << >> THEN None ELSE Order[k][1]
      BY DEF ShutdownInit
    <3>2. Order[k] \in Seq(Threads)
      BY ShutdownAssumption
    <3>3. Order[k] # << >> => Order[k][1] \in Threads
      BY <3>2
    <3> QED
      BY <3>1, <3>3
  <2>2. ASSUME NEW o \in Threads PROVE succ[o] \in Threads \cup {None}
    <3> DEFINE s == Order[KindOf(o)]
    <3>1. succ[o] = IF Place(o) < Len(s) THEN s[Place(o) + 1] ELSE None
      BY <2>2 DEF ShutdownInit
    <3>2. s \in Seq(Threads) /\ Len(s) \in Nat /\ Place(o) \in 1 .. Len(s)
      BY Places, ShutdownAssumption
    <3>3. Place(o) < Len(s) => s[Place(o) + 1] \in Threads
      BY <3>2
    <3> QED
      BY <3>1, <3>3
  <2>3. head \in [Kinds -> Threads \cup {None}] /\ succ \in [Threads -> Threads \cup {None}]
    BY <2>1, <2>2 DEF ShutdownInit
  <2>4. \A x \in Runners : ~Busy(cl[x]) /\ cl[x].at = "no"
    BY <1>3, <1>4
  <2>5. cl \in [Runners -> Spots]
    BY <1>2, <1>3
  <2>6. overlap \in BOOLEAN /\ misused \in BOOLEAN
    BY DEF ShutdownInit
  <2> QED
    BY <1>2, <2>3, <2>4, <2>5, <2>6 DEF HeapTypes
<1>6. TablesInOrder
  BY InitTables
<1>7. FreedLast
  BY <1>2, <1>3, <1>4 DEF FreedLast
<1>8. Undisturbed
  BY <1>2, <1>3, <1>4 DEF Undisturbed, Steady
<1>9. Progress
  BY <1>3, <1>4 DEF Progress, Thorough
<1>10. ThreadTypes
  <2>1. pc \in [Threads -> Labels] /\ semid \in [Receivers -> Ids]
    BY <1>2 DEF Labels, Ids
  <2>2. Callers
    BY <1>4 DEF Callers, Runners
  <2>3. tgt \in [Inputs -> Workers \cup {None}] /\ signals \in 0 .. MaxSignals
    BY <1>1, <1>2
  <2>4. aborted \in BOOLEAN /\ held \in BOOLEAN /\ foreign \in BOOLEAN /\ exited \in BOOLEAN
    BY DEF ShutdownInit, Init
  <2> QED
    BY <1>2, <2>1, <2>2, <2>3, <2>4 DEF ThreadTypes
<1>11. SemaphoresFirst
  <2>1. MadeOnce
    <3>1. \A r \in Receivers : semid[r] # r
      BY <1>2, StartupAssumption
    <3> QED
      BY <3>1 DEF MadeOnce
  <2>2. \A r \in Receivers : r \in linked /\ ~Removed(r)
    BY <1>2, <1>3, <1>4 DEF Removed, Threads
  <2> QED
    BY <1>2, <2>1, <2>2 DEF SemaphoresFirst
<1>12. ExitedClean
  BY <1>2 DEF ExitedClean
<1> QED
  BY <1>5, <1>6, <1>7, <1>8, <1>9, <1>10, <1>11, <1>12 DEF Inv, HeapInv

\* Every step of the process keeps the invariant.
LEMMA NextKeeps == Inv /\ [ShutdownNext]_allVars => Inv'
<1> SUFFICES ASSUME Inv, [ShutdownNext]_allVars PROVE Inv'
  OBVIOUS
<1>1. CASE UNCHANGED allVars
  <2>1. UNCHANGED <<pc, semid, exited, heap, sems, mi, cl, tgt, exits, signals, aborted, held, past>>
    BY <1>1 DEF allVars, vars, downVars
  <2>2. UNCHANGED <<linked, overlap, misused, unready, foreign>>
    BY <2>1 DEF heap, past
  <2>3. HeapInv'
    BY <2>1, <2>2, HeapKept DEF Inv
  <2>4. ThreadTypes'
    BY <2>1, <2>2 DEF Inv, ThreadTypes, Callers
  <2>5. SemaphoresFirst'
    BY <2>1, <2>2 DEF Inv, SemaphoresFirst, MadeOnce, Removed
  <2>6. ExitedClean'
    BY <2>1, <2>2 DEF Inv, ExitedClean
  <2> QED
    BY <2>3, <2>4, <2>5, <2>6 DEF Inv
<1>2. CASE ShutdownNext
  <2>1. ~exited /\ ~misused
    BY <1>2 DEF ShutdownNext, Alive
  <2>2. CASE SignalArrives
    BY <2>1, <2>2, SignalArrivesKeeps
  <2>3. CASE MainStarts
    BY <2>1, <2>3, MainStartsKeeps
  <2>4. CASE Fault
    BY <2>1, <2>4, AbortKeeps DEF Fault
  <2>5. ASSUME NEW x \in Runners, Cleanup(x) PROVE Inv'
    BY <2>1, <2>5, CleanupKeeps
  <2>6. ASSUME NEW t \in Threads, ThreadStep(t) PROVE Inv'
    <3>1. CASE SignalFindsNone(t)
      BY <2>1, <3>1, SignalFindsNoneKeeps
    <3>2. CASE t \in Receivers /\ MakeSemaphore(t)
      BY <2>1, <3>2, MakeSemaphoreKeeps
    <3>3. CASE Exit(t)
      BY <2>1, <3>3, ExitKeeps
    <3>4. CASE Moves(t)
      BY <2>1, <3>4, ThreadKeeps
    <3>5. \/ SignalFindsNone(t)
          \/ t \in Receivers /\ MakeSemaphore(t)
          \/ Exit(t)
          \/ Moves(t)
      BY <2>6, Zenon DEF ThreadStep, Moves
    <3> QED
      BY <3>1, <3>2, <3>3, <3>4, <3>5
  <2>7. ASSUME NEW p \in Inputs, NEW w \in Workers, FindWorker(p, w) \/ PutMessage(p, w)
        PROVE  Inv'
    BY <2>1, <2>7, InputKeeps
  <2> QED
    BY <1>2, <2>2, <2>3, <2>4, <2>5, <2>6, <2>7 DEF ShutdownNext
<1> QED
  BY <1>1, <1>2

\* The invariant holds however signals, EEXIT and exit interleave with the
\* threads.
THEOREM Invariance == ShutdownSpec => []Inv
BY InitInv, NextKeeps, PTL DEF ShutdownSpec

\* Every variable has its type: what is freed was allocated, and a cleanup is at
\* one of its steps.
THEOREM TypeCorrect == ShutdownSpec => []ShutdownTypeOK
<1>1. Inv => ShutdownTypeOK
  <2> SUFFICES ASSUME Inv PROVE ShutdownTypeOK
    OBVIOUS
  <2>1. HeapTypes /\ ThreadTypes
    BY DEF Inv, HeapInv
  <2>2. \A x \in Runners : cl[x].at \in {"no", "over", "destroy", "queues", "unlink", "free"}
    BY <2>1 DEF HeapTypes, Spots, Points
  <2>3. \A b \in {aborted, held, overlap, misused, foreign, exited} : b \in BOOLEAN
    BY <2>1 DEF HeapTypes, ThreadTypes
  <2> QED
    BY <2>1, <2>2, <2>3 DEF ShutdownTypeOK, HeapTypes, ThreadTypes, Labels
<1> QED
  BY <1>1, Invariance, PTL

\* cleanup may run in the signal handler, again in EEXIT and again in exit: as
\* long as it does not run twice at a time, it uses and frees nothing that an
\* earlier run has freed.
THEOREM CleanupRepeats == ShutdownSpec => []CleanupTwiceIsSafe
<1>1. Inv => CleanupTwiceIsSafe
  BY DEF Inv, HeapInv, FreedLast, Undisturbed, CleanupTwiceIsSafe
<1> QED
  BY <1>1, Invariance, PTL

\* A process that ends in an exit leaves no semaphore of its receivers behind and
\* has removed none of another process, provided that all had stored their ids
\* when cleanup came to them.
THEOREM NoSemaphoreLeft == ShutdownSpec => []SemaphoresReleased
<1>1. Inv => SemaphoresReleased
  <2> SUFFICES ASSUME Inv, exited, ~aborted, Cardinality(exits) <= 1, unready = {}
               PROVE  sems = {} /\ ~foreign
    BY DEF SemaphoresReleased
  <2>1. linked = {}
    BY DEF Inv, ExitedClean
  <2> QED
    BY <2>1 DEF Inv, SemaphoresFirst, ThreadTypes
<1> QED
  BY <1>1, Invariance, PTL

-----------------------------------------------------------------------------
(***************************************************************************)
(* Until the first signal or EEXIT the process comes up as Startup says.   *)
(* Startup lets main start any thread of a kind once the kinds before it   *)
(* are started; here main walks over its hash tables, and the invariant    *)
(* says what its walk has behind it.                                       *)
(***************************************************************************)

\* Nothing has been taken down.
Intact ==
  /\ linked = Threads /\ freed = {}
  /\ \A x \in Runners : cl[x] = Idle
  /\ \A r \in Receivers : pc[r] \notin {"new", "semget"} => r \in sems

Started(k) == \A p \in Threads : KindOf(p) = k => pc[p] # "new"

\* Main has started what is before the object at hand, and the kinds before its
\* table.
Walk ==
  /\ mi.at \in {"begin", "inputs"} => mi.obj = None
  /\ mi.at \in {"workers", "outputs"} /\ mi.obj = None => Started(mi.at)
  /\ mi.at \in {"workers", "outputs"} /\ mi.obj # None =>
       /\ KindOf(mi.obj) = mi.at
       /\ NextIs(mi.obj, mi.nxt)
       /\ \A p \in Threads : KindOf(p) = mi.at /\ pc[p] = "new" => ~Behind(mi.obj, p)
  /\ mi.at \in {"outputs", "inputs"} => Started("workers")
  /\ mi.at = "inputs" => Started("outputs")

ComingUp == Up => Intact /\ Walk

\* A step that is none of main's walk
LEMMA WalkKept ==
  ASSUME Walk, UNCHANGED <<mi, linked>>,
         \A p \in Threads : pc'[p] = "new" => pc[p] = "new"
  PROVE  Walk'
<1>1. \A k : Started(k) => Started(k)'
  BY DEF Started
<1>2. \A o, q : NextIs(o, q)' <=> NextIs(o, q)
  BY DEF NextIs
<1> QED
  BY <1>1, <1>2 DEF Walk

\* A thread goes from one point of its code to another, and nothing is taken down.
LEMMA GotoUp ==
  ASSUME ThreadTypes, ComingUp, Up', NEW t \in Threads, NEW from, NEW label,
         Goto(t, from, label), from \notin {"eexit", "exit"}, label # "new",
         UNCHANGED <<linked, freed, cl, signals>>, sems \subseteq sems',
         t \in Receivers /\ from \in {"new", "semget"} => label = "semget" \/ t \in sems'
  PROVE  /\ Up /\ Intact' /\ Walk
         /\ \A p \in Threads : pc'[p] = "new" => pc[p] = "new" /\ p # t
<1>1. /\ pc[t] = from /\ pc'[t] = label
      /\ \A u \in Threads : u # t => pc'[u] = pc[u]
  BY DEF Goto, ThreadTypes
<1>2. Up
  BY <1>1 DEF Up
<1>3. Intact /\ Walk
  BY <1>2 DEF ComingUp
<1>4. \A r \in Receivers : pc'[r] \notin {"new", "semget"} => r \in sems'
  <2> SUFFICES ASSUME NEW r \in Receivers, pc'[r] \notin {"new", "semget"}
               PROVE  r \in sems'
    OBVIOUS
  <2>1. r \in Threads
    BY DEF Threads
  <2>2. CASE r = t /\ from \in {"new", "semget"}
    BY <1>1, <2>2
  <2>3. CASE r = t /\ from \notin {"new", "semget"}
    BY <1>1, <1>3, <2>3 DEF Intact
  <2>4. CASE r # t
    BY <1>1, <1>3, <2>1, <2>4 DEF Intact
  <2> QED
    BY <2>2, <2>3, <2>4
<1>5. Intact'
  BY <1>3, <1>4 DEF Intact
<1> QED
  BY <1>1, <1>2, <1>3, <1>5

\* A step of main's walk is a start of Startup's, or no step of it.
LEMMA MainComesUp ==
  ASSUME Inv, ComingUp, Up', ~exited, MainStarts
  PROVE  Up /\ Intact' /\ Walk' /\ (Next \/ UNCHANGED vars)
<1>1. ThreadTypes /\ HeapTypes /\ TablesInOrder /\ None \notin Threads
  BY ShutdownAssumption DEF Inv, HeapInv
<1>2. /\ \A o \in Workers : KindOf(o) = "workers" /\ o \in Receivers /\ o \in Threads
      /\ \A o \in Outputs : KindOf(o) = "outputs" /\ o \in Receivers /\ o \in Threads
      /\ \A o \in Inputs : KindOf(o) = "inputs" /\ o \notin Receivers /\ o \in Threads
      /\ \A o \in Threads : /\ KindOf(o) = "workers" => o \in Workers
                            /\ KindOf(o) = "outputs" => o \in Outputs
  BY StartupAssumption DEF KindOf, Receivers, Threads
<1>3. NextInput \in Inputs
  BY ShutdownAssumption DEF NextInput
<1>4. ASSUME NEW o \in Threads \cup {None}, NEW k \in Kinds
      PROVE  /\ [At(o) EXCEPT !.at = k].at = k /\ [At(o) EXCEPT !.at = k].obj = o
             /\ o # None => [At(o) EXCEPT !.at = k].nxt = succ[o]
  BY DEF At
<1>5. CASE MainStartsReceiver
  <2> DEFINE o == mi.obj
             n == mi.nxt
  <2>1. /\ o # None /\ o \in Threads /\ n \in Threads \cup {None}
        /\ Goto(o, "new", "semget") /\ mi' = [At(n) EXCEPT !.at = mi.at]
        /\ UNCHANGED <<semid, sem, full, sid, msgs, reset, early, exited, heap, sems, cl, signals>>
    BY <1>1, <1>5 DEF MainStartsReceiver, ThreadTypes
  <2>2. /\ Up /\ Intact' /\ Walk
        /\ \A p \in Threads : pc'[p] = "new" => pc[p] = "new" /\ p # o
    BY <1>1, <2>1, GotoUp DEF heap
  <2>3. mi.at \in {"workers", "outputs"}
    BY <1>1, <2>1, <2>2 DEF Walk, ThreadTypes
  <2>4. /\ KindOf(o) = mi.at /\ NextIs(o, n)
        /\ \A p \in Threads : KindOf(p) = mi.at /\ pc[p] = "new" => ~Behind(o, p)
    BY <2>1, <2>2, <2>3 DEF Walk
  <2>5. Next
    <3>1. o \in Outputs => \A w \in Workers : pc[w] # "new"
      BY <1>2, <2>2, <2>4 DEF Walk, Started
    <3>2. o \notin Inputs
      BY <1>2, <2>3, <2>4
    <3>3. Start(o)
      BY <2>1, <3>1, <3>2 DEF Start
    <3> QED
      BY <2>1, <3>3 DEF Next, Step
  <2>6. mi'.at = mi.at /\ mi'.obj = n /\ (n # None => mi'.nxt = succ[n])
    BY <1>4, <2>1, <2>3 DEF Kinds
  <2>7. linked' = linked /\ linked = Threads
    BY <2>1, <2>2 DEF heap, Intact
  <2>8. ASSUME n = None, NEW p \in Threads, KindOf(p) = mi.at
        PROVE  pc'[p] # "new"
    <3> SUFFICES ASSUME pc'[p] = "new" PROVE FALSE
      OBVIOUS
    <3>1. ~Behind(p, o)
      BY <2>4, <2>7, <2>8 DEF NextIs
    <3> QED
      BY <2>1, <2>2, <2>4, <2>8, <3>1, BehindOrders
  <2>9. ASSUME n # None
        PROVE  /\ KindOf(n) = mi.at
               /\ NextIs(n, succ[n])
               /\ \A p \in Threads : KindOf(p) = mi.at /\ pc'[p] = "new" => ~Behind(n, p)
    <3>1. /\ n \in Threads /\ Behind(n, o)
          /\ \A p \in Threads : Behind(p, o) => ~Behind(n, p)
      BY <2>4, <2>7, <2>9 DEF NextIs
    <3>2. NextIs(n, succ[n])
      BY <1>1, <2>7, <3>1 DEF TablesInOrder
    <3>3. \A p \in Threads : KindOf(p) = mi.at /\ pc'[p] = "new" => Behind(p, o)
      BY <2>1, <2>2, <2>4, BehindOrders
    <3>4. KindOf(n) = mi.at
      BY <2>4, <3>1 DEF Behind
    <3> QED
      BY <3>1, <3>2, <3>3, <3>4
  <2>10. Started("workers") => Started("workers")'
    BY <2>2 DEF Started
  <2>11. \A q, r : NextIs(q, r)' <=> NextIs(q, r)
    BY <2>7 DEF NextIs
  <2>12. Walk'
    <3>1. CASE n = None
      <4>1. mi.at = "workers" => Started("workers")'
        BY <2>8, <3>1 DEF Started
      <4>2. mi.at = "outputs" => Started("outputs")'
        BY <2>8, <3>1 DEF Started
      <4> QED
        BY <2>2, <2>3, <2>6, <2>10, <3>1, <4>1, <4>2 DEF Walk
    <3>2. CASE n # None
      BY <2>2, <2>3, <2>6, <2>9, <2>10, <2>11, <3>2 DEF Walk
    <3> QED
      BY <3>1, <3>2
  <2> QED
    BY <2>2, <2>5, <2>12
<1>6. CASE MainNextTable
  <2>1. /\ mi.obj = None /\ mi.at # "inputs"
        /\ UNCHANGED <<vars, heap, sems, cl, signals>>
    BY <1>6 DEF MainNextTable
  <2>2. Up /\ Intact /\ Walk
    BY <2>1 DEF Up, ComingUp, vars
  <2>3. Intact' /\ UNCHANGED <<pc, head, succ, linked>>
    BY <2>1, <2>2 DEF Intact, vars, heap
  <2>4. ASSUME NEW k \in {"workers", "outputs"}, mi' = [At(head[k]) EXCEPT !.at = k],
               k = "outputs" => Started("workers")
        PROVE  Walk'
    <3> DEFINE h == head[k]
    <3>1. h \in Threads \cup {None} /\ HeadIs(k, h) /\ k \in Kinds /\ linked = Threads
      BY <1>1, <2>2 DEF HeapTypes, TablesInOrder, Kinds, Intact
    <3>2. mi'.at = k /\ mi'.obj = h /\ (h # None => mi'.nxt = succ[h])
      BY <1>4, <2>4, <3>1
    <3>3. \A l : Started(l)' <=> Started(l)
      BY <2>3 DEF Started
    <3>4. CASE h = None
      <4>1. Started(k)
        BY <3>1, <3>4 DEF HeadIs, Started
      <4> QED
        BY <2>4, <3>2, <3>3, <3>4, <4>1 DEF Walk
    <3>5. CASE h # None
      <4>1. KindOf(h) = k /\ h \in Threads /\ \A p \in Threads : ~Behind(h, p)
        BY <3>1, <3>5 DEF HeadIs
      <4>2. NextIs(h, succ[h])'
        BY <1>1, <2>3, <3>1, <4>1 DEF TablesInOrder, NextIs
      <4> QED
        BY <2>3, <2>4, <3>2, <3>3, <3>5, <4>1, <4>2 DEF Walk
    <3> QED
      BY <3>4, <3>5
  <2>5. mi.at = "begin" => Walk'
    BY <1>6, <2>4 DEF MainNextTable
  <2>6. mi.at = "workers" => Walk'
    BY <1>6, <2>1, <2>2, <2>4 DEF MainNextTable, Walk
  <2>7. ASSUME mi.at = "outputs" PROVE Walk'
    <3>1. mi' = [mi EXCEPT !.at = "inputs"]
      BY <1>6, <2>7 DEF MainNextTable
    <3>2. mi'.at = "inputs" /\ mi'.obj = None
      BY <1>1, <2>1, <3>1 DEF ThreadTypes
    <3>3. Started("workers")' /\ Started("outputs")'
      BY <2>1, <2>2, <2>3, <2>7 DEF Walk, Started
    <3> QED
      BY <2>2, <2>3, <3>2, <3>3, <2>1 DEF Walk
  <2>8. Walk'
    BY <1>1, <2>1, <2>5, <2>6, <2>7 DEF ThreadTypes
  <2> QED
    BY <2>1, <2>2, <2>3, <2>8
<1>7. CASE MainStartsInput
  <2> DEFINE p == NextInput
  <2>1. /\ mi.at = "inputs" /\ Goto(p, "new", "barrier") /\ p \in Threads
        /\ UNCHANGED <<semid, sem, full, sid, msgs, reset, early, exited, heap, sems, mi, cl, signals>>
    BY <1>2, <1>3, <1>7 DEF MainStartsInput, downVars
  <2>2. /\ Up /\ Intact' /\ Walk
        /\ \A q \in Threads : pc'[q] = "new" => pc[q] = "new"
    BY <1>1, <1>2, <1>3, <2>1, GotoUp DEF heap
  <2>3. Walk'
    BY <2>1, <2>2, WalkKept DEF heap
  <2>4. \A r \in Receivers : pc[r] # "new"
    BY <1>2, <2>1, <2>2 DEF Walk, Started, Receivers
  <2>5. Start(p)
    BY <1>2, <1>3, <2>1, <2>4 DEF Start, Receivers
  <2> QED
    BY <2>1, <2>2, <2>3, <2>5 DEF Next, Step
<1>8. CASE MainFindsNoInput
  <2>1. UNCHANGED <<pc, signals>> /\ NextInput \notin linked
    BY <1>8 DEF MainFindsNoInput, Abort
  <2>2. Intact
    BY <2>1 DEF Up, ComingUp
  <2> QED
    BY <1>2, <1>3, <2>1, <2>2 DEF Intact
<1> QED
  BY <1>5, <1>6, <1>7, <1>8 DEF MainStarts

\* A thread's step is one of Startup's, unless a signal or EEXIT has come.
LEMMA ThreadComesUp ==
  ASSUME Inv, ComingUp, Up', ~exited, NEW t \in Threads, ThreadStep(t)
  PROVE  Up /\ Intact' /\ Walk' /\ (Next \/ UNCHANGED vars)
<1>1. ThreadTypes
  BY DEF Inv
<1>2. ASSUME UNCHANGED downVars
      PROVE  UNCHANGED <<linked, freed, cl, signals, sems, mi>>
  BY <1>2 DEF downVars, heap
<1>3. ASSUME NEW from, NEW label, Goto(t, from, label),
             from \in {"barrier", "signal", "loop", "take", "produce"},
             label \in {"loop", "take", "produce", "signal"},
             UNCHANGED downVars, Step(t)
      PROVE  Up /\ Intact' /\ Walk' /\ (Next \/ UNCHANGED vars)
  <2>1. /\ Up /\ Intact' /\ Walk
        /\ \A p \in Threads : pc'[p] = "new" => pc[p] = "new" /\ p # t
    BY <1>1, <1>2, <1>3, GotoUp
  <2>2. Walk'
    BY <1>2, <1>3, <2>1, WalkKept
  <2> QED
    BY <1>3, <2>1, <2>2 DEF Next
<1>4. ASSUME NEW label \in {"exit", "eexit"}, NEW from, Goto(t, from, label) PROVE FALSE
  BY <1>1, <1>4 DEF Goto, ThreadTypes, Up
<1>5. CASE PassBarrier(t) /\ Running(t) /\ UNCHANGED downVars
  BY <1>3, <1>5 DEF PassBarrier, Step
<1>6. CASE SendSignal(t)
  <2>1. UNCHANGED downVars /\ Goto(t, "signal", "loop")
    BY <1>6 DEF SendSignal, SignalReaches, SignalElsewhere
  <2>2. Step(t)
    BY <1>1, <1>6 DEF SendSignal, Step, ThreadTypes
  <2> QED
    BY <1>3, <2>1, <2>2
<1>7. CASE SignalFindsNone(t)
  BY <1>4, <1>7 DEF SignalFindsNone
<1>8. CASE t \in Receivers /\ MakeSemaphore(t)
  <2>1. /\ SetSemid(t) /\ Goto(t, "semget", "setval") /\ sems' = sems \cup {t}
        /\ UNCHANGED <<linked, freed, cl, signals, mi>>
    BY <1>8 DEF MakeSemaphore, SetSemid, heap
  <2>2. /\ Up /\ Intact' /\ Walk
        /\ \A p \in Threads : pc'[p] = "new" => pc[p] = "new" /\ p # t
    BY <1>1, <2>1, GotoUp
  <2>3. Walk'
    BY <2>1, <2>2, WalkKept
  <2> QED
    BY <1>8, <2>1, <2>2, <2>3 DEF Next, Step
<1>9. CASE t \in Receivers /\ ResetSemaphore(t)
  <2>1. CASE SetVal(t) /\ UNCHANGED downVars
    <3>1. Goto(t, "setval", "barrier") /\ Step(t)
      BY <1>9, <2>1 DEF SetVal, Step
    <3>2. /\ Up /\ Intact' /\ Walk
          /\ \A p \in Threads : pc'[p] = "new" => pc[p] = "new" /\ p # t
      BY <1>1, <1>2, <2>1, <3>1, GotoUp
    <3>3. Walk'
      BY <1>2, <2>1, <3>2, WalkKept
    <3> QED
      BY <3>1, <3>2, <3>3 DEF Next
  <2>2. CASE t \notin sems /\ pc[t] = "setval" /\ Abort
    <3>1. Up
      BY <2>2 DEF Up, Abort
    <3> QED
      BY <1>9, <2>2, <3>1 DEF ComingUp, Intact
  <2> QED
    BY <1>9, <2>1, <2>2 DEF ResetSemaphore
<1>10. CASE t \in Receivers /\ WaitToken(t)
  BY <1>3, <1>10 DEF WaitToken, Awake, Step
<1>11. CASE t \in Receivers /\ WaitFails(t)
  BY <1>4, <1>11 DEF WaitFails
<1>12. CASE t \in Receivers /\ Take(t) /\ UNCHANGED downVars
  <2>1. PICK label \in {"produce", "loop"} : Goto(t, "take", label)
    BY <1>12 DEF Take
  <2> QED
    BY <1>3, <1>12, <2>1 DEF Step
<1>13. CASE t \in Workers /\ Produce(t) /\ UNCHANGED downVars
  BY <1>3, <1>13 DEF Produce, Step
<1>14. CASE t \in Outputs /\ full[t] = 0 /\ pc[t] = "take" /\ Abort
  <2>1. UNCHANGED <<pc, signals, heap, sems, cl, mi>>
    BY <1>14 DEF Abort
  <2>2. Up /\ Intact /\ Walk
    BY <2>1 DEF Up, ComingUp
  <2>3. Intact' /\ Walk'
    BY <2>1, <2>2, WalkKept DEF Intact, heap
  <2>4. TakeNothing(t)
    BY <1>1, <1>14 DEF Abort, TakeNothing, Goto, ThreadTypes
  <2> QED
    BY <1>14, <2>2, <2>3, <2>4 DEF Next, Step
<1>15. CASE Exit(t)
  BY <1>15 DEF Exit, Up
<1> QED
  BY <1>5, <1>6, <1>7, <1>8, <1>9, <1>10, <1>11, <1>12, <1>13, <1>14, <1>15 DEF ThreadStep

\* Whatever the process does, it comes up as Startup says until a signal or
\* EEXIT comes.
LEMMA StepComesUp ==
  ASSUME Inv, ComingUp, Up', ShutdownNext
  PROVE  Up /\ Intact' /\ Walk' /\ (Next \/ UNCHANGED vars)
<1>1. ~exited /\ ThreadTypes
  BY DEF ShutdownNext, Alive, Inv
<1>2. CASE SignalArrives
  <2>1. signals' = signals + 1 /\ signals \in Nat
    BY <1>1, <1>2, ShutdownAssumption DEF SignalArrives, ThreadTypes
  <2> QED
    BY <2>1 DEF Up
<1>3. CASE MainStarts
  BY <1>1, <1>3, MainComesUp
<1>4. CASE Fault
  <2>1. Intact
    BY <1>4 DEF Fault, Abort, Up, ComingUp
  <2> QED
    BY <1>4, <2>1 DEF Fault, Intact
<1>5. ASSUME NEW x \in Runners, Cleanup(x) PROVE FALSE
  <2>1. cl[x] # Idle /\ signals' = signals
    BY <1>5 DEF Cleanup, Destroy, FreeQueues, Unlink, Free, Return, Idle, Over
  <2>2. \/ UNCHANGED pc
        \/ x # Handler /\ pc[x] = "eexit" /\ pc' = [pc EXCEPT ![x] = "exit"]
    BY <1>5 DEF Cleanup, Destroy, FreeQueues, Unlink, Free, Return, vars
  <2>3. Up
    <3>1. CASE UNCHANGED pc
      BY <2>1, <3>1 DEF Up
    <3>2. CASE x # Handler /\ pc[x] = "eexit" /\ pc' = [pc EXCEPT ![x] = "exit"]
      <4>1. x \in Threads
        BY <3>2 DEF Runners
      <4> QED
        BY <1>1, <3>2, <4>1 DEF Up, ThreadTypes
    <3> QED
      BY <2>2, <3>1, <3>2
  <2> QED
    BY <2>1, <2>3 DEF ComingUp, Intact
<1>6. ASSUME NEW t \in Threads, ThreadStep(t)
      PROVE  Up /\ Intact' /\ Walk' /\ (Next \/ UNCHANGED vars)
  BY <1>1, <1>6, ThreadComesUp
<1>7. ASSUME NEW p \in Inputs, NEW w \in Workers, FindWorker(p, w)
      PROVE  Up /\ Intact' /\ Walk' /\ (Next \/ UNCHANGED vars)
  <2>1. UNCHANGED <<vars, pc, signals, heap, sems, cl, mi>>
    BY <1>7 DEF FindWorker, vars
  <2>2. Up /\ Intact /\ Walk
    BY <2>1 DEF Up, ComingUp
  <2> QED
    BY <2>1, <2>2, WalkKept DEF Intact, heap
<1>8. ASSUME NEW p \in Inputs, NEW w \in Workers, PutMessage(p, w)
      PROVE  Up /\ Intact' /\ Walk' /\ (Next \/ UNCHANGED vars)
  <2>1. /\ Receive(p, w) /\ Goto(p, "loop", "signal") /\ p \in Threads
        /\ UNCHANGED <<linked, freed, cl, signals, sems, mi>>
    BY <1>8 DEF PutMessage, Receive, heap, Threads
  <2>2. /\ Up /\ Intact' /\ Walk
        /\ \A q \in Threads : pc'[q] = "new" => pc[q] = "new" /\ q # p
    BY <1>1, <2>1, GotoUp
  <2>3. Walk'
    BY <2>1, <2>2, WalkKept
  <2> QED
    BY <1>1, <2>1, <2>2, <2>3 DEF Next
<1> QED
  BY <1>2, <1>3, <1>4, <1>5, <1>6, <1>7, <1>8 DEF ShutdownNext

\* Nothing is taken down when main begins.
LEMMA InitComesUp == ShutdownInit => ComingUp
<1> SUFFICES ASSUME ShutdownInit PROVE Intact /\ Walk
  BY DEF ComingUp
<1>1. /\ linked = Threads /\ freed = {} /\ cl = [x \in Runners |-> Idle]
      /\ mi = [at |-> "begin", obj |-> None, nxt |-> None]
      /\ pc = [t \in Threads |-> "new"]
  BY DEF ShutdownInit, Init
<1>2. Intact
  BY <1>1 DEF Intact, Threads
<1>3. Walk
  BY <1>1 DEF Walk
<1> QED
  BY <1>2, <1>3

\* A process that is up after a step was up before it, and the step is one of
\* Startup's.
LEMMA ComingUpStep ==
  Inv /\ ComingUp /\ [ShutdownNext]_allVars => ComingUp' /\ (Up' => Up /\ [Next]_vars)
<1> SUFFICES ASSUME Inv, ComingUp, [ShutdownNext]_allVars, Up'
             PROVE  Up /\ Intact' /\ Walk' /\ [Next]_vars
  BY DEF ComingUp
<1>1. CASE ShutdownNext
  BY <1>1, StepComesUp
<1>2. CASE UNCHANGED allVars
  <2>1. UNCHANGED <<vars, pc, signals, heap, sems, cl, mi>>
    BY <1>2 DEF allVars, vars, downVars
  <2>2. Up /\ Intact /\ Walk
    BY <2>1 DEF Up, ComingUp
  <2> QED
    BY <2>1, <2>2, WalkKept DEF Intact, heap
<1> QED
  BY <1>1, <1>2

\* Until a signal comes or a semop fails, every step of the process is one that
\* Startup describes.
THEOREM ComesUp == ShutdownSpec => ComesUpAsStartup
<1>1. Inv /\ ComingUp /\ [ShutdownNext]_allVars => ComingUp' /\ (Up' => [Next]_vars)
  BY ComingUpStep
<1> QED
  BY <1>1, InitComesUp, Invariance, PTL DEF ShutdownSpec, ComesUpAsStartup

\* Until then what is proved of Startup holds of the whole process, with its
\* signal handler, its heap and its semaphores that can be removed: only a sender
\* that overtakes a receiver's semctl(SETVAL) can make it go wrong.
THEOREM UpOnlyEarlySendersHarm == ShutdownSpec => [](Up => LateSendersAreSafe)
<1>1. ShutdownInit => StartupInv
  BY InitStartupInv DEF ShutdownInit
<1>2. /\ Inv /\ ComingUp /\ (Up => StartupInv) /\ [ShutdownNext]_allVars
      => ComingUp' /\ (Up => StartupInv)'
  BY ComingUpStep, NextStartupInv
<1>3. StartupInv => LateSendersAreSafe
  BY StartupInvIsSafe
<1> QED
  BY <1>1, <1>2, <1>3, InitComesUp, Invariance, PTL DEF ShutdownSpec
=============================================================================
