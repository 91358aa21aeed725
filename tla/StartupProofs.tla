--------------------------- MODULE StartupProofs ---------------------------
(***************************************************************************)
(* Theorems about Startup: its type invariant, and that a message that     *)
(* overtakes a receiver's semctl(SETVAL) is the one way startup can go     *)
(* wrong.  The latter is not inductive: it says nothing of where a token   *)
(* or a wild id could come from.  The inductive StartupInv adds            *)
(*   - which threads can be at which point of their code (Roles);          *)
(*   - that a receiver has set its count, and stored its id before that,   *)
(*     exactly when it has arrived at its barrier (SetsBeforeBarrier);     *)
(*   - that without an early sender nothing was put or signalled for a     *)
(*     receiver that has not set its count, and that whoever is about to   *)
(*     signal holds the id of one that has (NobodyEarly).                  *)
(***************************************************************************)
EXTENDS Startup, FiniteSetTheorems, TLAPS

\* Only receivers make a semaphore and take entries; only a worker with an
\* output produces one.
Roles ==
  \A t \in Threads :
    /\ pc[t] \in {"semget", "setval", "take"} => t \in Receivers
    /\ pc[t] = "produce" => t \in Workers /\ OutputOf[t] \in Outputs

SetsBeforeBarrier ==
  \A r \in Receivers : /\ r \in reset <=> Arrived(r)
                       /\ pc[r] \notin {"new", "semget"} => semid[r] = r

NobodyEarly ==
  ~early => /\ ~exited
            /\ \A r \in Receivers \ reset : sem[r] = 0 /\ full[r] = 0
            /\ \A t \in Threads : pc[t] = "signal" => sid[t] \in reset

Awakes(r) == IF pc[r] = "take" THEN 1 ELSE 0

\* Every full entry is paid for.
Paid ==
  ~early => \A r \in Receivers :
              full[r] = sem[r] + Cardinality(InFlight(r)) + Awakes(r)

StartupInv == TypeOK /\ Roles /\ SetsBeforeBarrier /\ NobodyEarly /\ Paid

-----------------------------------------------------------------------------
(***************************************************************************)
(* The threads about to signal.                                            *)
(***************************************************************************)

\* The threads about to signal r are finitely many.
LEMMA InFlightFinite ==
  ASSUME NEW r \in Receivers
  PROVE  IsFiniteSet(InFlight(r)) /\ Cardinality(InFlight(r)) \in Nat
<1>1. InFlight(r) \subseteq Threads
  BY DEF InFlight
<1>2. IsFiniteSet(Threads)
  BY StartupAssumption
<1> QED
  BY <1>1, <1>2, FS_Subset, FS_CardinalityType

\* A step in which nobody starts or ends a put changes none of these sets.
LEMMA InFlightFrame ==
  ASSUME NEW r \in Receivers,
         sid' = sid,
         \A t \in Threads : pc'[t] = "signal" <=> pc[t] = "signal"
  PROVE  InFlight(r)' = InFlight(r)
BY DEF InFlight

\* A put for r brings its thread into the set of r and into no other.
LEMMA InFlightEnters ==
  ASSUME NEW t \in Threads, NEW r \in Receivers, NEW s \in Receivers,
         TypeOK,
         pc[t] # "signal",
         pc' = [pc EXCEPT ![t] = "signal"],
         sid' = [sid EXCEPT ![t] = r]
  PROVE  Cardinality(InFlight(s)') = Cardinality(InFlight(s)) + (IF s = r THEN 1 ELSE 0)
<1>1. CASE s = r
  <2>1. InFlight(s)' = InFlight(s) \cup {t}
    BY <1>1 DEF InFlight, TypeOK
  <2>2. t \notin InFlight(s)
    BY DEF InFlight
  <2> QED
    BY <1>1, <2>1, <2>2, InFlightFinite, FS_AddElement
<1>2. CASE s # r
  <2>1. InFlight(s)' = InFlight(s)
    BY <1>2 DEF InFlight, TypeOK
  <2> QED
    BY <1>2, <2>1, InFlightFinite
<1> QED
  BY <1>1, <1>2

\* A signal for r takes its thread out of the set of r and of no other.
LEMMA InFlightLeaves ==
  ASSUME NEW t \in Threads, NEW r \in Receivers, NEW s \in Receivers,
         TypeOK,
         pc[t] = "signal", sid[t] = r,
         pc' = [pc EXCEPT ![t] = "loop"],
         sid' = sid
  PROVE  Cardinality(InFlight(s)) = Cardinality(InFlight(s)') + (IF s = r THEN 1 ELSE 0)
<1>1. CASE s = r
  <2>1. InFlight(s)' = InFlight(s) \ {t}
    BY <1>1 DEF InFlight, TypeOK
  <2>2. t \in InFlight(s)
    BY <1>1 DEF InFlight
  <2>3. Cardinality(InFlight(s)') = Cardinality(InFlight(s)) - 1
    BY <2>1, <2>2, InFlightFinite, FS_RemoveElement
  <2> QED
    BY <1>1, <2>3, InFlightFinite
<1>2. CASE s # r
  <2>1. InFlight(s)' = InFlight(s)
    BY <1>2 DEF InFlight, TypeOK
  <2> QED
    BY <1>2, <2>1, InFlightFinite
<1> QED
  BY <1>1, <1>2

\* What is paid for stays paid for when no count and no thread's part changes.
LEMMA PaidFrame ==
  ASSUME Paid, sem' = sem, full' = full, sid' = sid, early' = early,
         \A t \in Threads : pc'[t] = "signal" <=> pc[t] = "signal",
         \A r \in Receivers : pc'[r] = "take" <=> pc[r] = "take"
  PROVE  Paid'
<1> SUFFICES ASSUME ~early', NEW r \in Receivers
             PROVE  (full[r] = sem[r] + Cardinality(InFlight(r)) + Awakes(r))'
  BY DEF Paid
<1>1. Awakes(r)' = Awakes(r)
  BY DEF Awakes
<1>2. InFlight(r)' = InFlight(r)
  BY InFlightFrame
<1> QED
  BY <1>1, <1>2 DEF Paid

\* A thread goes on from one point of its code to another.
LEMMA GotoEffect ==
  ASSUME NEW t \in Threads, NEW from, NEW label, TypeOK, Goto(t, from, label)
  PROVE  /\ pc[t] = from
         /\ pc'[t] = label
         /\ \A u \in Threads \ {t} : pc'[u] = pc[u]
BY DEF Goto, TypeOK

-----------------------------------------------------------------------------
(***************************************************************************)
(* The inductive invariant, action by action.                              *)
(***************************************************************************)
Roster == /\ Receivers \subseteq Threads /\ Inputs \subseteq Threads
         /\ Workers \subseteq Receivers /\ Outputs \subseteq Receivers
         /\ Inputs \cap Receivers = {} /\ Workers \cap Outputs = {}
         /\ None \notin Receivers /\ Wild \notin Receivers /\ None # Wild

\* A thread is of one kind.
LEMMA KindsApart == Roster
BY StartupAssumption DEF Roster, Receivers, Threads

\* No thread has started and nothing has been sent.
LEMMA InitStartupInv == Init => StartupInv
<1> SUFFICES ASSUME Init PROVE StartupInv
  OBVIOUS
<1> USE KindsApart
<1>1. TypeOK
  <2>1. msgs \in 0 .. MaxMsgs
    BY StartupAssumption DEF Init
  <2>2. semid \in [Receivers -> Ids] /\ sid \in [Threads -> Ids]
    BY DEF Init, Ids
  <2>3. sem \in [Receivers -> Nat] /\ full \in [Receivers -> Nat]
    BY DEF Init
  <2> QED
    BY <2>1, <2>2, <2>3 DEF Init, TypeOK
<1>2. Roles
  BY DEF Init, Roles
<1>3. SetsBeforeBarrier
  BY DEF Init, SetsBeforeBarrier, Arrived, Roster
<1>4. NobodyEarly
  BY DEF Init, NobodyEarly
<1>5. Paid
  <2> SUFFICES ASSUME NEW r \in Receivers
               PROVE  full[r] = sem[r] + Cardinality(InFlight(r)) + Awakes(r)
    BY DEF Paid
  <2>1. InFlight(r) = {}
    BY DEF InFlight, Init
  <2>2. Cardinality(InFlight(r)) = 0
    BY <2>1, FS_EmptySet
  <2>3. Awakes(r) = 0
    BY DEF Awakes, Init, Roster
  <2>4. full[r] = 0 /\ sem[r] = 0
    BY DEF Init
  <2> QED
    BY <2>2, <2>3, <2>4
<1> QED
  BY <1>1, <1>2, <1>3, <1>4, <1>5 DEF StartupInv

\* main starts a thread.
LEMMA StartKeeps ==
  ASSUME StartupInv, NEW t \in Threads, Start(t)
  PROVE  StartupInv'
<1> USE KindsApart DEF StartupInv
<1> DEFINE label == IF t \in Inputs THEN "barrier" ELSE "semget"
<1>1. Goto(t, "new", label)
  BY DEF Start
<1>2. pc[t] = "new" /\ pc'[t] = label /\ \A u \in Threads \ {t} : pc'[u] = pc[u]
  BY <1>1, GotoEffect
<1>3. TypeOK'
  BY <1>1 DEF Start, Goto, TypeOK
<1>4. Roles'
  BY <1>2 DEF Roles, Roster, Threads
<1>5. SetsBeforeBarrier'
  BY <1>2 DEF Start, SetsBeforeBarrier, Arrived, Roster
<1>6. NobodyEarly'
  BY <1>2 DEF Start, NobodyEarly
<1>7. Paid'
  BY <1>2, PaidFrame DEF Start, Roster
<1> QED
  BY <1>3, <1>4, <1>5, <1>6, <1>7

\* A thread gets past its barrier.
LEMMA PassBarrierKeeps ==
  ASSUME StartupInv, NEW t \in Threads, PassBarrier(t)
  PROVE  StartupInv'
<1> USE KindsApart DEF StartupInv
<1>1. Goto(t, "barrier", "loop")
  BY DEF PassBarrier
<1>2. pc[t] = "barrier" /\ pc'[t] = "loop" /\ \A u \in Threads \ {t} : pc'[u] = pc[u]
  BY <1>1, GotoEffect
<1>3. TypeOK'
  BY <1>1 DEF PassBarrier, Goto, TypeOK
<1>4. Roles'
  BY <1>2 DEF Roles
<1>5. SetsBeforeBarrier'
  BY <1>2 DEF PassBarrier, SetsBeforeBarrier, Arrived, Roster
<1>6. NobodyEarly'
  BY <1>2 DEF PassBarrier, NobodyEarly
<1>7. Paid'
  BY <1>2, PaidFrame DEF PassBarrier, Roster
<1> QED
  BY <1>3, <1>4, <1>5, <1>6, <1>7

\* A receiver publishes the id of its semaphore.
LEMMA SetSemidKeeps ==
  ASSUME StartupInv, NEW r \in Receivers, SetSemid(r)
  PROVE  StartupInv'
<1> USE KindsApart DEF StartupInv
<1>0. r \in Threads
  BY DEF Roster
<1>1. Goto(r, "semget", "setval")
  BY DEF SetSemid
<1>2. pc[r] = "semget" /\ pc'[r] = "setval" /\ \A u \in Threads \ {r} : pc'[u] = pc[u]
  BY <1>0, <1>1, GotoEffect
<1>3. TypeOK'
  BY <1>1 DEF SetSemid, Goto, TypeOK, Ids
<1>4. Roles'
  BY <1>2 DEF Roles
<1>5. SetsBeforeBarrier'
  BY <1>2 DEF SetSemid, SetsBeforeBarrier, Arrived, Roster, TypeOK
<1>6. NobodyEarly'
  BY <1>2 DEF SetSemid, NobodyEarly
<1>7. Paid'
  BY <1>2, PaidFrame DEF SetSemid, Roster
<1> QED
  BY <1>3, <1>4, <1>5, <1>6, <1>7

\* The count is still 0 if nobody was early: nothing is lost in setting it.
LEMMA SetValKeeps ==
  ASSUME StartupInv, NEW r \in Receivers, SetVal(r)
  PROVE  StartupInv'
<1> USE KindsApart DEF StartupInv
<1>0. r \in Threads
  BY DEF Roster
<1>1. Goto(r, "setval", "barrier")
  BY DEF SetVal
<1>2. pc[r] = "setval" /\ pc'[r] = "barrier" /\ \A u \in Threads \ {r} : pc'[u] = pc[u]
  BY <1>0, <1>1, GotoEffect
<1>3. r \notin reset
  BY <1>2 DEF SetsBeforeBarrier, Arrived
<1>4. TypeOK'
  BY <1>1 DEF SetVal, Goto, TypeOK
<1>5. Roles'
  BY <1>2 DEF Roles
<1>6. SetsBeforeBarrier'
  BY <1>2 DEF SetVal, SetsBeforeBarrier, Arrived, Roster
<1>7. NobodyEarly'
  BY <1>2 DEF SetVal, NobodyEarly, TypeOK
<1>8. Paid'
  <2> SUFFICES ASSUME ~early' PROVE Paid'
    BY DEF Paid
  <2>1. ~early /\ full' = full /\ sid' = sid /\ early' = early
    BY DEF SetVal
  <2>2. sem[r] = 0
    BY <1>3, <2>1 DEF NobodyEarly
  <2>3. sem' = sem
    BY <2>2 DEF SetVal, TypeOK
  <2> QED
    BY <1>2, <2>1, <2>3, PaidFrame DEF Roster
<1> QED
  BY <1>4, <1>5, <1>6, <1>7, <1>8

\* A sender puts an entry on a full list and is about to signal.
LEMMA PutKeeps ==
  ASSUME StartupInv, NEW t \in Threads, NEW r \in Receivers, NEW from \in {"loop", "produce"},
         Goto(t, from, "signal"), PutFull(t, r), msgs' \in 0 .. MaxMsgs,
         UNCHANGED <<semid, sem, reset, exited>>
  PROVE  StartupInv'
<1> USE KindsApart DEF StartupInv
<1>1. pc[t] = from /\ pc'[t] = "signal" /\ \A u \in Threads \ {t} : pc'[u] = pc[u]
  BY GotoEffect
<1>2. sid'[t] = semid[r] /\ \A u \in Threads \ {t} : sid'[u] = sid[u]
  BY DEF PutFull, TypeOK
<1>3. TypeOK'
  BY DEF PutFull, Goto, TypeOK
<1>4. Roles'
  BY <1>1 DEF Roles
<1>5. SetsBeforeBarrier'
  BY <1>1 DEF SetsBeforeBarrier, Arrived, Roster
<1>6. ASSUME ~early' PROVE ~early /\ r \in reset /\ semid[r] = r
  BY <1>6 DEF PutFull, SetsBeforeBarrier, Arrived
<1>7. NobodyEarly'
  <2> SUFFICES ASSUME ~early' PROVE NobodyEarly'
    BY DEF NobodyEarly
  <2>1. full' = [full EXCEPT ![r] = @ + 1]
    BY DEF PutFull
  <2>2. ~exited /\ \A s \in Receivers \ reset : sem[s] = 0 /\ full'[s] = 0
    BY <1>6, <2>1 DEF NobodyEarly, TypeOK
  <2>3. \A u \in Threads : pc'[u] = "signal" => sid'[u] \in reset
    BY <1>1, <1>2, <1>6 DEF NobodyEarly
  <2> QED
    BY <2>2, <2>3 DEF NobodyEarly
<1>8. Paid'
  <2> SUFFICES ASSUME ~early', NEW s \in Receivers
               PROVE  full'[s] = sem'[s] + Cardinality(InFlight(s)') + Awakes(s)'
    BY DEF Paid
  <2>1. full[s] = sem[s] + Cardinality(InFlight(s)) + Awakes(s)
    BY <1>6 DEF Paid
  <2>2. pc' = [pc EXCEPT ![t] = "signal"] /\ sid' = [sid EXCEPT ![t] = r]
    BY <1>6 DEF Goto, PutFull
  <2>3. pc[t] # "signal"
    BY <1>1
  <2>4. Cardinality(InFlight(s)') = Cardinality(InFlight(s)) + (IF s = r THEN 1 ELSE 0)
    BY <2>2, <2>3, InFlightEnters
  <2>5. Awakes(s)' = Awakes(s)
    BY <1>1 DEF Awakes, Roster
  <2>6. sem'[s] = sem[s] /\ full'[s] = full[s] + (IF s = r THEN 1 ELSE 0)
    BY DEF PutFull, TypeOK
  <2>7. Awakes(s) \in Nat /\ sem[s] \in Nat /\ Cardinality(InFlight(s)) \in Nat
    BY InFlightFinite DEF Awakes, TypeOK
  <2> QED
    BY <2>1, <2>4, <2>5, <2>6, <2>7
<1> QED
  BY <1>3, <1>4, <1>5, <1>7, <1>8

\* An input puts a message on a full list.
LEMMA ReceiveKeeps ==
  ASSUME StartupInv, NEW p \in Inputs, NEW w \in Workers, Receive(p, w)
  PROVE  StartupInv'
<1>1. p \in Threads /\ w \in Receivers
  BY KindsApart DEF Roster
<1>2. msgs' \in 0 .. MaxMsgs
  BY StartupAssumption DEF Receive, StartupInv, TypeOK
<1> QED
  BY <1>1, <1>2, PutKeeps DEF Receive

\* A worker puts its result on the full list of its output.
LEMMA ProduceKeeps ==
  ASSUME StartupInv, NEW w \in Workers, Produce(w)
  PROVE  StartupInv'
<1>1. w \in Threads
  BY KindsApart DEF Roster
<1>2. pc[w] = "produce"
  BY DEF Produce, Goto
<1>3. OutputOf[w] \in Receivers
  BY <1>1, <1>2, KindsApart DEF StartupInv, Roles, Roster
<1>4. msgs' \in 0 .. MaxMsgs
  BY DEF Produce, StartupInv, TypeOK
<1> QED
  BY <1>1, <1>3, <1>4, PutKeeps DEF Produce

\* Without an early sender every signal reaches the receiver it is for.
LEMMA SignalReachesKeeps ==
  ASSUME StartupInv, NEW t \in Threads, NEW r \in Receivers, SignalReaches(t, r)
  PROVE  StartupInv'
<1> USE KindsApart DEF StartupInv
<1>1. Goto(t, "signal", "loop")
  BY DEF SignalReaches
<1>2. pc[t] = "signal" /\ pc'[t] = "loop" /\ \A u \in Threads \ {t} : pc'[u] = pc[u]
  BY <1>1, GotoEffect
<1>3. TypeOK'
  BY <1>1 DEF SignalReaches, Goto, TypeOK
<1>4. Roles'
  BY <1>2 DEF Roles
<1>5. SetsBeforeBarrier'
  BY <1>2 DEF SignalReaches, SetsBeforeBarrier, Arrived, Roster
<1>6. ASSUME ~early' PROVE ~early /\ r \in reset /\ sid[t] = r
  <2>1. ~early /\ sid[t] \in reset
    BY <1>2, <1>6 DEF SignalReaches, NobodyEarly
  <2>2. sid[t] # Wild
    BY <2>1 DEF TypeOK, Roster
  <2> QED
    BY <2>1, <2>2 DEF SignalReaches
<1>7. NobodyEarly'
  <2> SUFFICES ASSUME ~early' PROVE NobodyEarly'
    BY DEF NobodyEarly
  <2>1. ~exited' /\ \A s \in Receivers \ reset : sem'[s] = 0 /\ full'[s] = 0
    BY <1>6 DEF SignalReaches, NobodyEarly, TypeOK
  <2>2. \A u \in Threads : pc'[u] = "signal" => sid'[u] \in reset
    BY <1>2, <1>6 DEF SignalReaches, NobodyEarly
  <2> QED
    BY <2>1, <2>2 DEF SignalReaches, NobodyEarly
<1>8. Paid'
  <2> SUFFICES ASSUME ~early', NEW s \in Receivers
               PROVE  full'[s] = sem'[s] + Cardinality(InFlight(s)') + Awakes(s)'
    BY DEF Paid
  <2>1. full[s] = sem[s] + Cardinality(InFlight(s)) + Awakes(s)
    BY <1>6 DEF Paid
  <2>2. pc' = [pc EXCEPT ![t] = "loop"] /\ sid' = sid
    BY DEF SignalReaches, Goto
  <2>4. Cardinality(InFlight(s)) = Cardinality(InFlight(s)') + (IF s = r THEN 1 ELSE 0)
    BY <1>2, <1>6, <2>2, InFlightLeaves
  <2>5. Awakes(s)' = Awakes(s)
    BY <1>2 DEF Awakes, Roster
  <2>6. full'[s] = full[s] /\ sem'[s] = sem[s] + (IF s = r THEN 1 ELSE 0)
    BY DEF SignalReaches, TypeOK
  <2>7. Awakes(s) \in Nat /\ sem[s] \in Nat
    BY DEF Awakes, TypeOK
  <2>8. InFlight(s)' \subseteq InFlight(s)
    BY <1>2, <2>2 DEF InFlight
  <2>9. Cardinality(InFlight(s)') \in Nat
    BY <2>8, InFlightFinite, FS_Subset, FS_CardinalityType
  <2> QED
    BY <2>1, <2>4, <2>5, <2>6, <2>7, <2>9
<1> QED
  BY <1>3, <1>4, <1>5, <1>7, <1>8

\* A signal with a wild id or none goes astray only behind an early sender.
LEMMA SignalAstrayKeeps ==
  ASSUME StartupInv, NEW t \in Threads, SignalElsewhere(t) \/ SignalFails(t)
  PROVE  StartupInv'
<1> USE KindsApart DEF StartupInv
<1>1. Goto(t, "signal", "loop")
  BY DEF SignalElsewhere, SignalFails
<1>2. pc[t] = "signal" /\ pc'[t] = "loop" /\ \A u \in Threads \ {t} : pc'[u] = pc[u]
  BY <1>1, GotoEffect
<1>3. sid[t] \in {None, Wild} /\ early' = early
  BY DEF SignalElsewhere, SignalFails
<1>4. early'
  BY <1>2, <1>3 DEF NobodyEarly, TypeOK, Roster
<1>5. TypeOK'
  BY <1>1 DEF SignalElsewhere, SignalFails, Goto, TypeOK
<1>6. Roles'
  BY <1>2 DEF Roles
<1>7. SetsBeforeBarrier'
  BY <1>2 DEF SignalElsewhere, SignalFails, SetsBeforeBarrier, Arrived, Roster
<1> QED
  BY <1>4, <1>5, <1>6, <1>7 DEF NobodyEarly, Paid

\* A receiver gets a token.
LEMMA AwakeKeeps ==
  ASSUME StartupInv, NEW r \in Receivers, Awake(r)
  PROVE  StartupInv'
<1> USE KindsApart DEF StartupInv
<1>0. r \in Threads
  BY DEF Roster
<1>1. Goto(r, "loop", "take")
  BY DEF Awake
<1>2. pc[r] = "loop" /\ pc'[r] = "take" /\ \A u \in Threads \ {r} : pc'[u] = pc[u]
  BY <1>0, <1>1, GotoEffect
<1>3. TypeOK'
  <2>1. sem' \in [Receivers -> Nat]
    <3>1. sem[r] - 1 \in Nat
      BY DEF Awake, TypeOK
    <3> QED
      BY <3>1 DEF Awake, TypeOK
  <2>2. pc' \in [Threads -> {"new", "semget", "setval", "barrier", "loop",
                             "signal", "take", "produce"}]
    BY <1>1 DEF Goto, TypeOK
  <2> QED
    BY <2>1, <2>2 DEF Awake, TypeOK
<1>4. Roles'
  BY <1>2 DEF Roles
<1>5. SetsBeforeBarrier'
  BY <1>2 DEF Awake, SetsBeforeBarrier, Arrived, Roster
<1>6. r \in reset
  BY <1>2 DEF SetsBeforeBarrier, Arrived
<1>7. NobodyEarly'
  BY <1>2, <1>6 DEF Awake, NobodyEarly, TypeOK
<1>8. Paid'
  <2> SUFFICES ASSUME ~early', NEW s \in Receivers
               PROVE  full'[s] = sem'[s] + Cardinality(InFlight(s)') + Awakes(s)'
    BY DEF Paid
  <2>1. full[s] = sem[s] + Cardinality(InFlight(s)) + Awakes(s)
    BY DEF Paid, Awake
  <2>2. InFlight(s)' = InFlight(s)
    BY <1>2, InFlightFrame DEF Awake
  <2>3. sem[s] \in Nat /\ Cardinality(InFlight(s)) \in Nat
    BY InFlightFinite DEF TypeOK
  <2>4. CASE s = r
    <3>1. Awakes(s) = 0 /\ Awakes(s)' = 1
      BY <1>2, <2>4 DEF Awakes
    <3>2. sem'[s] = sem[s] - 1 /\ full'[s] = full[s]
      BY <2>4 DEF Awake, TypeOK
    <3> QED
      BY <2>1, <2>2, <2>3, <3>1, <3>2
  <2>5. CASE s # r
    BY <1>2, <2>1, <2>2, <2>5 DEF Awakes, Awake, TypeOK, Roster
  <2> QED
    BY <2>4, <2>5
<1> QED
  BY <1>3, <1>4, <1>5, <1>7, <1>8

\* A receiver takes the entry that its token stands for.
LEMMA TakeKeeps ==
  ASSUME StartupInv, NEW r \in Receivers, Take(r)
  PROVE  StartupInv'
<1> USE KindsApart DEF StartupInv
<1> DEFINE label == IF r \in Workers /\ OutputOf[r] # None THEN "produce" ELSE "loop"
<1>0. r \in Threads
  BY DEF Roster
<1>1. Goto(r, "take", label)
  BY DEF Take
<1>2. pc[r] = "take" /\ pc'[r] = label /\ \A u \in Threads \ {r} : pc'[u] = pc[u]
  BY <1>0, <1>1, GotoEffect
<1>3. label \in {"produce", "loop"}
  OBVIOUS
<1>4. TypeOK'
  <2>1. full' \in [Receivers -> Nat]
    <3>1. full[r] - 1 \in Nat
      BY DEF Take, TypeOK
    <3> QED
      BY <3>1 DEF Take, TypeOK
  <2>2. pc' \in [Threads -> {"new", "semget", "setval", "barrier", "loop",
                             "signal", "take", "produce"}]
    BY <1>1, <1>3 DEF Goto, TypeOK
  <2> QED
    BY <2>1, <2>2 DEF Take, TypeOK
<1>5. Roles'
  <2>1. label = "produce" => r \in Workers /\ OutputOf[r] \in Outputs
    BY StartupAssumption
  <2> QED
    BY <1>2, <1>3, <2>1 DEF Roles
<1>6. SetsBeforeBarrier'
  <2> HIDE DEF label
  <2> QED
    BY <1>2, <1>3 DEF Take, SetsBeforeBarrier, Arrived, Roster
<1> HIDE DEF label
<1>7. r \in reset
  BY <1>2 DEF SetsBeforeBarrier, Arrived
<1>8. NobodyEarly'
  BY <1>2, <1>3, <1>7 DEF Take, NobodyEarly, TypeOK
<1>9. Paid'
  <2> SUFFICES ASSUME ~early', NEW s \in Receivers
               PROVE  full'[s] = sem'[s] + Cardinality(InFlight(s)') + Awakes(s)'
    BY DEF Paid
  <2>1. full[s] = sem[s] + Cardinality(InFlight(s)) + Awakes(s)
    BY DEF Paid, Take
  <2>2. InFlight(s)' = InFlight(s)
    BY <1>2, <1>3, InFlightFrame DEF Take
  <2>3. sem[s] \in Nat /\ Cardinality(InFlight(s)) \in Nat
    BY InFlightFinite DEF TypeOK
  <2>4. CASE s = r
    <3>1. Awakes(s) = 1 /\ Awakes(s)' = 0
      BY <1>2, <1>3, <2>4 DEF Awakes
    <3>2. sem'[s] = sem[s] /\ full'[s] = full[s] - 1
      BY <2>4 DEF Take, TypeOK
    <3> QED
      BY <2>1, <2>2, <2>3, <3>1, <3>2
  <2>5. CASE s # r
    BY <1>2, <2>1, <2>2, <2>5 DEF Awakes, Take, TypeOK, Roster
  <2> QED
    BY <2>4, <2>5
<1> QED
  BY <1>4, <1>5, <1>6, <1>8, <1>9

\* An output finds nothing only behind an early sender: its being awake is paid
\* for by a full entry.
LEMMA TakeNothingKeeps ==
  ASSUME StartupInv, NEW o \in Outputs, TakeNothing(o)
  PROVE  StartupInv'
<1> USE KindsApart DEF StartupInv
<1>0. o \in Threads /\ o \in Receivers
  BY DEF Roster
<1>1. pc[o] = "take" /\ pc' = pc
  BY <1>0 DEF TakeNothing, Goto, TypeOK
<1>2. early
  <2> SUFFICES ASSUME ~early PROVE FALSE
    OBVIOUS
  <2>1. full[o] = sem[o] + Cardinality(InFlight(o)) + Awakes(o)
    BY <1>0 DEF Paid
  <2>2. Awakes(o) = 1
    BY <1>1 DEF Awakes
  <2>3. sem[o] \in Nat /\ Cardinality(InFlight(o)) \in Nat /\ full[o] = 0
    BY <1>0, InFlightFinite DEF TypeOK, TakeNothing
  <2> QED
    BY <2>1, <2>2, <2>3
<1>3. early'
  BY <1>2 DEF TakeNothing
<1>4. TypeOK'
  BY <1>1 DEF TakeNothing, TypeOK
<1>5. Roles'
  BY <1>1 DEF Roles
<1>6. SetsBeforeBarrier'
  BY <1>1 DEF TakeNothing, SetsBeforeBarrier, Arrived
<1> QED
  BY <1>3, <1>4, <1>5, <1>6 DEF NobodyEarly, Paid

\* Every step of startup keeps the invariant.
LEMMA NextStartupInv == StartupInv /\ [Next]_vars => StartupInv'
<1> SUFFICES ASSUME StartupInv, [Next]_vars PROVE StartupInv'
  OBVIOUS
<1>1. ASSUME NEW t \in Threads, Step(t) PROVE StartupInv'
  <2>1. CASE Start(t)
    BY <2>1, StartKeeps
  <2>2. CASE PassBarrier(t)
    BY <2>2, PassBarrierKeeps
  <2>3. CASE SignalElsewhere(t) \/ SignalFails(t)
    BY <2>3, SignalAstrayKeeps
  <2>4. ASSUME NEW r \in Receivers, SignalReaches(t, r) PROVE StartupInv'
    BY <2>4, SignalReachesKeeps
  <2>5. CASE t \in Receivers /\ SetSemid(t)
    BY <2>5, SetSemidKeeps
  <2>6. CASE t \in Receivers /\ SetVal(t)
    BY <2>6, SetValKeeps
  <2>7. CASE t \in Receivers /\ Awake(t)
    BY <2>7, AwakeKeeps
  <2>8. CASE t \in Receivers /\ Take(t)
    BY <2>8, TakeKeeps
  <2>9. CASE t \in Workers /\ Produce(t)
    BY <2>9, ProduceKeeps
  <2>10. CASE t \in Outputs /\ TakeNothing(t)
    BY <2>10, TakeNothingKeeps
  <2> QED
    BY <1>1, <2>1, <2>2, <2>3, <2>4, <2>5, <2>6, <2>7, <2>8, <2>9, <2>10 DEF Step
<1>2. ASSUME NEW p \in Inputs, NEW w \in Workers, Receive(p, w) PROVE StartupInv'
  BY <1>2, ReceiveKeeps
<1>3. CASE UNCHANGED vars
  BY <1>3 DEF vars, StartupInv, TypeOK, Roles, SetsBeforeBarrier, Arrived, NobodyEarly, Paid,
              Awakes, InFlight
<1> QED
  BY <1>1, <1>2, <1>3 DEF Next

-----------------------------------------------------------------------------
\* The inductive invariant holds however many threads of each kind there are,
\* in whatever order the kinds come up.
THEOREM StartupInvariance == Spec => []StartupInv
<1> QED
  BY InitStartupInv, NextStartupInv, PTL DEF Spec

\* The types of main's thread table, of the ids and of the counts; no count and
\* no full list ever goes below 0.
THEOREM StartupTypeCorrect == Spec => []TypeOK
<1>1. StartupInv => TypeOK
  BY DEF StartupInv
<1> QED
  BY <1>1, StartupInvariance, PTL

\* The inductive invariant is strong enough.
LEMMA StartupInvIsSafe == StartupInv => LateSendersAreSafe
BY DEF StartupInv, NobodyEarly, Paid, Awakes, LateSendersAreSafe

\* Only a sender that overtakes a receiver's semctl(SETVAL) can make startup go
\* wrong (a semop that fails, a token that is lost or comes from nowhere, an
\* output whose assertion fails).
THEOREM OnlyEarlySendersHarm == Spec => []LateSendersAreSafe
BY StartupInvIsSafe, StartupInvariance, PTL
=============================================================================
