------------------------- MODULE WorkerQueuesProofs -------------------------
(***************************************************************************)
(* Theorems about WorkerQueues, for any number of queues, entries and      *)
(* input threads, and any value in the uninitialised qidx, with one input  *)
(* thread per queue.                                                       *)
(*                                                                         *)
(* First the lists: they stay well formed, and no entry is lost or handed  *)
(* out twice.  Then what that is good for: the semaphore of a worker       *)
(* counts its full entries, so that a scan always has something to find;   *)
(* and the lock-free lists implement the abstract pool of entries of       *)
(* EntryPool.                                                              *)
(***************************************************************************)
EXTENDS WorkerQueues, QueueProofs

\* The threads of the worker pop different lists.
LEMMA RolesGiveSoleGetter ==
  ASSUME OneFeederPerQueue, Roles
  PROVE  SoleGetter
<1> SUFFICES ASSUME NEW t \in Threads, NEW u \in Threads, t # u,
                    Popping(t), Popping(u)
             PROVE  list[t] # list[u]
  BY DEF SoleGetter
<1>1. \A p \in Inputs : Popping(p) => list[p][2] = "empty"
  BY DEF Roles, InputRole, Empty
<1>2. Popping(Worker) => list[Worker][2] = "full"
  BY DEF Roles, WorkerRole, Full
<1>3. \A p, r \in Inputs :
        p # r /\ Popping(p) /\ Popping(r) => list[p] # list[r]
  BY DEF Roles, InputRole, OneFeederPerQueue, Empty
<1> QED
  BY <1>1, <1>2, <1>3, WorkerAssumption

\* A step of an input thread leaves the roles of the other threads alone.
LEMMA InputRoles ==
  ASSUME Roles, NEW p \in Inputs, InputRole(p)',
         \A t \in Threads : t # p => /\ pc'[t] = pc[t]
                                     /\ list'[t] = list[t]
                                     /\ qe'[t] = qe[t],
         qi' = qi
  PROVE  Roles'
<1>1. \A r \in Inputs : r # p => InputRole(r)'
  BY WorkerAssumption DEF Roles, InputRole, Popping, Pushing
<1>2. WorkerRole'
  BY WorkerAssumption DEF Roles, WorkerRole, Popping, Pushing
<1> QED
  BY <1>1, <1>2 DEF Roles

\* A step of the worker leaves the roles of the input threads alone.
LEMMA WorkerRoles ==
  ASSUME Roles, WorkerRole',
         \A t \in Threads : t # Worker => /\ pc'[t] = pc[t]
                                          /\ list'[t] = list[t]
                                          /\ qe'[t] = qe[t]
  PROVE  Roles'
BY WorkerAssumption DEF Roles, InputRole, Popping, Pushing

-----------------------------------------------------------------------------
\* The invariant holds initially.
LEMMA InitInv == Init => Inv
<1> SUFFICES ASSUME Init
             PROVE  Inv
  OBVIOUS
<1> DEFINE start == [t \in Threads |-> IF t = Worker THEN "wait" ELSE "idle"]
<1>1. start \in [Threads -> Labels]
  BY DEF Labels
<1>2. list \in [Threads -> Lists] /\ 0 \in Queues
  BY WorkerAssumption DEF Init, Lists, Empty
<1>3. QueueInv /\ Placed = Entries
  <2>1. QueueInit(start)
    BY DEF Init
  <2>2. \A t \in Threads : start[t] \in {"idle", "wait", "run"}
    OBVIOUS
  <2> QED
    BY <1>1, <1>2, <2>1, <2>2, QueueInitInv
<1>4. TypeOK
  BY <1>2, <1>3, WorkerAssumption DEF TypeOK, QueueInv, Init
<1>5. pc = start /\ qe = [t \in Threads |-> NULL]
  BY DEF Init, QueueInit
<1>6. Roles
  BY <1>5, WorkerAssumption DEF Roles, InputRole, WorkerRole, Popping, Pushing
<1>7. EntriesAccounted
  BY <1>3 DEF EntriesAccounted, QueueInv, Init
<1> QED
  BY <1>3, <1>4, <1>6, <1>7 DEF Inv

-----------------------------------------------------------------------------
(***************************************************************************)
(* The steps of an input thread.                                           *)
(***************************************************************************)

\* What a step has to show once the lemmas on Queue have done their part.
LEMMA InvFromParts ==
  ASSUME Inv, QueueInv', Placed' \cap lost' = {}, Placed' \cup lost' = Entries,
         Roles',
         sem' \in Nat, qi' \in Queues, qidx' = qidx, lost' \in SUBSET Entries
  PROVE  Inv'
BY DEF Inv, TypeOK, EntriesAccounted, QueueInv

\* worker_getQueueEntry begins.
LEMMA GetQueueEntryInv ==
  ASSUME Inv, NEW p \in Inputs, NEW q \in Queues, GetQueueEntry(p, q)
  PROVE  Inv'
<1>1. QueueInv /\ TypeOK /\ Roles /\ EntriesAccounted /\ p \in Threads
  BY WorkerAssumption DEF Inv
<1>2. /\ pc[p] = "idle"
      /\ q \in Routes[p]
      /\ Goto(p, "popHead")
      /\ list' = [list EXCEPT ![p] = Empty(q)]
      /\ UNCHANGED <<top, next, qhead, qnext, qe, chain, sem, qi, qidx, lost>>
  BY DEF GetQueueEntry
<1>3. qe[p] = NULL
  BY <1>1, <1>2 DEF Roles, InputRole
<1>4. list' \in [Threads -> Lists] /\ list'[p] = Empty(q)
  BY <1>1, <1>2 DEF TypeOK, QueueTypeOK, Lists, Empty
<1>5. QueueInv' /\ Placed' = Placed
  <2>1. "popHead" \in Labels \ (Busy \ {"pushHead"})
    BY DEF Labels, Busy
  <2> QED
    BY <1>1, <1>2, <1>3, <1>4, <2>1, ClientStepInv
<1>6. pc' = [pc EXCEPT ![p] = "popHead"] /\ pc'[p] = "popHead"
  BY <1>1, <1>2 DEF Goto, TypeOK, QueueTypeOK
<1>7. InputRole(p)'
  BY <1>2, <1>4, <1>6 DEF InputRole, Popping, Pushing
<1>8. Roles'
  BY <1>1, <1>2, <1>6, <1>7, InputRoles DEF TypeOK, QueueTypeOK
<1> QED
  BY <1>1, <1>2, <1>5, <1>8, InvFromParts DEF EntriesAccounted, TypeOK

\* queue_getEmptyEntry.
LEMMA InputPopInv ==
  ASSUME OneFeederPerQueue, Inv, NEW p \in Inputs, InputPop(p)
  PROVE  Inv'
<1>1. QueueInv /\ TypeOK /\ Roles /\ EntriesAccounted /\ p \in Threads
  BY WorkerAssumption DEF Inv
<1>2. UNCHANGED <<sem, qi, qidx, lost>>
  BY DEF InputPop
<1>3. {"idle", "fill"} \subseteq Labels \ Busy
  BY DEF Labels, Busy
<1>4. InputRole(p) /\ SoleGetter
  BY <1>1, RolesGiveSoleGetter DEF Roles
<1>5. QueueTypeOK
  BY <1>1 DEF TypeOK
<1>6. /\ QueueInv'
      /\ Placed' = Placed
      /\ InputRole(p)'
      /\ \A t \in Threads : t # p => /\ pc'[t] = pc[t]
                                     /\ list'[t] = list[t]
                                     /\ qe'[t] = qe[t]
  <2>1. CASE PopHead(p, "idle") /\ UNCHANGED list
    <3>1. QueueInv' /\ Placed' = Placed
      BY <1>1, <1>3, <1>5, <2>1, PopHeadInv DEF QueueTypeOK
    <3>2. qe[p] = NULL
      BY <1>1, <2>1 DEF QueueInv, LocalsAgree, Popping, PopHead
    <3> QED
      BY <1>1, <1>4, <1>5, <2>1, <3>1, <3>2
         DEF QueueTypeOK, PopHead, Goto, InputRole, Popping, Pushing
  <2>2. CASE PopNext(p)
    <3>1. QueueInv' /\ Placed' = Placed
      BY <1>1, <2>2, PopNextInv
    <3> QED
      BY <1>1, <1>4, <1>5, <2>2, <3>1
         DEF QueueTypeOK, PopNext, Goto, InputRole, Popping, Pushing
  <2>3. CASE PopCas(p)
    <3>1. QueueInv' /\ Placed' = Placed
      BY <1>1, <1>4, <2>3, PopCasInv
    <3> QED
      BY <1>1, <1>4, <1>5, <2>3, <3>1
         DEF QueueTypeOK, PopCas, Goto, InputRole, Popping, Pushing
  <2>4. CASE PopDetach(p, "fill") /\ UNCHANGED list
    <3>1. QueueInv' /\ Placed' = Placed
      BY <1>1, <1>3, <2>4, PopDetachInv
    <3>2. qhead[p] \in Entries
      BY <1>1, <2>4 DEF QueueInv, LocalsAgree, PopDetach
    <3> QED
      BY <1>1, <1>4, <1>5, <2>4, <3>1, <3>2
         DEF QueueTypeOK, PopDetach, Goto, InputRole, Popping, Pushing
  <2> QED
    BY <2>1, <2>2, <2>3, <2>4 DEF InputPop
<1>7. Roles'
  BY <1>1, <1>2, <1>6, InputRoles
<1> QED
  BY <1>1, <1>2, <1>6, <1>7, InvFromParts DEF EntriesAccounted, TypeOK

\* worker_putBackQueueEntry begins.
LEMMA PutBackQueueEntryInv ==
  ASSUME Inv, NEW p \in Inputs, PutBackQueueEntry(p)
  PROVE  Inv'
<1>1. QueueInv /\ TypeOK /\ Roles /\ EntriesAccounted /\ p \in Threads
  BY WorkerAssumption DEF Inv
<1>2. /\ pc[p] = "fill"
      /\ Goto(p, "pushHead")
      /\ list' = [list EXCEPT ![p] = Full(list[p][1])]
      /\ UNCHANGED <<top, next, qhead, qnext, qe, chain, sem, qi, qidx, lost>>
  BY DEF PutBackQueueEntry
<1>3. qe[p] \in Entries
  BY <1>1, <1>2 DEF Roles, InputRole
<1>4. list' \in [Threads -> Lists] /\ list'[p][2] = "full"
  BY <1>1, <1>2 DEF TypeOK, QueueTypeOK, Lists, Full
<1>5. QueueInv' /\ Placed' = Placed
  <2>1. "pushHead" \in Labels \ (Busy \ {"pushHead"})
    BY DEF Labels, Busy
  <2> QED
    BY <1>1, <1>2, <1>3, <1>4, <2>1, ClientStepInv
<1>6. pc' = [pc EXCEPT ![p] = "pushHead"] /\ pc'[p] = "pushHead"
  BY <1>1, <1>2 DEF Goto, TypeOK, QueueTypeOK
<1>7. InputRole(p)'
  BY <1>2, <1>4, <1>6 DEF InputRole, Popping, Pushing
<1>8. Roles'
  BY <1>1, <1>2, <1>6, <1>7, InputRoles DEF TypeOK, QueueTypeOK
<1> QED
  BY <1>1, <1>2, <1>5, <1>8, InvFromParts DEF EntriesAccounted, TypeOK

\* The connection dies in the middle of a message.
LEMMA LoseConnectionInv ==
  ASSUME Inv, NEW p \in Inputs, LoseConnection(p)
  PROVE  Inv'
<1>1. QueueInv /\ TypeOK /\ Roles /\ EntriesAccounted /\ p \in Threads
  BY WorkerAssumption DEF Inv
<1>2. /\ pc[p] = "fill"
      /\ Goto(p, "idle")
      /\ lost' = lost \cup {qe[p]}
      /\ qe'   = [qe EXCEPT ![p] = NULL]
      /\ UNCHANGED <<top, next, list, qhead, qnext, chain, sem, qi, qidx>>
  BY DEF LoseConnection
<1>3. qe[p] \in Entries /\ qe[p] # NULL /\ qe[p] \in Placed
  BY <1>1, <1>2, QueueAssumption DEF Roles, InputRole, Placed, Held, Holding
<1>4. qe' # qe
  BY <1>1, <1>2, <1>3 DEF TypeOK, QueueTypeOK
<1>5. QueueInv' /\ Placed' = Placed \ {qe[p]}
  <2>1. "idle" \in Labels \ (Busy \ {"pushHead"})
    BY DEF Labels, Busy
  <2>2. list' \in [Threads -> Lists]
    BY <1>1, <1>2 DEF TypeOK, QueueTypeOK
  <2> QED
    BY <1>1, <1>2, <1>4, <2>1, <2>2, ClientStepInv
<1>6. pc' = [pc EXCEPT ![p] = "idle"] /\ pc'[p] = "idle" /\ qe'[p] = NULL
  BY <1>1, <1>2 DEF Goto, TypeOK, QueueTypeOK
<1>7. InputRole(p)'
  BY <1>6 DEF InputRole, Popping, Pushing
<1>8. Roles'
  BY <1>1, <1>2, <1>6, <1>7, InputRoles DEF TypeOK, QueueTypeOK
<1> QED
  BY <1>1, <1>2, <1>3, <1>5, <1>8, InvFromParts DEF EntriesAccounted, TypeOK

\* queue_putBackFullEntry.
LEMMA InputPushInv ==
  ASSUME Inv, NEW p \in Inputs, InputPush(p)
  PROVE  Inv'
<1>1. QueueInv /\ TypeOK /\ Roles /\ EntriesAccounted /\ p \in Threads
  BY WorkerAssumption DEF Inv
<1>2. UNCHANGED <<sem, qi, qidx, lost>>
  BY DEF InputPush
<1>3. "signal" \in Labels \ Busy
  BY DEF Labels, Busy
<1>4. InputRole(p)
  BY <1>1 DEF Roles
<1>5. QueueTypeOK
  BY <1>1 DEF TypeOK
<1>6. /\ QueueInv'
      /\ Placed' = Placed
      /\ InputRole(p)'
      /\ \A t \in Threads : t # p => /\ pc'[t] = pc[t]
                                     /\ list'[t] = list[t]
                                     /\ qe'[t] = qe[t]
  <2>1. CASE PushHead(p)
    <3>1. QueueInv' /\ Placed' = Placed
      BY <1>1, <2>1, PushHeadInv
    <3> QED
      BY <1>1, <1>4, <1>5, <2>1, <3>1
         DEF QueueTypeOK, PushHead, Goto, InputRole, Popping, Pushing
  <2>2. CASE PushLink(p)
    <3>1. QueueInv' /\ Placed' = Placed
      BY <1>1, <2>2, PushLinkInv
    <3> QED
      BY <1>1, <1>4, <1>5, <2>2, <3>1
         DEF QueueTypeOK, PushLink, Goto, InputRole, Popping, Pushing
  <2>3. CASE PushCas(p, "signal")
    <3>1. QueueInv' /\ Placed' = Placed
      BY <1>1, <1>3, <2>3, PushCasInv
    <3> QED
      BY <1>1, <1>4, <1>5, <2>3, <3>1
         DEF QueueTypeOK, PushCas, Goto, InputRole, Popping, Pushing
  <2> QED
    BY <2>1, <2>2, <2>3 DEF InputPush
<1>7. Roles'
  BY <1>1, <1>2, <1>6, InputRoles
<1> QED
  BY <1>1, <1>2, <1>6, <1>7, InvFromParts DEF EntriesAccounted, TypeOK

\* semop(semid, &semsignal, 1).
LEMMA SignalInv ==
  ASSUME Inv, NEW p \in Inputs, Signal(p)
  PROVE  Inv'
<1>1. QueueInv /\ TypeOK /\ Roles /\ EntriesAccounted /\ p \in Threads
  BY WorkerAssumption DEF Inv
<1>2. /\ pc[p] = "signal"
      /\ sem' = sem + 1
      /\ Goto(p, "idle")
      /\ UNCHANGED <<top, next, list, qhead, qnext, qe, chain, qi, qidx, lost>>
  BY DEF Signal
<1>3. qe[p] = NULL
  BY <1>1, <1>2 DEF Roles, InputRole
<1>4. QueueInv' /\ Placed' = Placed
  <2>1. "idle" \in Labels \ (Busy \ {"pushHead"})
    BY DEF Labels, Busy
  <2>2. list' \in [Threads -> Lists]
    BY <1>1, <1>2 DEF TypeOK, QueueTypeOK
  <2> QED
    BY <1>1, <1>2, <2>1, <2>2, ClientStepInv
<1>5. pc' = [pc EXCEPT ![p] = "idle"] /\ pc'[p] = "idle"
  BY <1>1, <1>2 DEF Goto, TypeOK, QueueTypeOK
<1>6. InputRole(p)'
  BY <1>2, <1>3, <1>5 DEF InputRole, Popping, Pushing
<1>7. Roles'
  BY <1>1, <1>2, <1>5, <1>6, InputRoles DEF TypeOK, QueueTypeOK
<1>8. sem' \in Nat
  BY <1>1, <1>2 DEF TypeOK
<1> QED
  BY <1>1, <1>2, <1>4, <1>7, <1>8, InvFromParts DEF EntriesAccounted, TypeOK

-----------------------------------------------------------------------------
(***************************************************************************)
(* The steps of the worker.                                                *)
(***************************************************************************)

\* The round-robin successor of a queue is a queue.
LEMMA NextQType ==
  ASSUME NEW q \in Queues
  PROVE  NextQ(q) \in Queues
BY WorkerAssumption DEF NextQ

\* The semaphore wakes the worker up.
LEMMA AwakeInv ==
  ASSUME Inv, Awake
  PROVE  Inv'
<1>1. QueueInv /\ TypeOK /\ Roles /\ EntriesAccounted /\ Worker \in Threads
  BY WorkerAssumption DEF Inv
<1>2. /\ pc[Worker] = "wait"
      /\ sem > 0 /\ sem' = sem - 1
      /\ Goto(Worker, "popHead")
      /\ list' = [list EXCEPT ![Worker] = Full(qi)]
      /\ UNCHANGED <<top, next, qhead, qnext, qe, chain, qi, qidx, lost>>
  BY DEF Awake
<1>3. qe[Worker] = NULL
  BY <1>1, <1>2 DEF Roles, WorkerRole
<1>4. list' \in [Threads -> Lists] /\ list'[Worker] = Full(qi)
  BY <1>1, <1>2 DEF TypeOK, QueueTypeOK, Lists, Full
<1>5. QueueInv' /\ Placed' = Placed
  <2>1. "popHead" \in Labels \ (Busy \ {"pushHead"})
    BY DEF Labels, Busy
  <2> QED
    BY <1>1, <1>2, <1>3, <1>4, <2>1, ClientStepInv
<1>6. pc' = [pc EXCEPT ![Worker] = "popHead"] /\ pc'[Worker] = "popHead"
  BY <1>1, <1>2 DEF Goto, TypeOK, QueueTypeOK
<1>7. WorkerRole'
  BY <1>2, <1>4, <1>6 DEF WorkerRole, Popping, Pushing, Full
<1>8. Roles'
  BY <1>1, <1>2, <1>6, <1>7, WorkerRoles DEF TypeOK, QueueTypeOK
<1>9. sem' \in Nat
  BY <1>1, <1>2 DEF TypeOK
<1> QED
  BY <1>1, <1>2, <1>5, <1>8, <1>9, InvFromParts DEF EntriesAccounted, TypeOK

\* One probe of the scan reads a head pointer.
LEMMA ScanHeadInv ==
  ASSUME Inv, ScanHead
  PROVE  Inv'
<1>1. QueueInv /\ TypeOK /\ Roles /\ EntriesAccounted /\ Worker \in Threads
  BY WorkerAssumption DEF Inv
<1>2. /\ PopHead(Worker, "popHead")
      /\ UNCHANGED <<sem, qidx, lost>>
      /\ \/ /\ top[list[Worker]] = NULL
            /\ qi' = NextQ(qi)
            /\ list' = [list EXCEPT ![Worker] = Full(NextQ(qi))]
         \/ /\ top[list[Worker]] # NULL
            /\ UNCHANGED <<qi, list>>
  BY DEF ScanHead
<1>3. QueueTypeOK /\ NextQ(qi) \in Queues
  BY <1>1, NextQType DEF TypeOK
<1>4. /\ list' \in [Threads -> Lists]
      /\ \A u \in Threads : u # Worker \/ top[list[Worker]] # NULL => list'[u] = list[u]
  <2>1. Full(NextQ(qi)) \in Lists
    BY <1>3 DEF Lists, Full
  <2>2. list \in [Threads -> Lists]
    BY <1>3 DEF QueueTypeOK
  <2>3. CASE top[list[Worker]] = NULL
    BY <1>1, <1>2, <2>1, <2>2, <2>3
  <2>4. CASE top[list[Worker]] # NULL
    BY <1>2, <2>2, <2>4
  <2> QED
    BY <2>3, <2>4
<1>5. QueueInv' /\ Placed' = Placed
  <2>1. "popHead" \in Labels \ Busy
    BY DEF Labels, Busy
  <2> QED
    BY <1>1, <1>2, <1>4, <2>1, PopHeadInv
<1>6. /\ pc[Worker] = "popHead"
      /\ pc'[Worker] \in {"popHead", "popNext"}
      /\ qe' = qe
      /\ \A u \in Threads : u # Worker => pc'[u] = pc[u]
  BY <1>1, <1>2, <1>3 DEF PopHead, Goto, QueueTypeOK
<1>7. list'[Worker] = Full(qi')
  BY <1>1, <1>2, <1>3, <1>6 DEF Roles, WorkerRole, Popping, QueueTypeOK
<1>8. WorkerRole'
  BY <1>6, <1>7 DEF WorkerRole, Popping, Pushing
<1>9. Roles'
  BY <1>1, <1>4, <1>6, <1>8, WorkerRoles
<1> QED
  BY <1>1, <1>2, <1>3, <1>5, <1>9, InvFromParts DEF EntriesAccounted, TypeOK

\* The rest of a successful probe.
LEMMA ScanPopInv ==
  ASSUME OneFeederPerQueue, Inv, ScanPop
  PROVE  Inv'
<1>1. QueueInv /\ TypeOK /\ Roles /\ EntriesAccounted /\ Worker \in Threads
  BY WorkerAssumption DEF Inv
<1>2. UNCHANGED <<sem, qi, qidx, lost>>
  BY DEF ScanPop
<1>3. QueueTypeOK /\ WorkerRole /\ SoleGetter
  BY <1>1, RolesGiveSoleGetter DEF TypeOK, Roles
<1>4. /\ QueueInv'
      /\ Placed' = Placed
      /\ WorkerRole'
      /\ \A t \in Threads : t # Worker => /\ pc'[t] = pc[t]
                                          /\ list'[t] = list[t]
                                          /\ qe'[t] = qe[t]
  <2>1. CASE PopNext(Worker)
    <3>1. QueueInv' /\ Placed' = Placed
      BY <1>1, <2>1, PopNextInv
    <3> QED
      BY <1>1, <1>2, <1>3, <2>1, <3>1
         DEF QueueTypeOK, PopNext, Goto, WorkerRole, Popping, Pushing, Full
  <2>2. CASE PopCas(Worker)
    <3>1. QueueInv' /\ Placed' = Placed
      BY <1>1, <1>3, <2>2, PopCasInv
    <3> QED
      BY <1>1, <1>2, <1>3, <2>2, <3>1
         DEF QueueTypeOK, PopCas, Goto, WorkerRole, Popping, Pushing, Full
  <2> QED
    BY <2>1, <2>2 DEF ScanPop
<1>5. Roles'
  BY <1>1, <1>4, WorkerRoles
<1> QED
  BY <1>1, <1>2, <1>4, <1>5, InvFromParts DEF EntriesAccounted, TypeOK

\* The scan hands its entry to the worker.
LEMMA ScanDoneInv ==
  ASSUME Inv, ScanDone
  PROVE  Inv'
<1>1. QueueInv /\ TypeOK /\ Roles /\ EntriesAccounted /\ Worker \in Threads
  BY WorkerAssumption DEF Inv
<1>2. PopDetach(Worker, "run") /\ qi' = NextQ(qi) /\ UNCHANGED <<list, sem, qidx, lost>>
  BY DEF ScanDone
<1>3. QueueTypeOK /\ NextQ(qi) \in Queues
  BY <1>1, NextQType DEF TypeOK
<1>4. QueueInv' /\ Placed' = Placed
  <2>1. "run" \in Labels \ Busy
    BY DEF Labels, Busy
  <2> QED
    BY <1>1, <1>2, <2>1, PopDetachInv
<1>5. qhead[Worker] \in Entries
  BY <1>1, <1>2 DEF QueueInv, LocalsAgree, PopDetach
<1>6. /\ pc'[Worker] = "run" /\ qe'[Worker] \in Entries
      /\ \A t \in Threads : t # Worker => /\ pc'[t] = pc[t]
                                          /\ list'[t] = list[t]
                                          /\ qe'[t] = qe[t]
  BY <1>1, <1>2, <1>3, <1>5 DEF PopDetach, Goto, QueueTypeOK
<1>7. WorkerRole'
  BY <1>6 DEF WorkerRole, Popping, Pushing
<1>8. Roles'
  BY <1>1, <1>6, <1>7, WorkerRoles
<1> QED
  BY <1>1, <1>2, <1>3, <1>4, <1>8, InvFromParts DEF EntriesAccounted, TypeOK

\* The function runs; the worker is about to put its entry back somewhere.
LEMMA RunFuncInv ==
  ASSUME Inv, RunFunc
  PROVE  Inv'
<1>1. QueueInv /\ TypeOK /\ Roles /\ EntriesAccounted /\ Worker \in Threads
  BY WorkerAssumption DEF Inv
<1>2. /\ pc[Worker] = "run"
      /\ UNCHANGED <<top, next, qhead, qnext, qe, chain, sem, qi, qidx, lost>>
  BY DEF RunFunc
<1>3. PICK label \in {"fault", "pushHead"} :
        /\ Goto(Worker, label)
        /\ label = "fault" => list' = list
        /\ label = "pushHead" =>
             /\ qidx \in Queues
             /\ list' = [list EXCEPT ![Worker] = Empty(qidx)]
  BY <1>1 DEF RunFunc, TypeOK
<1>4. qe[Worker] \in Entries
  BY <1>1, <1>2 DEF Roles, WorkerRole
<1>5. /\ list' \in [Threads -> Lists]
      /\ \A t \in Threads : t # Worker => list'[t] = list[t]
      /\ label = "pushHead" => list'[Worker][2] = "empty"
  <2>1. list \in [Threads -> Lists]
    BY <1>1 DEF TypeOK, QueueTypeOK
  <2>2. label = "pushHead" => Empty(qidx) \in Lists /\ Empty(qidx)[2] = "empty"
    BY <1>3 DEF Lists, Empty
  <2>3. CASE label = "fault"
    BY <1>3, <2>1, <2>3
  <2>4. CASE label = "pushHead"
    BY <1>1, <1>3, <2>1, <2>2, <2>4
  <2> QED
    BY <2>3, <2>4
<1>6. QueueInv' /\ Placed' = Placed
  <2>1. label \in Labels \ (Busy \ {"pushHead"}) /\ label # "popHead"
    BY DEF Labels, Busy
  <2> QED
    BY <1>1, <1>2, <1>3, <1>4, <1>5, <2>1, ClientStepInv
<1>7. pc' = [pc EXCEPT ![Worker] = label] /\ pc'[Worker] = label
  BY <1>1, <1>3 DEF Goto, TypeOK, QueueTypeOK
<1>8. WorkerRole'
  BY <1>2, <1>4, <1>5, <1>7 DEF WorkerRole, Popping, Pushing
<1>9. Roles'
  BY <1>1, <1>2, <1>5, <1>7, <1>8, WorkerRoles DEF TypeOK, QueueTypeOK
<1> QED
  BY <1>1, <1>2, <1>6, <1>9, InvFromParts DEF EntriesAccounted, TypeOK

\* queue_putBackEmptyEntry.
LEMMA WorkerPushInv ==
  ASSUME Inv, WorkerPush
  PROVE  Inv'
<1>1. QueueInv /\ TypeOK /\ Roles /\ EntriesAccounted /\ Worker \in Threads
  BY WorkerAssumption DEF Inv
<1>2. UNCHANGED <<sem, qi, qidx, lost>>
  BY DEF WorkerPush
<1>3. QueueTypeOK /\ WorkerRole /\ "wait" \in Labels \ Busy
  BY <1>1 DEF TypeOK, Roles, Labels, Busy
<1>4. /\ QueueInv'
      /\ Placed' = Placed
      /\ WorkerRole'
      /\ \A t \in Threads : t # Worker => /\ pc'[t] = pc[t]
                                          /\ list'[t] = list[t]
                                          /\ qe'[t] = qe[t]
  <2>1. CASE PushHead(Worker)
    <3>1. QueueInv' /\ Placed' = Placed
      BY <1>1, <2>1, PushHeadInv
    <3> QED
      BY <1>1, <1>3, <2>1, <3>1
         DEF QueueTypeOK, PushHead, Goto, WorkerRole, Popping, Pushing
  <2>2. CASE PushLink(Worker)
    <3>1. QueueInv' /\ Placed' = Placed
      BY <1>1, <2>2, PushLinkInv
    <3> QED
      BY <1>1, <1>3, <2>2, <3>1
         DEF QueueTypeOK, PushLink, Goto, WorkerRole, Popping, Pushing
  <2>3. CASE PushCas(Worker, "wait")
    <3>1. QueueInv' /\ Placed' = Placed
      BY <1>1, <1>3, <2>3, PushCasInv
    <3> QED
      BY <1>1, <1>3, <2>3, <3>1
         DEF QueueTypeOK, PushCas, Goto, WorkerRole, Popping, Pushing
  <2> QED
    BY <2>1, <2>2, <2>3 DEF WorkerPush
<1>5. Roles'
  BY <1>1, <1>4, WorkerRoles
<1> QED
  BY <1>1, <1>2, <1>4, <1>5, InvFromParts DEF EntriesAccounted, TypeOK

-----------------------------------------------------------------------------
\* Every step preserves the invariant.
LEMMA NextInv ==
  ASSUME OneFeederPerQueue
  PROVE  Inv /\ [Next]_vars => Inv'
<1> SUFFICES ASSUME Inv, [Next]_vars
             PROVE  Inv'
  OBVIOUS
<1>1. ASSUME NEW p \in Inputs, NEW q \in Queues, GetQueueEntry(p, q)
      PROVE  Inv'
  BY <1>1, GetQueueEntryInv
<1>2. ASSUME NEW p \in Inputs, PutBackQueueEntry(p)
      PROVE  Inv'
  BY <1>2, PutBackQueueEntryInv
<1>3. ASSUME NEW p \in Inputs, LoseConnection(p)
      PROVE  Inv'
  BY <1>3, LoseConnectionInv
<1>4. ASSUME NEW p \in Inputs, InputStep(p)
      PROVE  Inv'
  BY <1>4, InputPopInv, InputPushInv, SignalInv DEF InputStep
<1>5. CASE WorkerStep
  BY <1>5, AwakeInv, ScanHeadInv, ScanPopInv, ScanDoneInv, RunFuncInv,
     WorkerPushInv DEF WorkerStep
<1>6. CASE UNCHANGED vars
  <2>1. UNCHANGED <<top, next, pc, list, qhead, qnext, qe, chain, sem, qi, qidx, lost>>
    BY <1>6 DEF vars, qvars
  <2>2. QueueInv' /\ Placed' = Placed
    BY <2>1 DEF Inv, QueueInv, QueueTypeOK, ListsWellFormed, ExclusiveEntries,
                LocalsAgree, Holding, Popping, Pushing, Placed, Listed, Held
  <2>3. Roles'
    BY <2>1 DEF Inv, Roles, InputRole, WorkerRole, Popping, Pushing
  <2> QED
    BY <2>1, <2>2, <2>3, InvFromParts DEF Inv, EntriesAccounted, TypeOK
<1> QED
  BY <1>1, <1>2, <1>3, <1>4, <1>5, <1>6 DEF Next

\* With one input thread per queue, the invariant holds for ever.
THEOREM Invariance ==
  ASSUME OneFeederPerQueue
  PROVE  Spec => []Inv
<1>1. Init => Inv
  BY InitInv
<1>2. Inv /\ [Next]_vars => Inv'
  BY NextInv
<1> QED
  BY <1>1, <1>2, PTL DEF Spec

\* Type correctness.
THEOREM TypeCorrect ==
  ASSUME OneFeederPerQueue
  PROVE  Spec => []TypeOK
<1>1. Inv => TypeOK
  BY DEF Inv
<1> QED
  BY <1>1, Invariance, PTL

\* The compare-and-swap loops of queue.h keep every list of the worker well
\* formed: no interleaving with one getter per list installs a stale qe_next.
THEOREM ListsStayIntact ==
  ASSUME OneFeederPerQueue
  PROVE  Spec => []ListIntegrity
<1>1. Inv => ListIntegrity
  BY DEF Inv, QueueInv, ListIntegrity
<1> QED
  BY <1>1, Invariance, PTL

\* No entry is handed out twice, and none disappears but with its connection.
THEOREM NoEntryMisplaced ==
  ASSUME OneFeederPerQueue
  PROVE  Spec => []EntriesAccounted
<1>1. Inv => EntriesAccounted
  BY DEF Inv
<1> QED
  BY <1>1, Invariance, PTL

-----------------------------------------------------------------------------
(***************************************************************************)
(* Counting.                                                               *)
(***************************************************************************)

\* A worker has finitely many entries.
LEMMA EntriesFinite == IsFiniteSet(Entries)
<1>1. NumQs - 1 \in Int /\ QLen - 1 \in Int
  BY QueueAssumption, WorkerAssumption
<1>2. IsFiniteSet(Queues) /\ IsFiniteSet(0 .. QLen - 1)
  BY <1>1, FS_Interval, WorkerAssumption
<1> QED
  BY <1>2, FS_Product DEF Entries

\* The input threads that have put an entry on a full list and not yet
\* signalled it.
Signallers == {p \in Inputs : pc[p] = "signal"}

\* The token in the hands of the worker.
InScan == IF Scanning THEN 1 ELSE 0

\* There are finitely many of them.
LEMMA SignallersFinite == IsFiniteSet(Signallers)
BY FS_Subset, WorkerAssumption DEF Signallers

\* A step that moves no token and no full entry.
LEMMA TokensFrame ==
  ASSUME TokensMatchEntries,
         OnList("full")' = OnList("full"), sem' = sem,
         InScan' = InScan, Signallers' = Signallers
  PROVE  TokensMatchEntries'
BY DEF TokensMatchEntries, InScan, Signallers

\* A step of an input thread that neither becomes nor was a signaller is no
\* change of the signallers; the scan is the worker's.
LEMMA InputFrame ==
  ASSUME Inv, NEW p \in Inputs,
         \A t \in Threads : t # p => pc'[t] = pc[t] /\ list'[t] = list[t]
  PROVE  /\ InScan' = InScan
         /\ pc[p] # "signal" /\ pc'[p] # "signal" => Signallers' = Signallers
         /\ pc[p] # "signal" /\ pc'[p] = "signal" =>
              p \notin Signallers /\ Signallers' = Signallers \cup {p}
         /\ pc[p] = "signal" /\ pc'[p] # "signal" =>
              p \in Signallers /\ Signallers' = Signallers \ {p}
<1>1. p # Worker /\ Worker \in Threads /\ Inputs \subseteq Threads
  BY WorkerAssumption
<1>2. InScan' = InScan
  BY <1>1 DEF InScan, Scanning
<1> QED
  BY <1>1, <1>2 DEF Signallers

\* A step of the worker changes no signaller.
LEMMA WorkerFrame ==
  ASSUME \A t \in Threads : t # Worker => pc'[t] = pc[t]
  PROVE  Signallers' = Signallers
BY WorkerAssumption DEF Signallers

-----------------------------------------------------------------------------
(***************************************************************************)
(* The semaphore counts the full entries.                                  *)
(***************************************************************************)

\* worker_putBackQueueEntry pushes first and signals second.
LEMMA InputTokens ==
  ASSUME Inv, TokensMatchEntries, NEW p \in Inputs, InputStep(p)
  PROVE  TokensMatchEntries'
<1>1. QueueInv /\ QueueTypeOK /\ InputRole(p) /\ p \in Threads /\ sem \in Nat
  BY WorkerAssumption DEF Inv, TypeOK, Roles
<1>2. /\ IsFiniteSet(OnList("full")) /\ IsFiniteSet(Signallers)
      /\ Cardinality(OnList("full")) \in Nat /\ Cardinality(Signallers) \in Nat
      /\ InScan \in Nat
      /\ Cardinality(OnList("full")) = sem + InScan + Cardinality(Signallers)
  BY <1>1, OnListFinite, EntriesFinite, SignallersFinite, FS_CardinalityType
     DEF TokensMatchEntries, InScan, Signallers
<1>3. CASE \/ PopHead(p, "idle") /\ UNCHANGED list
           \/ PopNext(p)
           \/ PopDetach(p, "fill") /\ UNCHANGED list
           \/ PushHead(p)
           \/ PushLink(p)
  <2>1. /\ pc[p] # "signal" /\ pc'[p] # "signal"
        /\ \A t \in Threads : t # p => pc'[t] = pc[t] /\ list'[t] = list[t]
        /\ chain' = chain
    BY <1>1, <1>3 DEF PopHead, PopNext, PopDetach, PushHead, PushLink, Goto, QueueTypeOK
  <2>2. sem' = sem
    BY <1>3 DEF InputStep, InputPop, InputPush, Signal, PopHead, PopNext, PopDetach,
                PushHead, PushLink
  <2> QED
    BY <2>1, <2>2, OnListFrame, InputFrame, TokensFrame
<1>4. CASE PopCas(p)
  <2>1. /\ pc[p] = "popCas" /\ pc'[p] \in {"popHead", "popDetach"}
        /\ list[p][2] = "empty"
        /\ \A t \in Threads : t # p => pc'[t] = pc[t] /\ list'[t] = list[t]
    BY <1>1, <1>4 DEF PopCas, Goto, QueueTypeOK, InputRole, Popping, Empty
  <2>2. sem' = sem
    BY <2>1 DEF InputStep, InputPop, InputPush, Signal
  <2>3. OnList("full")' = OnList("full")
    <3>1. CASE top[list[p]] = qhead[p]
      BY <1>1, <1>4, <2>1, <3>1, PopCasTakes
    <3>2. CASE top[list[p]] # qhead[p]
      BY <1>4, <3>2, OnListFrame DEF PopCas
    <3> QED
      BY <3>1, <3>2
  <2> QED
    BY <2>1, <2>2, <2>3, InputFrame, TokensFrame
<1>5. CASE PushCas(p, "signal")
  <2>1. /\ pc[p] = "pushCas" /\ list[p][2] = "full"
        /\ \A t \in Threads : t # p => pc'[t] = pc[t] /\ list'[t] = list[t]
    BY <1>1, <1>5 DEF PushCas, Goto, QueueTypeOK, InputRole, Pushing
  <2>2. sem' = sem
    BY <2>1 DEF InputStep, InputPop, InputPush, Signal
  <2>3. CASE top[list[p]] = qhead[p]
    <3>1. "signal" \in Labels \ Busy
      BY DEF Labels, Busy
    <3>2. /\ pc'[p] = "signal"
          /\ qe[p] \notin OnList("full")
          /\ OnList("full")' = OnList("full") \cup {qe[p]}
      BY <1>1, <1>5, <2>1, <2>3, <3>1, PushCasGives
    <3>3. Cardinality(OnList("full")') = Cardinality(OnList("full")) + 1
      BY <1>2, <3>2, FS_AddElement
    <3>4. /\ InScan' = InScan
          /\ p \notin Signallers /\ Signallers' = Signallers \cup {p}
      BY <2>1, <3>2, InputFrame
    <3>5. Cardinality(Signallers') = Cardinality(Signallers) + 1
      BY <1>2, <3>4, FS_AddElement
    <3>6. Cardinality(OnList("full")') = sem' + InScan' + Cardinality(Signallers')
      BY <1>1, <1>2, <2>2, <3>3, <3>4, <3>5
    <3> QED
      BY <3>6 DEF TokensMatchEntries, InScan, Signallers
  <2>4. CASE top[list[p]] # qhead[p]
    <3>1. pc'[p] = "pushHead" /\ chain' = chain
      BY <1>1, <1>5, <2>4 DEF PushCas, Goto, QueueTypeOK
    <3> QED
      BY <2>1, <2>2, <3>1, OnListFrame, InputFrame, TokensFrame
  <2> QED
    BY <2>3, <2>4
<1>6. CASE Signal(p)
  <2>1. /\ pc[p] = "signal" /\ pc'[p] = "idle" /\ sem' = sem + 1 /\ chain' = chain
        /\ \A t \in Threads : t # p => pc'[t] = pc[t] /\ list'[t] = list[t]
    BY <1>1, <1>6 DEF Signal, Goto, QueueTypeOK
  <2>2. InScan' = InScan /\ p \in Signallers /\ Signallers' = Signallers \ {p}
    BY <2>1, InputFrame
  <2>3. Cardinality(Signallers') = Cardinality(Signallers) - 1
    BY <1>2, <2>2, FS_RemoveElement
  <2>4. OnList("full")' = OnList("full")
    BY <2>1, OnListFrame
  <2>5. Cardinality(OnList("full")') = sem' + InScan' + Cardinality(Signallers')
    BY <1>1, <1>2, <2>1, <2>2, <2>3, <2>4
  <2> QED
    BY <2>5 DEF TokensMatchEntries, InScan, Signallers
<1> QED
  BY <1>3, <1>4, <1>5, <1>6 DEF InputStep, InputPop, InputPush

\* The other steps of an input thread, up to its peer.
LEMMA PeerTokens ==
  ASSUME Inv, TokensMatchEntries, NEW p \in Inputs,
         \/ \E q \in Queues : GetQueueEntry(p, q)
         \/ PutBackQueueEntry(p)
         \/ LoseConnection(p)
  PROVE  TokensMatchEntries'
<1>1. QueueTypeOK /\ p \in Threads
  BY WorkerAssumption DEF Inv, TypeOK
<1>2. /\ pc[p] # "signal" /\ pc'[p] # "signal"
      /\ \A t \in Threads : t # p => pc'[t] = pc[t] /\ list'[t] = list[t]
      /\ chain' = chain /\ sem' = sem
  BY <1>1 DEF GetQueueEntry, PutBackQueueEntry, LoseConnection, Goto, QueueTypeOK
<1> QED
  BY <1>2, OnListFrame, InputFrame, TokensFrame

\* The worker takes one token before a scan, and one entry at its end.
LEMMA WorkerTokens ==
  ASSUME Inv, TokensMatchEntries, WorkerStep
  PROVE  TokensMatchEntries'
<1>1. QueueInv /\ QueueTypeOK /\ WorkerRole /\ Worker \in Threads /\ sem \in Nat
  BY WorkerAssumption DEF Inv, TypeOK, Roles
<1>2. /\ IsFiniteSet(OnList("full"))
      /\ Cardinality(OnList("full")) \in Nat /\ Cardinality(Signallers) \in Nat
      /\ Cardinality(OnList("full")) = sem + InScan + Cardinality(Signallers)
  BY <1>1, OnListFinite, EntriesFinite, SignallersFinite, FS_CardinalityType
     DEF TokensMatchEntries, InScan, Signallers
<1>3. list[Worker][2] = "full" <=> list[Worker][2] # "empty"
  BY <1>1 DEF QueueTypeOK, Lists
<1>4. CASE Awake
  <2>1. /\ pc[Worker] = "wait" /\ pc'[Worker] = "popHead"
        /\ list'[Worker][2] = "full"
        /\ sem > 0 /\ sem' = sem - 1 /\ chain' = chain
        /\ \A t \in Threads : t # Worker => pc'[t] = pc[t]
    BY <1>1, <1>4 DEF Awake, Goto, QueueTypeOK, Full
  <2>2. InScan = 0 /\ InScan' = 1
    BY <2>1 DEF InScan, Scanning
  <2>3. Signallers' = Signallers /\ OnList("full")' = OnList("full")
    BY <2>1, WorkerFrame, OnListFrame
  <2>4. Cardinality(OnList("full")') = sem' + InScan' + Cardinality(Signallers')
    BY <1>1, <1>2, <2>1, <2>2, <2>3
  <2> QED
    BY <2>4 DEF TokensMatchEntries, InScan, Signallers
<1>5. CASE ScanHead
  <2>1. /\ pc[Worker] = "popHead" /\ pc'[Worker] \in {"popHead", "popNext"}
        /\ list[Worker][2] = "full" /\ list'[Worker][2] = "full"
        /\ sem' = sem /\ chain' = chain
        /\ \A t \in Threads : t # Worker => pc'[t] = pc[t]
    BY <1>1, <1>5 DEF ScanHead, PopHead, Goto, QueueTypeOK, Full
  <2>2. InScan = 1 /\ InScan' = 1
    BY <2>1 DEF InScan, Scanning
  <2> QED
    BY <2>1, <2>2, WorkerFrame, OnListFrame, TokensFrame
<1>6. CASE PopNext(Worker) /\ sem' = sem
  <2>1. /\ pc[Worker] = "popNext" /\ pc'[Worker] = "popCas"
        /\ list' = list /\ chain' = chain
        /\ \A t \in Threads : t # Worker => pc'[t] = pc[t]
    BY <1>1, <1>6 DEF PopNext, Goto, QueueTypeOK
  <2>2. InScan' = InScan
    BY <2>1 DEF InScan, Scanning
  <2> QED
    BY <1>6, <2>1, <2>2, WorkerFrame, OnListFrame, TokensFrame
<1>7. CASE PopCas(Worker) /\ sem' = sem
  <2>1. /\ pc[Worker] = "popCas" /\ pc'[Worker] \in {"popHead", "popDetach"}
        /\ list[Worker][2] = "full" /\ list' = list
        /\ \A t \in Threads : t # Worker => pc'[t] = pc[t]
    BY <1>1, <1>7 DEF PopCas, Goto, QueueTypeOK, WorkerRole, Popping, Full
  <2>2. CASE top[list[Worker]] = qhead[Worker]
    <3>1. /\ pc'[Worker] = "popDetach"
          /\ qhead[Worker] \in OnList("full")
          /\ OnList("full")' = OnList("full") \ {qhead[Worker]}
      BY <1>1, <1>7, <2>1, <2>2, PopCasTakes
    <3>2. Cardinality(OnList("full")') = Cardinality(OnList("full")) - 1
      BY <1>2, <3>1, FS_RemoveElement
    <3>3. InScan = 1 /\ InScan' = 0
      BY <2>1, <3>1 DEF InScan, Scanning
    <3>4. Signallers' = Signallers
      BY <2>1, WorkerFrame
    <3>5. Cardinality(OnList("full")') = sem' + InScan' + Cardinality(Signallers')
      BY <1>1, <1>2, <1>7, <3>2, <3>3, <3>4
    <3> QED
      BY <3>5 DEF TokensMatchEntries, InScan, Signallers
  <2>3. CASE top[list[Worker]] # qhead[Worker]
    <3>1. pc'[Worker] = "popHead" /\ chain' = chain
      BY <1>1, <1>7, <2>3 DEF PopCas, Goto, QueueTypeOK
    <3>2. InScan' = InScan
      BY <2>1, <3>1 DEF InScan, Scanning
    <3> QED
      BY <1>7, <2>1, <3>1, <3>2, WorkerFrame, OnListFrame, TokensFrame
  <2> QED
    BY <2>2, <2>3
<1>8. CASE ScanDone \/ RunFunc
           \/ (PushHead(Worker) /\ sem' = sem) \/ (PushLink(Worker) /\ sem' = sem)
  <2>1. /\ pc[Worker] \notin {"popHead", "popNext", "popCas"}
        /\ pc'[Worker] \notin {"popHead", "popNext", "popCas"}
        /\ chain' = chain /\ sem' = sem
        /\ \A t \in Threads : t # Worker => pc'[t] = pc[t]
    BY <1>1, <1>8 DEF ScanDone, RunFunc, PopDetach, PushHead, PushLink, Goto, QueueTypeOK
  <2>2. InScan = 0 /\ InScan' = 0
    BY <2>1 DEF InScan, Scanning
  <2> QED
    BY <2>1, <2>2, WorkerFrame, OnListFrame, TokensFrame
<1>9. CASE PushCas(Worker, "wait") /\ sem' = sem
  <2>1. /\ pc[Worker] = "pushCas" /\ pc'[Worker] \in {"pushHead", "wait"}
        /\ list[Worker][2] = "empty"
        /\ \A t \in Threads : t # Worker => pc'[t] = pc[t]
    BY <1>1, <1>9 DEF PushCas, Goto, QueueTypeOK, WorkerRole, Pushing
  <2>2. InScan = 0 /\ InScan' = 0
    BY <2>1 DEF InScan, Scanning
  <2>3. OnList("full")' = OnList("full")
    <3>1. CASE top[list[Worker]] = qhead[Worker]
      <4>1. "wait" \in Labels \ Busy
        BY DEF Labels, Busy
      <4> QED
        BY <1>1, <1>9, <2>1, <3>1, <4>1, PushCasGives
    <3>2. CASE top[list[Worker]] # qhead[Worker]
      BY <1>9, <3>2, OnListFrame DEF PushCas
    <3> QED
      BY <3>1, <3>2
  <2> QED
    BY <1>9, <2>1, <2>2, <2>3, WorkerFrame, TokensFrame
<1> QED
  BY <1>4, <1>5, <1>6, <1>7, <1>8, <1>9 DEF WorkerStep, ScanPop, WorkerPush

\* The worker's semaphore counts its full entries: every one is paid for by a
\* token, by the scan in progress or by an input about to signal.
THEOREM SemaphoreCountsEntries ==
  ASSUME OneFeederPerQueue
  PROVE  Spec => []TokensMatchEntries
<1>1. Init => TokensMatchEntries
  <2> SUFFICES ASSUME Init
               PROVE  TokensMatchEntries
    OBVIOUS
  <2>1. /\ pc = [t \in Threads |-> IF t = Worker THEN "wait" ELSE "idle"]
        /\ \A q \in Queues : chain[<<q, "full">>] = << >>
        /\ sem = 0
    BY DEF Init, QueueInit, Lists
  <2>2. OnList("full") = {}
    BY <2>1, NothingListed
  <2>3. Signallers = {} /\ InScan = 0
    BY <2>1, WorkerAssumption DEF Signallers, InScan, Scanning
  <2>4. Cardinality({}) = 0
    BY FS_EmptySet
  <2>5. Cardinality(OnList("full")) = 0 /\ Cardinality(Signallers) = 0
    BY <2>2, <2>3, <2>4
  <2>6. Cardinality(OnList("full")) = sem + InScan + Cardinality(Signallers)
    BY <2>1, <2>3, <2>5
  <2> QED
    BY <2>6 DEF TokensMatchEntries, Signallers, InScan
<1>2. Inv /\ TokensMatchEntries /\ [Next]_vars => TokensMatchEntries'
  <2> SUFFICES ASSUME Inv, TokensMatchEntries, [Next]_vars
               PROVE  TokensMatchEntries'
    OBVIOUS
  <2>1. CASE UNCHANGED vars
    BY <2>1 DEF vars, qvars, TokensMatchEntries, OnList, Scanning
  <2> QED
    BY <2>1, InputTokens, PeerTokens, WorkerTokens DEF Next
<1> QED
  BY <1>1, <1>2, Invariance, PTL DEF Spec

\* "grab a full entry -- must exist if semaphore was signaled": a scan always
\* has a full entry to find.
THEOREM ScanFindsEntry ==
  ASSUME OneFeederPerQueue
  PROVE  Spec => []SignalledEntryExists
<1>1. Inv /\ TokensMatchEntries => SignalledEntryExists
  <2> SUFFICES ASSUME Inv, TokensMatchEntries, Scanning
               PROVE  \E q \in Queues : top[Full(q)] # NULL
    BY DEF SignalledEntryExists
  <2>1. QueueTypeOK /\ ListsWellFormed /\ sem \in Nat
    BY DEF Inv, TypeOK, QueueInv
  <2>2. Cardinality(OnList("full")) > 0
    BY <2>1, SignallersFinite, FS_CardinalityType DEF TokensMatchEntries, Signallers
  <2>3. OnList("full") # {}
    BY <2>2, FS_EmptySet
  <2>4. PICK q \in Queues : chain[Full(q)] # << >>
    BY <2>3, NothingListed DEF Full
  <2>5. Full(q) \in Lists
    BY DEF Full, Lists
  <2>6. top[Full(q)] = Last(chain[Full(q)]) /\ chain[Full(q)] \in Seq(Entries)
    BY <2>1, <2>4, <2>5 DEF ListsWellFormed, Linked, QueueTypeOK
  <2>7. Last(chain[Full(q)]) \in Entries
    BY <2>4, <2>6, EmptySeq, LenProperties DEF Last
  <2> QED
    BY <2>6, <2>7, QueueAssumption
<1> QED
  BY <1>1, SemaphoreCountsEntries, Invariance, PTL

-----------------------------------------------------------------------------
(***************************************************************************)
(* The queues implement the abstract pool.                                 *)
(***************************************************************************)

\* An input thread gets an empty entry, puts a full one on its list, or loses
\* one; every other step of its calls is a stutter.
LEMMA InputRefines ==
  ASSUME Inv, Inv', OwnerIs, OwnerIs', NEW p \in Inputs,
         \/ \E q \in Queues : GetQueueEntry(p, q)
         \/ PutBackQueueEntry(p)
         \/ LoseConnection(p)
         \/ InputStep(p)
  PROVE  Pool!Next \/ Owner' = Owner
<1>1. /\ QueueInv /\ QueueTypeOK /\ InputRole(p) /\ p \in Threads
      /\ "idle" \in Labels \ Busy /\ "fill" \in Labels \ Busy /\ "signal" \in Labels \ Busy
  BY WorkerAssumption DEF Inv, TypeOK, Roles, Labels, Busy
<1>2. CASE (\E q \in Queues : GetQueueEntry(p, q)) \/ PutBackQueueEntry(p) \/ Signal(p)
  <2>1. chain' = chain /\ \A u \in Threads : Holding(u)' = Holding(u)
    BY <1>1, <1>2 DEF GetQueueEntry, PutBackQueueEntry, Signal, Goto, Holding, QueueTypeOK
  <2> QED
    BY <2>1, OwnersStay
<1>3. CASE LoseConnection(p)
  <2>1. /\ pc[p] = "fill" /\ lost' = lost \cup {qe[p]} /\ chain' = chain
        /\ Holding(p) = qe[p] /\ qe[p] \in Entries
        /\ Holding(p)' = NULL
        /\ \A u \in Threads : u # p => Holding(u)' = Holding(u)
    BY <1>1, <1>3 DEF LoseConnection, Goto, Holding, QueueTypeOK, InputRole
  <2>2. qe[p] \notin Placed'
    BY <2>1 DEF Inv, EntriesAccounted
  <2>3. Owner[qe[p]] = p /\ Owner'[qe[p]] = "lost"
    BY <1>1, <2>1, <2>2 DEF OwnerIs
  <2>4. Owner' = [Owner EXCEPT ![qe[p]] = "lost"]
    BY <1>1, <2>1, <2>3, OnListFrame, OwnersMove DEF Places
  <2>5. Pool!Lose(p, qe[p])
    BY <2>3, <2>4 DEF Pool!Lose, Pool!Move
  <2> QED
    BY <2>1, <2>5 DEF Pool!Next
<1>4. CASE PopCas(p) /\ top[list[p]] = qhead[p]
  <2>1. list[p][2] = "empty"
    BY <1>1, <1>4 DEF PopCas, InputRole, Popping, Empty
  <2>2. Pool!GetEmpty(p, qhead[p]) /\ qhead[p] \in Entries
    BY <1>1, <1>4, <2>1, PopMoves DEF Pool!GetEmpty, Pool!Move, Pool!Free
  <2> QED
    BY <2>2 DEF Pool!Next
<1>5. CASE PushCas(p, "signal") /\ top[list[p]] = qhead[p]
  <2>1. list[p][2] = "full"
    BY <1>1, <1>5 DEF PushCas, InputRole, Pushing
  <2>2. Pool!PutFull(p, qe[p]) /\ qe[p] \in Entries
    BY <1>1, <1>5, <2>1, PushMoves DEF Pool!PutFull, Pool!Move
  <2> QED
    BY <2>2 DEF Pool!Next
<1>6. CASE \/ PopHead(p, "idle")
           \/ PopNext(p)
           \/ PopCas(p) /\ top[list[p]] # qhead[p]
           \/ PopDetach(p, "fill")
           \/ PushHead(p)
           \/ PushLink(p)
           \/ PushCas(p, "signal") /\ top[list[p]] # qhead[p]
  <2>1. chain' = chain /\ \A u \in Threads : Holding(u)' = Holding(u)
    BY <1>1, <1>6, QuietStep
  <2> QED
    BY <2>1, OwnersStay
<1> QED
  BY <1>2, <1>3, <1>4, <1>5, <1>6 DEF InputStep, InputPop, InputPush

\* The worker gets a full entry and puts an empty one on a list.
LEMMA WorkerRefines ==
  ASSUME Inv, OwnerIs, OwnerIs', WorkerStep
  PROVE  Pool!Next \/ Owner' = Owner
<1>1. /\ QueueInv /\ QueueTypeOK /\ WorkerRole /\ Worker \in Threads
      /\ "popHead" \in Labels \ Busy /\ "run" \in Labels \ Busy /\ "wait" \in Labels \ Busy
  BY WorkerAssumption DEF Inv, TypeOK, Roles, Labels, Busy
<1>2. CASE Awake \/ RunFunc
  <2>1. chain' = chain /\ \A u \in Threads : Holding(u)' = Holding(u)
    BY <1>1, <1>2 DEF Awake, RunFunc, Goto, Holding, QueueTypeOK
  <2> QED
    BY <2>1, OwnersStay
<1>3. CASE PopCas(Worker) /\ top[list[Worker]] = qhead[Worker]
  <2>1. list[Worker][2] = "full"
    BY <1>1, <1>3 DEF PopCas, WorkerRole, Popping, Full
  <2>2. Pool!GetFull(qhead[Worker]) /\ qhead[Worker] \in Entries
    BY <1>1, <1>3, <2>1, PopMoves DEF Pool!GetFull, Pool!Move, Pool!Free
  <2> QED
    BY <2>2 DEF Pool!Next
<1>4. CASE PushCas(Worker, "wait") /\ top[list[Worker]] = qhead[Worker]
  <2>1. list[Worker][2] = "empty"
    BY <1>1, <1>4 DEF PushCas, WorkerRole, Pushing
  <2>2. Pool!PutEmpty(qe[Worker]) /\ qe[Worker] \in Entries
    BY <1>1, <1>4, <2>1, PushMoves DEF Pool!PutEmpty, Pool!Move
  <2> QED
    BY <2>2 DEF Pool!Next
<1>5. CASE \/ PopHead(Worker, "popHead")
           \/ PopNext(Worker)
           \/ PopCas(Worker) /\ top[list[Worker]] # qhead[Worker]
           \/ PopDetach(Worker, "run")
           \/ PushHead(Worker)
           \/ PushLink(Worker)
           \/ PushCas(Worker, "wait") /\ top[list[Worker]] # qhead[Worker]
  <2>1. chain' = chain /\ \A u \in Threads : Holding(u)' = Holding(u)
    BY <1>1, <1>5, QuietStep
  <2> QED
    BY <2>1, OwnersStay
<1> QED
  BY <1>2, <1>3, <1>4, <1>5 DEF WorkerStep, ScanHead, ScanPop, ScanDone, WorkerPush

\* The lock-free queues of a worker, its semaphore, its input threads and its
\* scan implement the abstract pool: an entry moves from the empty entries to
\* one input, to the full entries, to the worker and back, one owner at a time.
THEOREM QueuesImplementPool ==
  ASSUME OneFeederPerQueue
  PROVE  Spec => ImplementsEntryPool
<1>1. Init => Pool!Init
  <2> DEFINE start == [t \in Threads |-> IF t = Worker THEN "wait" ELSE "idle"]
  <2> SUFFICES ASSUME Init
               PROVE  Pool!Init
    OBVIOUS
  <2>1. QueueInv /\ Placed = Entries
    BY InitInv DEF Inv, EntriesAccounted, Init
  <2>2. /\ start \in [Threads -> Labels] /\ QueueInit(start)
        /\ \A t \in Threads : start[t] # "popDetach"
    BY DEF Init, Labels, Busy
  <2> QED
    BY <2>1, <2>2, OwnersInit DEF Pool!Init
<1>2. Inv /\ Inv' /\ [Next]_vars => [Pool!Next]_(Pool!vars)
  <2> SUFFICES ASSUME Inv, Inv', [Next]_vars
               PROVE  Pool!Next \/ Owner' = Owner
    BY DEF Pool!vars
  <2>1. OwnerIs /\ OwnerIs'
    BY OwnerFacts, PTL DEF Inv
  <2>2. CASE UNCHANGED vars
    BY <2>2 DEF vars, qvars, Owner, OnList, Held, Holding
  <2> QED
    BY <2>1, <2>2, InputRefines, WorkerRefines DEF Next
<1> QED
  BY <1>1, <1>2, Invariance, PTL DEF Spec, ImplementsEntryPool, Pool!Spec
=============================================================================
