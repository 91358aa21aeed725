---------------------------- MODULE WorkerQueues ----------------------------
(***************************************************************************)
(* The input side of one worker (worker.c): its array of queues, filled by *)
(* input threads, its counting semaphore, and its thread, which waits on   *)
(* the semaphore, scans the queues round robin for a full entry            *)
(* (rr_queue_scan.c), runs the function on it and puts the entry back.     *)
(* Interleaving is at the level of single memory accesses (module Queue).  *)
(***************************************************************************)
EXTENDS Queue, FiniteSets

CONSTANTS
  Inputs,       \* the input threads whose messages address this worker
  Worker,       \* the worker's thread
  NumQs,        \* worker->numqs
  Routes,       \* Routes[p]: the queue indices that messages of input p carry
  QidxValues,   \* the values the uninitialised local qidx may hold
  OutOfRange    \* a qidx that is no index of worker->queues

ASSUME WorkerAssumption ==
  /\ NumQs \in Nat \ {0}
  /\ Queues = 0 .. NumQs - 1
  /\ Worker \notin Inputs
  /\ Threads = Inputs \cup {Worker}
  /\ IsFiniteSet(Inputs)
  /\ Routes \in [Inputs -> SUBSET Queues]
  /\ OutOfRange \notin Queues
  /\ QidxValues \subseteq Queues \cup {OutOfRange}

VARIABLES
  sem,      \* value of the worker's semaphore (semid, semaphore #0)
  qi,       \* round-robin scan state: the queue the scan looks at next
  qidx,     \* local qidx of worker_thread_loop
  lost      \* entries dropped with their connection, on no list any more

vars == <<qvars, sem, qi, qidx, lost>>

-----------------------------------------------------------------------------
(***************************************************************************)
(* worker_new and the head of worker_thread_loop.  rr_queue_scanfull never *)
(* stores through its idx parameter, so qidx keeps whatever value its      *)
(* stack slot holds when the thread starts.                                *)
(***************************************************************************)
Init ==
  /\ QueueInit([t \in Threads |-> IF t = Worker THEN "wait" ELSE "idle"])
  /\ list = [t \in Threads |-> Empty(0)]
  /\ sem  = 0
  /\ qi   = 0
  /\ qidx \in QidxValues
  /\ lost = {}

-----------------------------------------------------------------------------
(***************************************************************************)
(* Input threads.                                                          *)
(***************************************************************************)

\* worker_getQueueEntry for a message header that names queue q
GetQueueEntry(p, q) ==
  /\ pc[p] = "idle"
  /\ q \in Routes[p]
  /\ Goto(p, "popHead")
  /\ list' = [list EXCEPT ![p] = Empty(q)]
  /\ UNCHANGED <<top, next, qhead, qnext, qe, chain, sem, qi, qidx, lost>>

\* queue_getEmptyEntry; Q_FULL drops the message ("BACK PRESSURE")
InputPop(p) ==
  /\ \/ PopHead(p, "idle") /\ UNCHANGED list
     \/ PopNext(p)
     \/ PopCas(p)
     \/ PopDetach(p, "fill") /\ UNCHANGED list
  /\ UNCHANGED <<sem, qi, qidx, lost>>

\* Mutant: the worker is signalled before its entry is on the list
PutBackQueueEntry_SignalFirst(p) ==
  /\ pc[p] = "fill"
  /\ sem' = sem + 1
  /\ Goto(p, "pushHead")
  /\ list' = [list EXCEPT ![p] = Full(list[p][1])]
  /\ UNCHANGED <<top, next, qhead, qnext, qe, chain, qi, qidx, lost>>

\* The data of the message has arrived: worker_putBackQueueEntry begins
PutBackQueueEntry(p) ==
  /\ pc[p] = "fill"
  /\ Goto(p, "pushHead")
  /\ list' = [list EXCEPT ![p] = Full(list[p][1])]
  /\ UNCHANGED <<top, next, qhead, qnext, qe, chain, sem, qi, qidx, lost>>

\* The connection is lost in the middle of the message:
\* input_cleanupConnection frees the connection, and mbuf.qe with it.
LoseConnection(p) ==
  /\ pc[p] = "fill"
  /\ Goto(p, "idle")
  /\ lost' = lost \cup {qe[p]}
  /\ qe'   = [qe EXCEPT ![p] = NULL]
  /\ UNCHANGED <<top, next, list, qhead, qnext, chain, sem, qi, qidx>>

\* queue_putBackFullEntry
InputPush(p) ==
  /\ \/ PushHead(p)
     \/ PushLink(p)
     \/ PushCas(p, "signal")
  /\ UNCHANGED <<sem, qi, qidx, lost>>

\* semop(semid, &semsignal, 1)
Signal(p) ==
  /\ pc[p] = "signal"
  /\ sem' = sem + 1
  /\ Goto(p, "idle")
  /\ UNCHANGED <<top, next, list, qhead, qnext, qe, chain, qi, qidx, lost>>

-----------------------------------------------------------------------------
(***************************************************************************)
(* The worker thread.                                                      *)
(***************************************************************************)
\* Mutant: the scan does not wrap around
NextQ_NoWrap(q) == q + 1

NextQ(q) == IF q + 1 = NumQs THEN 0 ELSE q + 1

\* Mutant: one wait consumes all tokens
Awake_TakeAll ==
  /\ pc[Worker] = "wait"
  /\ sem > 0
  /\ sem' = 0
  /\ Goto(Worker, "popHead")
  /\ list' = [list EXCEPT ![Worker] = Full(qi)]
  /\ UNCHANGED <<top, next, qhead, qnext, qe, chain, qi, qidx, lost>>

\* semop(semid, &semwait, 1) returns; rr_queue_scanfull starts at qi
Awake ==
  /\ pc[Worker] = "wait"
  /\ sem > 0
  /\ sem' = sem - 1
  /\ Goto(Worker, "popHead")
  /\ list' = [list EXCEPT ![Worker] = Full(qi)]
  /\ UNCHANGED <<top, next, qhead, qnext, qe, chain, qi, qidx, lost>>

\* One probe of rr_queue_scanfull begins: an empty queue sends the scan to
\* the next one, again at once
ScanHead ==
  /\ PopHead(Worker, "popHead")
  /\ list[Worker][2] = "full"
  /\ IF top[list[Worker]] = NULL
       THEN /\ qi'   = NextQ(qi)
            /\ list' = [list EXCEPT ![Worker] = Full(NextQ(qi))]
       ELSE UNCHANGED <<qi, list>>
  /\ UNCHANGED <<sem, qidx, lost>>

ScanPop ==
  /\ \/ PopNext(Worker)
     \/ PopCas(Worker)
  /\ UNCHANGED <<sem, qi, qidx, lost>>

\* Mutant: the scan state stays at the queue just served
ScanDone_Stay ==
  /\ PopDetach(Worker, "run")
  /\ UNCHANGED <<list, sem, qi, qidx, lost>>

\* The probe succeeded: the scan state moves past the queue it served
ScanDone ==
  /\ PopDetach(Worker, "run")
  /\ qi' = NextQ(qi)
  /\ UNCHANGED <<list, sem, qidx, lost>>

\* Mutant: the worker goes on to the next message without putting the entry back
RunFunc_Drop ==
  /\ pc[Worker] = "run"
  /\ Goto(Worker, "wait")
  /\ lost' = lost \cup {qe[Worker]}
  /\ qe'   = [qe EXCEPT ![Worker] = NULL]
  /\ UNCHANGED <<top, next, list, qhead, qnext, chain, sem, qi, qidx>>

\* iq = queues[qidx]; func(...); queue_putBackEmptyEntry(iq, iqe) begins.
\* A qidx outside the array makes iq a wild pointer.
RunFunc ==
  /\ pc[Worker] = "run"
  /\ IF qidx = OutOfRange
       THEN Goto(Worker, "fault") /\ UNCHANGED list
       ELSE /\ Goto(Worker, "pushHead")
            /\ list' = [list EXCEPT ![Worker] = Empty(qidx)]
  /\ UNCHANGED <<top, next, qhead, qnext, qe, chain, sem, qi, qidx, lost>>

WorkerPush ==
  /\ \/ PushHead(Worker)
     \/ PushLink(Worker)
     \/ PushCas(Worker, "wait")
  /\ UNCHANGED <<sem, qi, qidx, lost>>

-----------------------------------------------------------------------------
\* The steps an input thread takes by itself, without waiting for its peer
InputStep(p) == InputPop(p) \/ InputPush(p) \/ Signal(p)

WorkerStep == Awake \/ ScanHead \/ ScanPop \/ ScanDone \/ RunFunc \/ WorkerPush

\* A wild pointer ends the whole process.
Running == pc[Worker] # "fault"

Next ==
  /\ Running
  /\ \/ \E p \in Inputs : \/ \E q \in Queues : GetQueueEntry(p, q)
                          \/ PutBackQueueEntry(p)
                          \/ LoseConnection(p)
                          \/ InputStep(p)
     \/ WorkerStep

Spec == Init /\ [][Next]_vars

(***************************************************************************)
(* The operating system runs every runnable thread.  Nothing forces a peer *)
(* to send a message or the rest of one.                                   *)
(***************************************************************************)
Fairness ==
  /\ WF_vars(Running /\ WorkerStep)
  /\ \A p \in Inputs : WF_vars(Running /\ InputStep(p))

FairSpec == Spec /\ Fairness

-----------------------------------------------------------------------------
\* No two input threads feed the same queue of the worker.
OneFeederPerQueue ==
  \A p, r \in Inputs : p # r => Routes[p] \cap Routes[r] = {}

TypeOK ==
  /\ QueueTypeOK
  /\ sem  \in Nat
  /\ qi   \in Queues
  /\ qidx \in Queues \cup {OutOfRange}
  /\ lost \in SUBSET Entries

\* Which calls each thread makes, on which lists, and when it has an entry.
InputRole(p) ==
  /\ pc[p] \notin {"wait", "run", "overrun", "doomed", "fault"}
  /\ Popping(p) => list[p] \in {Empty(q) : q \in Routes[p]}
  /\ Pushing(p) => list[p][2] = "full"
  /\ pc[p] = "fill" => qe[p] \in Entries
  /\ pc[p] \in {"idle", "signal"} => qe[p] = NULL

WorkerRole ==
  /\ pc[Worker] \notin {"idle", "fill", "signal", "overrun", "doomed"}
  /\ Popping(Worker) => list[Worker] = Full(qi)
  /\ Pushing(Worker) => list[Worker][2] = "empty"
  /\ pc[Worker] \in {"run", "fault"} => qe[Worker] \in Entries
  /\ pc[Worker] = "wait" => qe[Worker] = NULL

Roles == WorkerRole /\ \A p \in Inputs : InputRole(p)

\* The linked lists in memory are well formed whatever the interleaving of
\* the compare-and-swap loops of queue.h.
ListIntegrity == ListsWellFormed

\* Every entry is in exactly one place - one list, one thread, or lost with
\* its connection: none is handed out twice, none disappears otherwise.
EntriesAccounted ==
  /\ ExclusiveEntries
  /\ Placed \cap lost = {}
  /\ Placed \cup lost = Entries

\* The worker has consumed a semaphore token and has not got its entry yet.
Scanning ==
  pc[Worker] \in {"popHead", "popNext", "popCas"} /\ list[Worker][2] = "full"

\* The semaphore counts the full entries: every full entry is paid for by a
\* token, by the scan in progress or by an input about to signal
\* (worker_putBackQueueEntry pushes first and signals second).
TokensMatchEntries ==
  Cardinality(OnList("full")) =
    sem + (IF Scanning THEN 1 ELSE 0)
        + Cardinality({p \in Inputs : pc[p] = "signal"})

\* "grab a full entry -- must exist if semaphore was signaled": while the
\* worker scans, some queue has a full entry, so the scan cannot spin for ever
\* on empty queues.
SignalledEntryExists == Scanning => \E q \in Queues : top[Full(q)] # NULL

\* The inductive invariant.
Inv ==
  /\ TypeOK
  /\ QueueInv
  /\ Roles
  /\ EntriesAccounted

\* The queues of a worker implement the abstract pool of entries: an entry
\* belongs to where it is.
Pool == INSTANCE EntryPool WITH Fillers <- Inputs, Drainer <- Worker, owner <- Owner

ImplementsEntryPool == Pool!Spec

\* The worker puts an entry back on the queue it came from.
EntriesComeHome == \A q \in Queues : Range(chain[Empty(q)]) \subseteq {q} \X Nat

\* rr_queue_scanfull starves no queue: a queue with a full entry is served.
NoQueueStarves ==
  \A q \in Queues :
    top[Full(q)] # NULL ~>
      (pc[Worker] = "popDetach" /\ list[Worker] = Full(q)) \/ ~Running

\* When the inputs fall silent the worker drains every queue and goes back
\* to sleep on its semaphore, if it does not meet a wild pointer.
DrainsWhenSilent ==
  <>[](\A p \in Inputs : pc[p] = "idle")
    => <>[](~Running \/ (OnList("full") = {} /\ sem = 0 /\ pc[Worker] = "wait"))
=============================================================================
