---------------------------- MODULE OutputQueue ----------------------------
(***************************************************************************)
(* One output (output.c, output.h): the queue that the worker threads      *)
(* configured with it fill, its counting semaphore, and its thread, which  *)
(* takes one full entry per token and writes it to its socket.             *)
(* Interleaving is at the level of single memory accesses (module Queue).  *)
(* What a worker does with its input is left out: it produces a message    *)
(* at any time.                                                            *)
(***************************************************************************)
EXTENDS Queue, FiniteSets

CONSTANTS
  Workers,   \* the workers configured with this output
  Out,       \* the output's thread
  OQ,        \* output->queue
  MaxMsgs    \* bound: messages a worker produces

ASSUME OutputAssumption ==
  /\ Queues = {OQ}
  /\ Out \notin Workers
  /\ Threads = Workers \cup {Out}
  /\ IsFiniteSet(Workers)
  /\ MaxMsgs \in Nat

Messages == Workers \X (1 .. MaxMsgs)

VARIABLES
  sem,       \* value of the output's semaphore
  made,      \* made[w]: messages worker w has begun (bounded by MaxMsgs)
  odata,     \* odata[w]: the entry w's locals odata and omh point into
  content,   \* content[e]: the message in e->data
  gone,      \* the peer has closed or reset the connection
  put,       \* history: the messages put on the full list
  wire,      \* history: the messages net_writen has sent, in this order
  dropped    \* history: those it could not send, or not to the end

vars == <<qvars, sem, made, odata, content, gone, put, wire, dropped>>

-----------------------------------------------------------------------------
\* output_init and the head of output_thread_loop; a worker's odata and omh
\* are uninitialised.
Init ==
  /\ QueueInit([t \in Threads |-> IF t = Out THEN "wait" ELSE "idle"])
  /\ list    = [t \in Threads |-> IF t = Out THEN Full(OQ) ELSE Empty(OQ)]
  /\ sem     = 0
  /\ made    = [w \in Workers |-> 0]
  /\ odata   = [w \in Workers |-> NULL]
  /\ content = [e \in Entries |-> NULL]
  /\ put     = {}
  /\ wire    = << >>
  /\ gone    = FALSE
  /\ dropped = {}

-----------------------------------------------------------------------------
(***************************************************************************)
(* Worker threads.                                                         *)
(***************************************************************************)

\* A worker has got an input entry: output_getQueueEntry begins
GetQueueEntry(w) ==
  /\ pc[w] = "idle"
  /\ made[w] < MaxMsgs
  /\ made' = [made EXCEPT ![w] = @ + 1]
  /\ Goto(w, "popHead")
  /\ list' = [list EXCEPT ![w] = Empty(OQ)]
  /\ UNCHANGED <<top, next, qhead, qnext, qe, chain, sem, odata, content, gone, put, wire, dropped>>

\* Mutant: a lost compare-and-swap race counts as Q_FULL
WorkerPop_NoRetry(w) ==
  /\ \/ PopHead(w, "overrun") /\ UNCHANGED list
     \/ PopNext(w)
     \/ top[list[w]] = qhead[w] /\ PopCas(w)
     \/ /\ pc[w] = "popCas" /\ top[list[w]] # qhead[w]
        /\ Goto(w, "overrun")
        /\ UNCHANGED <<top, next, list, qhead, qnext, qe, chain>>
     \/ PopDetach(w, "fill") /\ UNCHANGED list
  /\ UNCHANGED <<sem, made, odata, content, gone, put, wire, dropped>>

\* queue_getEmptyEntry.  Q_FULL is reported ("BACK PRESSURE??", NYI) and the
\* loop goes on without an output entry.
WorkerPop(w) ==
  /\ \/ PopHead(w, "overrun") /\ UNCHANGED list
     \/ PopNext(w)
     \/ PopCas(w)
     \/ PopDetach(w, "fill") /\ UNCHANGED list
  /\ UNCHANGED <<sem, made, odata, content, gone, put, wire, dropped>>

\* Mutant: the output thread is signalled before its entry is on the list
RunFunc_SignalFirst(w) ==
  /\ pc[w] = "fill"
  /\ odata'   = [odata EXCEPT ![w] = qe[w]]
  /\ content' = [content EXCEPT ![qe[w]] = <<w, made[w]>>]
  /\ sem'     = sem + 1
  /\ Goto(w, "pushHead")
  /\ list' = [list EXCEPT ![w] = Full(OQ)]
  /\ UNCHANGED <<top, next, qhead, qnext, qe, chain, made, gone, put, wire, dropped>>

\* The header is set up and func writes its output to odata
RunFunc(w) ==
  /\ pc[w] = "fill"
  /\ odata'   = [odata EXCEPT ![w] = qe[w]]
  /\ content' = [content EXCEPT ![qe[w]] = <<w, made[w]>>]
  /\ Goto(w, "pushHead")
  /\ list' = [list EXCEPT ![w] = Full(OQ)]
  /\ UNCHANGED <<top, next, qhead, qnext, qe, chain, sem, made, gone, put, wire, dropped>>

\* The entry that follows e in memory, if there is one
Behind(e) == {f \in Entries : f[1] = e[1] /\ f[2] = e[2] + 1}

\* After Q_FULL, func writes to the odata of an earlier iteration, whose entry now
\* belongs to the queue or to another thread; an uninitialised odata may lie in any
\* entry or elsewhere.  func is given an olen that still counts the header, so it
\* may write 8 bytes past the entry: over the next field of the entry behind it,
\* or over memory behind the block.  (Bytes that are no pointer to an entry are like
\* NULL here: the thread that follows them dies, if at another instruction.)
RunFuncOverrun(w) ==
  /\ pc[w] = "overrun"
  /\ \E e \in IF odata[w] = NULL THEN EntryOrNull ELSE {odata[w]} :
       \/ UNCHANGED <<content, next>>
       \/ /\ e # NULL
          /\ content' = [content EXCEPT ![e] = <<w, made[w]>>]
          /\ \/ UNCHANGED next
             \/ \E f \in Behind(e), bytes \in EntryOrNull :
                  next' = [next EXCEPT ![f] = bytes]
  /\ Goto(w, "doomed")
  /\ UNCHANGED <<top, list, qhead, qnext, qe, chain, sem, made, odata, gone, put, wire, dropped>>

\* Mutant: after Q_FULL the worker skips its output, but func has run
Crash_Skip(w) ==
  /\ pc[w] = "doomed"
  /\ Goto(w, "idle")
  /\ UNCHANGED <<top, next, list, qhead, qnext, qe, chain, sem, made, odata,
                 content, gone, put, wire, dropped>>

\* oqe->len += flen with oqe == NULL.  Until then the other threads run on.
Crash(w) ==
  /\ pc[w] = "doomed"
  /\ Goto(w, "fault")
  /\ UNCHANGED <<top, next, list, qhead, qnext, qe, chain, sem, made, odata,
                 content, gone, put, wire, dropped>>

\* output_putBackQueueEntry: queue_putBackFullEntry ...
WorkerPush(w) ==
  /\ \/ PushHead(w) /\ UNCHANGED put
     \/ PushLink(w) /\ UNCHANGED put
     \/ /\ PushCas(w, "signal")
        /\ put' = IF pc'[w] = "signal" THEN put \cup {<<w, made[w]>>} ELSE put
  /\ UNCHANGED <<sem, made, odata, content, gone, wire, dropped>>

\* ... and semop(semid, &semsignal, 1)
Signal(w) ==
  /\ pc[w] = "signal"
  /\ sem' = sem + 1
  /\ Goto(w, "idle")
  /\ UNCHANGED <<top, next, list, qhead, qnext, qe, chain, made, odata, content, gone, put, wire, dropped>>

-----------------------------------------------------------------------------
(***************************************************************************)
(* The output thread.                                                      *)
(***************************************************************************)

\* Mutant: the thread does not wait for a token
Awake_NoWait ==
  /\ pc[Out] = "wait"
  /\ sem' = sem - 1
  /\ Goto(Out, "popHead")
  /\ list' = [list EXCEPT ![Out] = Full(OQ)]
  /\ UNCHANGED <<top, next, qhead, qnext, qe, chain, made, odata, content, gone, put, wire, dropped>>

\* Mutant: one wait consumes all tokens
Awake_TakeAll ==
  /\ pc[Out] = "wait"
  /\ sem > 0
  /\ sem' = 0
  /\ Goto(Out, "popHead")
  /\ list' = [list EXCEPT ![Out] = Full(OQ)]
  /\ UNCHANGED <<top, next, qhead, qnext, qe, chain, made, odata, content, gone, put, wire, dropped>>

\* semop(semid, &semwait, 1) returns
Awake ==
  /\ pc[Out] = "wait"
  /\ sem > 0
  /\ sem' = sem - 1
  /\ Goto(Out, "popHead")
  /\ list' = [list EXCEPT ![Out] = Full(OQ)]
  /\ UNCHANGED <<top, next, qhead, qnext, qe, chain, made, odata, content, gone, put, wire, dropped>>

\* queue_getFullEntry; assert(qe) ends the process
OutPop ==
  /\ \/ PopHead(Out, "fault") /\ UNCHANGED list
     \/ PopNext(Out)
     \/ PopCas(Out)
     \/ PopDetach(Out, "run") /\ UNCHANGED list
  /\ UNCHANGED <<sem, made, odata, content, gone, put, wire, dropped>>

\* The peer goes away: from now on send fails, with the first or a later part of
\* a message, and net_writen returns -1
PeerGoes ==
  /\ ~gone
  /\ gone' = TRUE
  /\ UNCHANGED <<qvars, sem, made, odata, content, put, wire, dropped>>

\* net_writen returns, and its result is ignored; queue_putBackEmptyEntry begins.
\* send blocks for as long as the peer stays connected and does not read, so
\* nothing forces this step unless the peer is gone.
Send ==
  /\ pc[Out] = "run"
  /\ IF gone
       THEN dropped' = dropped \cup {content[qe[Out]]} /\ UNCHANGED wire
       ELSE wire' = Append(wire, content[qe[Out]]) /\ UNCHANGED dropped
  /\ Goto(Out, "pushHead")
  /\ list' = [list EXCEPT ![Out] = Empty(OQ)]
  /\ UNCHANGED <<top, next, qhead, qnext, qe, chain, sem, made, odata, content, gone, put>>

OutPush ==
  /\ PushHead(Out) \/ PushLink(Out) \/ PushCas(Out, "wait")
  /\ UNCHANGED <<sem, made, odata, content, gone, put, wire, dropped>>

-----------------------------------------------------------------------------
WorkerStep(w) ==
  WorkerPop(w) \/ RunFunc(w) \/ RunFuncOverrun(w) \/ Crash(w) \/ WorkerPush(w) \/ Signal(w)

OutStep == Awake \/ OutPop \/ Send \/ OutPush

\* A crash or a failed assertion ends the whole process.
Faulted == \E t \in Threads : pc[t] = "fault"

Next ==
  /\ ~Faulted
  /\ \/ \E w \in Workers : GetQueueEntry(w) \/ WorkerStep(w)
     \/ OutStep
     \/ PeerGoes

\* The operating system runs every runnable thread; nothing forces a worker to
\* receive a message, or the peer to read.
Fairness ==
  /\ WF_vars(~Faulted /\ (Awake \/ OutPop \/ OutPush))
  /\ WF_vars(~Faulted /\ gone /\ Send)
  /\ \A w \in Workers : WF_vars(~Faulted /\ WorkerStep(w))

Spec     == Init /\ [][Next]_vars
FairSpec == Spec /\ Fairness

-----------------------------------------------------------------------------
TypeOK ==
  /\ QueueTypeOK
  /\ sem     \in Nat
  /\ made    \in [Workers -> 0 .. MaxMsgs]
  /\ odata   \in [Workers -> EntryOrNull]
  /\ content \in [Entries -> Messages \cup {NULL}]
  /\ put     \in SUBSET Messages
  /\ wire    \in Seq(Messages \cup {NULL})
  /\ gone    \in BOOLEAN
  /\ dropped \in SUBSET (Messages \cup {NULL})

\* A worker has found the output queue full and may have written where it must
\* not; its next step ends the process.
Doomed == \E w \in Workers : pc[w] \in {"doomed", "fault"}

\* The lists of the output queue are well formed, every entry has one owner,
\* and none is ever lost, until an overrun writes over a link.
QueueIntact == Doomed \/ (ListsWellFormed /\ ExclusiveEntries /\ Placed = Entries)

\* "assert(qe)": a token of the semaphore always finds a full entry.
TokenFindsEntry == Doomed \/ pc[Out] # "fault"

\* The output's queue implements the abstract pool up to an overrun: an entry is on
\* one list or in the hands of one thread, the workers fill empty ones and the
\* output's thread empties full ones.
Pool == INSTANCE EntryPool WITH Fillers <- Workers, Drainer <- Out, owner <- Owner

ImplementsEntryPool == Pool!Init /\ [][~Doomed' => [Pool!Next]_(Pool!vars)]_vars

\* An entry is due while its message waits to be sent.
Due == OnList("full") \cup (IF pc[Out] \in {"popDetach", "run"} THEN {Holding(Out)} ELSE {})

Pending == {content[e] : e \in Due}

\* The output implements the abstract outbox up to an overrun: a message that is
\* put is sent once, or dropped because the peer is gone.
Box == INSTANCE Outbox WITH pending <- Pending

ImplementsOutbox == Box!Init /\ [][~Doomed' => [Box!Next]_(Box!vars)]_vars

\* Every message reaches the socket at most once and as its worker put it, and
\* none is dropped as long as the peer is there; only a process that is about to
\* crash of an overrun may send another.
WireFaithful ==
  \/ Doomed
  \/ /\ IsInjective(wire) /\ Range(wire) \subseteq put
     /\ dropped \subseteq put \ Range(wire)
     /\ dropped # {} => gone

\* A worker that gives up on the output queue really has all its entries in
\* flight: on the full list or in the hands of a thread.
BackPressureIsReal ==
  [][\A w \in Workers :
       pc[w] # "overrun" /\ pc'[w] = "overrun" =>
         Entries \subseteq OnList("full") \cup Held]_vars

\* The peer does not stay connected for ever without reading: no call of net_writen
\* blocks for ever.
PeerReadsOn == []<>(pc[Out] # "run" \/ gone)

=============================================================================
