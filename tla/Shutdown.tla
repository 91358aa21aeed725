------------------------------ MODULE Shutdown ------------------------------
(***************************************************************************)
(* How the process comes down (cleanup and signalhandler in main.c, EEXIT  *)
(* in ssbench.h, worker_destroy, output_destroy), at any moment of what    *)
(* Startup describes.  cleanup empties the three hash tables; it frees the *)
(* objects and removes their semaphores.  It runs                          *)
(*   - in the signal handler, on the main thread, which goes on afterwards *)
(*     as if nothing had happened;                                         *)
(*   - in EEXIT, when a sender's semop fails, and then once more in exit;  *)
(*   - in exit (atexit), when a receiver finds its semaphore removed.      *)
(* No lock protects any of it; but free takes the lock of the heap, which  *)
(* the thread the handler interrupts may hold.                             *)
(*                                                                         *)
(* A thread that touches freed memory may end the process (Fault) or find  *)
(* there what it held before.  When cleanup itself uses or frees what has  *)
(* been freed, anything may follow: the model ends there (Alive).  The     *)
(* signal handler is a thread of its own that stops the main thread while  *)
(* it runs.                                                                *)
(***************************************************************************)
EXTENDS Startup, Sequences

CONSTANTS
  Main,         \* the input whose loop the main thread runs
  Handler,      \* the signal handler
  Order,        \* the order of the objects in each hash table
  MaxSignals    \* bound: SIGTERM or SIGINT delivered, one after the other

Kinds == {"inputs", "outputs", "workers"}

\* The order in which cleanup comes to the hash tables
Rank(k) == IF k = "inputs" THEN 1 ELSE IF k = "outputs" THEN 2 ELSE 3

KindOf(o) ==
  IF o \in Workers THEN "workers" ELSE IF o \in Outputs THEN "outputs" ELSE "inputs"

\* Where an object is in the order of its table
Place(o) == CHOOSE n \in DOMAIN Order[KindOf(o)] : Order[KindOf(o)][n] = o

Runners == Threads \cup {Handler}      \* whatever can run cleanup
Queues(w) == <<w, "queues">>           \* the blocks worker_new allocates
Blocks  == Threads \cup {Queues(w) : w \in Workers}

ASSUME ShutdownAssumption ==
  /\ Main \in Inputs
  /\ Handler \notin Threads \cup {None}
  /\ None \notin Threads
  /\ \A w \in Workers : Queues(w) \notin Threads
  /\ Order \in [Kinds -> Seq(Threads)]
  /\ \A k \in Kinds :     \* every object is in its table, once
       /\ {Order[k][n] : n \in DOMAIN Order[k]} = {o \in Threads : KindOf(o) = k}
       /\ \A m, n \in DOMAIN Order[k] : Order[k][m] = Order[k][n] => m = n
  /\ MaxSignals \in Nat

VARIABLES
  head,      \* head[k]: first object of a hash table, or None
  succ,      \* succ[o]: hh.next of an object
  linked,    \* the objects that are in their table
  freed,     \* the blocks that have been freed
  sems,      \* the semaphores that exist
  mi,        \* main's iteration over the objects it starts
  cl,        \* cl[x]: where x is in cleanup
  tgt,       \* tgt[p]: the worker whose entry input p is filling
  exits,     \* the threads that have called exit
  signals,   \* signals delivered so far
  aborted,   \* the process has died in an assertion or a fault
  held,      \* a signal has interrupted main within malloc or free
  overlap,   \* history: two runs of cleanup were under way at once
  misused,   \* history: cleanup used or freed something freed already
  unready,   \* history: receivers it saw before they had stored their id
  foreign    \* history: it removed a semaphore by a wild id

heap == <<head, succ, linked, freed>>
past == <<overlap, misused, unready, foreign>>
downVars == <<heap, sems, mi, cl, tgt, exits, signals, aborted, held, past>>
allVars  == <<vars, downVars>>

Idle == [at |-> "no", obj |-> None, nxt |-> None]
Over == [at |-> "over", obj |-> None, nxt |-> None]

\* HASH_ITER: the object at hand and its successor, read at the same time.
At(o) == [at |-> "destroy", obj |-> o, nxt |-> IF o = None THEN None ELSE succ[o]]

\* The first object of those tables ks that are not empty, if there is one
FirstOf(ks) ==
  LET busy == {k \in ks : head[k] # None}
  IN IF busy = {} THEN Over
     ELSE At(head[CHOOSE k \in busy : \A l \in busy : Rank(k) <= Rank(l)])

TablesAfter(k) == {l \in Kinds : Rank(l) > Rank(k)}

ShutdownInit ==
  /\ Init
  /\ head   = [k \in Kinds |-> IF Order[k] = << >> THEN None ELSE Order[k][1]]
  /\ succ   = [o \in Threads |->
                 LET s == Order[KindOf(o)]
                 IN IF Place(o) < Len(s) THEN s[Place(o) + 1] ELSE None]
  /\ linked = Threads
  /\ freed  = {}
  /\ sems   = {}
  /\ mi     = [at |-> "begin", obj |-> None, nxt |-> None]
  /\ cl     = [x \in Runners |-> Idle]
  /\ tgt    = [p \in Inputs |-> None]
  /\ exits  = {}
  /\ signals = 0
  /\ aborted = FALSE /\ held = FALSE
  /\ overlap = FALSE /\ misused = FALSE /\ unready = {} /\ foreign = FALSE

\* The main thread stands still while its signal handler runs.
Running(x) == x # Main \/ cl[Handler] = Idle

-----------------------------------------------------------------------------
(***************************************************************************)
(* cleanup.                                                                *)
(***************************************************************************)
Begin(x) ==
  /\ cl'      = [cl EXCEPT ![x] = FirstOf(Kinds)]
  /\ overlap' = (overlap \/ \E y \in Runners \ {x} : cl[y] # Idle)

\* The blocks x touches in its next step of cleanup.
Touched(x) ==
  LET c == cl[x] IN
  CASE c.at \in {"destroy", "unlink"} -> {c.obj}
    [] c.at = "queues" -> {c.obj, Queues(c.obj)}
    [] c.at = "free"   -> {c.obj, c.nxt} \ {None}
    [] OTHER -> {}

\* Mutant: the semaphores of workers are left behind
Destroy_KeepWorkers(x) ==
  LET o == cl[x].obj IN
  /\ cl[x].at = "destroy" /\ Running(x)
  /\ cl' = [cl EXCEPT ![x].at = IF o \in Workers THEN "queues" ELSE "unlink"]
  /\ misused' = (misused \/ Touched(x) \cap freed # {})
  /\ unready' = IF o \in Receivers /\ semid[o] # o THEN unready \cup {o} ELSE unready
  /\ IF o \in Outputs
       THEN sems' = sems \ {semid[o]} /\ foreign' = (foreign \/ semid[o] = Wild)
       ELSE UNCHANGED <<sems, foreign>>
  /\ UNCHANGED <<vars, heap, mi, tgt, exits, signals, aborted, held, overlap>>

\* input_destroy does nothing; worker_destroy and output_destroy remove the
\* semaphore that semid names unless it is -1.  A wild id may name any.
Destroy(x) ==
  LET o == cl[x].obj IN
  /\ cl[x].at = "destroy" /\ Running(x)
  /\ cl' = [cl EXCEPT ![x].at = IF o \in Workers THEN "queues" ELSE "unlink"]
  /\ misused' = (misused \/ Touched(x) \cap freed # {})
  /\ unready' = IF o \in Receivers /\ semid[o] # o THEN unready \cup {o} ELSE unready
  /\ IF o \in Receivers
       THEN /\ foreign' = (foreign \/ semid[o] = Wild)
            /\ \E s \in IF semid[o] = Wild THEN sems \cup {Wild} ELSE {semid[o]} :
                 sems' = sems \ {s}
       ELSE UNCHANGED <<sems, foreign>>
  /\ UNCHANGED <<vars, heap, mi, tgt, exits, signals, aborted, held, overlap>>

\* Mutant: one queue too many is freed
FreeQueues_OneMore(x) ==
  LET w == cl[x].obj IN
  /\ cl[x].at = "queues" /\ Running(x) /\ ~held
  /\ cl' = [cl EXCEPT ![x].at = "unlink"]
  /\ misused' = (misused \/ Touched(x) \cap freed # {})
  /\ freed'   = freed \cup {Queues(w), <<w, "beyond">>}
  /\ UNCHANGED <<vars, head, succ, linked, sems, mi, tgt, exits, signals, aborted,
                 held, overlap, unready, foreign>>

\* worker_destroy frees the queues
FreeQueues(x) ==
  LET w == cl[x].obj IN
  /\ cl[x].at = "queues" /\ Running(x) /\ ~held
  /\ cl' = [cl EXCEPT ![x].at = "unlink"]
  /\ misused' = (misused \/ Touched(x) \cap freed # {})
  /\ freed'   = freed \cup {Queues(w)}
  /\ UNCHANGED <<vars, head, succ, linked, sems, mi, tgt, exits, signals, aborted,
                 held, overlap, unready, foreign>>

\* Mutant: the object stays in its table
Unlink_Not(x) ==
  /\ cl[x].at = "unlink" /\ Running(x)
  /\ cl' = [cl EXCEPT ![x].at = "free"]
  /\ misused' = (misused \/ Touched(x) \cap freed # {})
  /\ UNCHANGED <<vars, heap, sems, mi, tgt, exits, signals, aborted, held, overlap,
                 unready, foreign>>

\* HASH_DEL; of an object that is not in the table, it works on stale links
Unlink(x) ==
  LET o == cl[x].obj  k == KindOf(o) IN
  /\ cl[x].at = "unlink" /\ Running(x)
  /\ cl' = [cl EXCEPT ![x].at = "free"]
  /\ misused' = (misused \/ Touched(x) \cap freed # {} \/ o \notin linked)
  /\ linked' = linked \ {o}
  /\ head'   = [head EXCEPT ![k] = IF @ = o THEN succ[o] ELSE @]
  /\ succ'   = [p \in Threads |->
                 IF succ[p] = o /\ {o, p} \subseteq linked THEN succ[o] ELSE succ[p]]
  /\ UNCHANGED <<vars, freed, sems, mi, tgt, exits, signals, aborted, held, overlap,
                 unready, foreign>>

\* free, and HASH_ITER goes on to the next object or the next table
Free(x) ==
  LET c == cl[x] IN
  /\ c.at = "free" /\ Running(x) /\ ~held
  /\ cl' = [cl EXCEPT ![x] = IF c.nxt # None THEN At(c.nxt)
                             ELSE FirstOf(TablesAfter(KindOf(c.obj)))]
  /\ misused' = (misused \/ Touched(x) \cap freed # {})
  /\ freed'   = freed \cup {c.obj}
  /\ UNCHANGED <<vars, head, succ, linked, sems, mi, tgt, exits, signals, aborted,
                 held, overlap, unready, foreign>>

\* The handler returns; EEXIT goes on to exit; exit has run cleanup.
Return(x) ==
  /\ cl[x] = Over /\ Running(x)
  /\ cl' = [cl EXCEPT ![x] = Idle]
  /\ pc' = IF x # Handler /\ pc[x] = "eexit" THEN [pc EXCEPT ![x] = "exit"] ELSE pc
  /\ exited' = (x # Handler /\ pc[x] = "exit")
  /\ UNCHANGED <<semid, sem, full, sid, msgs, reset, early, heap, sems, mi, tgt, exits,
                 signals, aborted, held, past>>

\* exit: the first caller runs the atexit handler.  For a second one the list
\* of handlers is empty and the process ends, or it waits for the first (newer
\* C libraries).
Exit(t) ==
  /\ pc[t] = "exit" /\ cl[t] = Idle /\ t \notin exits /\ Running(t)
  /\ exits' = exits \cup {t}
  /\ \/ exits = {} /\ Begin(t) /\ UNCHANGED exited
     \/ exits # {} /\ exited' \in BOOLEAN /\ UNCHANGED <<cl, overlap>>
  /\ UNCHANGED <<pc, semid, sem, full, sid, msgs, reset, early, heap, sems, mi, tgt,
                 signals, aborted, held, misused, unready, foreign>>

Cleanup(x) == Destroy(x) \/ FreeQueues(x) \/ Unlink(x) \/ Free(x) \/ Return(x)

\* A signal is delivered to the main thread: signalhandler calls cleanup.  When
\* it interrupts malloc or free, the thread already holds the heap's lock.
SignalArrives ==
  /\ signals < MaxSignals /\ cl[Handler] = Idle
  /\ signals' = signals + 1
  /\ held'    \in BOOLEAN
  /\ Begin(Handler)
  /\ UNCHANGED <<vars, heap, sems, mi, tgt, exits, aborted, misused, unready, foreign>>

-----------------------------------------------------------------------------
(***************************************************************************)
(* The threads, as in Startup, with semaphores that may have been removed. *)
(***************************************************************************)
Abort ==
  /\ exited' = TRUE /\ aborted' = TRUE
  /\ UNCHANGED <<pc, semid, sem, full, sid, msgs, reset, early, heap, sems, mi, cl, tgt,
                 exits, signals, held, past>>

\* main's HASH_ITER over the workers, then over the outputs: it starts each
\* through a pointer read one step before, and goes on through another.
MainStartsReceiver ==
  /\ Running(Main) /\ mi.obj # None
  /\ Goto(mi.obj, "new", "semget")
  /\ mi' = [At(mi.nxt) EXCEPT !.at = mi.at]
  /\ UNCHANGED <<semid, sem, full, sid, msgs, reset, early, exited, heap, sems, cl, tgt,
                 exits, signals, aborted, held, past>>

\* Mutant: main does not wait for the end of the workers' table
MainNextTable_Early ==
  /\ Running(Main) /\ mi.at # "inputs"
  /\ mi' = CASE mi.at = "begin"   -> [At(head["workers"]) EXCEPT !.at = "workers"]
             [] mi.at = "workers" -> [At(head["outputs"]) EXCEPT !.at = "outputs"]
             [] OTHER             -> [mi EXCEPT !.at = "inputs"]
  /\ UNCHANGED <<vars, heap, sems, cl, tgt, exits, signals, aborted, held, past>>

MainNextTable ==
  /\ Running(Main) /\ mi.obj = None
  /\ mi' = CASE mi.at = "begin"   -> [At(head["workers"]) EXCEPT !.at = "workers"]
             [] mi.at = "workers" -> [At(head["outputs"]) EXCEPT !.at = "outputs"]
             [] OTHER             -> [mi EXCEPT !.at = "inputs"]
  /\ mi.at # "inputs"
  /\ UNCHANGED <<vars, heap, sems, cl, tgt, exits, signals, aborted, held, past>>

\* It looks the inputs up by their ids, and runs the last one itself.
NextInput ==
  LET others == {p \in Inputs \ {Main} : pc[p] = "new"}
  IN IF others # {} THEN CHOOSE p \in others : TRUE ELSE Main

MainStartsInput ==
  /\ Running(Main) /\ mi.at = "inputs" /\ NextInput \in linked
  /\ Goto(NextInput, "new", "barrier")
  /\ UNCHANGED <<semid, sem, full, sid, msgs, reset, early, exited, downVars>>

\* assert(input != NULL)
MainFindsNoInput ==
  /\ Running(Main) /\ mi.at = "inputs" /\ pc[Main] = "new" /\ NextInput \notin linked
  /\ Abort

MainStarts == MainStartsReceiver \/ MainNextTable \/ MainStartsInput \/ MainFindsNoInput

\* semget makes the semaphore; the assertion on semctl fails when it is gone.
MakeSemaphore(r) ==
  /\ SetSemid(r)
  /\ sems' = sems \cup {r}
  /\ UNCHANGED <<heap, mi, cl, tgt, exits, signals, aborted, held, past>>

ResetSemaphore(r) ==
  \/ r \in sems /\ SetVal(r) /\ UNCHANGED downVars
  \/ r \notin sems /\ pc[r] = "setval" /\ Abort

\* input_findWorkerAndQueueEntry gives the input a pointer to a worker and one
\* to its entry; the message may take its time.  A message for a worker that is
\* no longer in the table is drained: no step here.
FindWorker(p, w) ==
  /\ pc[p] = "loop" /\ tgt[p] = None /\ Running(p)
  /\ msgs < MaxMsgs
  /\ w \in linked
  /\ tgt' = [tgt EXCEPT ![p] = w]
  /\ UNCHANGED <<vars, heap, sems, mi, cl, exits, signals, aborted, held, past>>

PutMessage(p, w) ==
  /\ tgt[p] = w /\ Running(p)
  /\ Receive(p, w)
  /\ tgt' = [tgt EXCEPT ![p] = None]
  /\ UNCHANGED <<heap, sems, mi, cl, exits, signals, aborted, held, past>>

\* semop(semid, &semsignal, 1) with the id read before, or EEXIT
SendSignal(t) ==
  /\ Running(t)
  /\ \/ \E r \in sems : SignalReaches(t, r)
     \/ SignalElsewhere(t)
  /\ UNCHANGED downVars

SignalFindsNone(t) ==
  /\ Running(t)
  /\ sid[t] \notin sems
  /\ Goto(t, "signal", "eexit")
  /\ Begin(t)
  /\ UNCHANGED <<semid, sem, full, sid, msgs, reset, early, exited, heap, sems, mi, tgt,
                 exits, signals, aborted, held, misused, unready, foreign>>

WaitToken(r) ==
  /\ r \in sems
  /\ Awake(r)
  /\ UNCHANGED downVars

\* Mutant: any error of semop is tried again, not only EINTR
WaitFails_Retry(r) ==
  /\ r \notin sems
  /\ Goto(r, "loop", "loop")
  /\ UNCHANGED <<semid, sem, full, sid, msgs, reset, early, exited, downVars>>

\* EIDRM, or EINVAL after a while: exit(-1)
WaitFails(r) ==
  /\ r \notin sems
  /\ Goto(r, "loop", "exit")
  /\ UNCHANGED <<semid, sem, full, sid, msgs, reset, early, exited, downVars>>

\* The blocks a thread touches in its next step outside of cleanup
Uses(t) ==
  CASE pc[t] = "semget" -> {t}
    [] pc[t] = "take"   -> IF t \in Workers THEN {t, Queues(t)} ELSE {t}
    [] pc[t] = "produce" -> {t, Queues(t), OutputOf[t]}
    [] t \in Inputs /\ pc[t] = "loop" /\ tgt[t] # None -> {tgt[t], Queues(tgt[t])}
    [] OTHER -> {}

\* A thread touches freed memory outside of cleanup and the process dies of it.
Fault ==
  /\ \/ \E t \in Threads : Running(t) /\ Uses(t) \cap freed # {}
     \/ Running(Main) /\ mi.obj \in freed
  /\ Abort

ThreadStep(t) ==
  \/ PassBarrier(t) /\ Running(t) /\ UNCHANGED downVars
  \/ SendSignal(t) \/ SignalFindsNone(t)
  \/ /\ t \in Receivers
     /\ \/ MakeSemaphore(t) \/ ResetSemaphore(t) \/ WaitToken(t) \/ WaitFails(t)
        \/ Take(t) /\ UNCHANGED downVars
  \/ t \in Workers /\ Produce(t) /\ UNCHANGED downVars
  \/ t \in Outputs /\ full[t] = 0 /\ pc[t] = "take" /\ Abort
  \/ Exit(t)

Alive == ~exited /\ ~misused

ShutdownNext ==
  /\ Alive
  /\ \/ SignalArrives \/ MainStarts \/ Fault
     \/ \E x \in Runners : Cleanup(x)
     \/ \E t \in Threads : ThreadStep(t)
     \/ \E p \in Inputs, w \in Workers : FindWorker(p, w) \/ PutMessage(p, w)

ShutdownSpec == ShutdownInit /\ [][ShutdownNext]_allVars

\* Every runnable thread runs; no message and no signal need come.
ShutdownFairSpec ==
  /\ ShutdownSpec
  /\ WF_allVars(Alive /\ MainStarts)
  /\ \A x \in Runners : WF_allVars(Alive /\ Cleanup(x))
  /\ \A t \in Threads : WF_allVars(Alive /\ ThreadStep(t))

-----------------------------------------------------------------------------
ShutdownTypeOK ==
  /\ pc     \in [Threads -> {"new", "semget", "setval", "barrier", "loop", "signal",
                             "take", "produce", "eexit", "exit"}]
  /\ semid  \in [Receivers -> Ids]
  /\ head   \in [Kinds -> Threads \cup {None}]
  /\ succ   \in [Threads -> Threads \cup {None}]
  /\ linked \subseteq Threads
  /\ freed  \subseteq Blocks
  /\ sems   \subseteq Receivers
  /\ tgt    \in [Inputs -> Workers \cup {None}]
  /\ exits  \subseteq Threads
  /\ unready \subseteq Receivers
  /\ signals \in 0 .. MaxSignals
  /\ \A x \in Runners : cl[x].at \in {"no", "over", "destroy", "queues", "unlink", "free"}
  /\ \A b \in {aborted, held, overlap, misused, foreign, exited} : b \in BOOLEAN

\* No signal has come, and no thread is on its way to exit.
Up == signals = 0 /\ \A t \in Threads : pc[t] \notin {"eexit", "exit"}

\* Until then the process does what Startup describes: main's walk over its hash
\* tables starts the threads kind by kind, no semaphore is missing, and nothing
\* that is used has been freed.
ComesUpAsStartup == [][Up' => [Next]_vars]_allVars

\* cleanup runs up to three times on the way down (signal handler, EEXIT, exit).
\* As long as no two runs are under way at once, none of them works on what an
\* earlier one freed, and what is still in a table has not been freed.
CleanupTwiceIsSafe ==
  ~overlap => /\ ~misused
              /\ linked \cap freed = {}
              /\ \A w \in linked \cap Workers :
                   Queues(w) \in freed => \E x \in Runners : cl[x].obj = w

\* System V semaphores outlive the process.  When it ends in an exit, and all
\* receivers had stored their ids before cleanup came to them, none of theirs is
\* left behind and none of another process has been removed; unless a second
\* thread's exit cut the first one's cleanup short.
SemaphoresReleased ==
  exited /\ ~aborted /\ Cardinality(exits) <= 1 /\ unready = {} => sems = {} /\ ~foreign

\* SIGTERM ends the process although the handler returns: the receivers find their
\* semaphores gone and call exit.  There are four exceptions: cleanup came before a
\* receiver had stored its id; the handler waits for the lock of the heap that the
\* thread it interrupted holds; two runs of cleanup that overlapped have used or
\* freed what was freed already, after which anything may follow; and a process
\* without workers and outputs, which -i alone is enough to start, has nobody to
\* notice (epoll_wait goes on after EINTR).
SignalEndsProcess ==
  Receivers # {} =>
    (signals > 0 ~> exited \/ unready # {} \/ held \/ (overlap /\ misused))
=============================================================================
