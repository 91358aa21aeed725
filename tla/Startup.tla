------------------------------ MODULE Startup ------------------------------
(***************************************************************************)
(* How the process comes up (main.c, and the heads of the three thread     *)
(* loops).  main starts the worker threads, then the output threads, then  *)
(* the input threads, without waiting; every worker and every output       *)
(* makes its own semaphore, publishes the id and sets the count to 0; a    *)
(* barrier for each kind holds its threads until all of that kind are      *)
(* there.  Nothing orders threads of different kinds.                      *)
(*                                                                         *)
(* The queues are counts here: the module is about ids and tokens.  A      *)
(* worker with an output moves one message to it for each it receives.     *)
(*                                                                         *)
(* A receiver is a worker or an output: a thread with a semaphore.         *)
(***************************************************************************)
EXTENDS Integers, FiniteSets

CONSTANTS
  Inputs, Workers, Outputs,   \* the threads of each kind
  OutputOf,                   \* worker -> its output, or None
  None,                       \* no output; the semaphore id -1
  Wild,                       \* a semaphore id from uninitialised memory
  MaxMsgs                     \* bound: messages the inputs receive

Receivers == Workers \cup Outputs
Threads   == Receivers \cup Inputs

ASSUME StartupAssumption ==
  /\ IsFiniteSet(Threads)
  /\ Workers \cap Outputs = {} /\ Inputs \cap Receivers = {}
  /\ Inputs # {}                        \* "Require at least one -i"
  /\ {None, Wild} \cap Receivers = {} /\ None # Wild
  /\ OutputOf \in [Workers -> Outputs \cup {None}]
  /\ MaxMsgs \in Nat

VARIABLES
  pc,       \* control state of each thread
  semid,    \* semid[r]: this->semid of a receiver; its own semaphore is r
  sem,      \* value of each receiver's semaphore
  full,     \* number of entries on each receiver's full list
  sid,      \* sid[t]: local semid of a thread that is putting an entry
  msgs,     \* messages received by the inputs so far
  reset,    \* history: receivers that have set their count to 0
  early,    \* history: some sender reached a receiver before that
  exited    \* the process has exited

vars == <<pc, semid, sem, full, sid, msgs, reset, early, exited>>

Goto(t, from, label) == pc[t] = from /\ pc' = [pc EXCEPT ![t] = label]

Kind(t) == IF t \in Workers THEN Workers ELSE IF t \in Outputs THEN Outputs ELSE Inputs

-----------------------------------------------------------------------------
Ids == Receivers \cup {None, Wild}

\* worker_init sets semid to -1; nothing sets an output's.
Init ==
  /\ pc     = [t \in Threads |-> "new"]
  /\ semid  = [r \in Receivers |-> IF r \in Workers THEN None ELSE Wild]
  /\ sem    = [r \in Receivers |-> 0]
  /\ full   = [r \in Receivers |-> 0]
  /\ sid    = [t \in Threads |-> None]
  /\ msgs   = 0
  /\ reset  = {}
  /\ early  = FALSE
  /\ exited = FALSE

\* Mutant: main enters its own input's loop before it starts the others
Start_MainFirst(t) ==
  /\ t \in Outputs => \A w \in Workers : pc[w] # "new"
  /\ t \in Inputs  => /\ \A r \in Receivers : pc[r] # "new"
                      /\ \A p \in Inputs : pc[p] = "new"
  /\ Goto(t, "new", IF t \in Inputs THEN "barrier" ELSE "semget")
  /\ UNCHANGED <<semid, sem, full, sid, msgs, reset, early, exited>>

\* main: worker_start, output_start, input_start, kind by kind
Start(t) ==
  /\ t \in Outputs => \A w \in Workers : pc[w] # "new"
  /\ t \in Inputs  => \A r \in Receivers : pc[r] # "new"
  /\ Goto(t, "new", IF t \in Inputs THEN "barrier" ELSE "semget")
  /\ UNCHANGED <<semid, sem, full, sid, msgs, reset, early, exited>>

\* semget and setSemid: from here on the others see the id
SetSemid(r) ==
  /\ Goto(r, "semget", "setval")
  /\ semid' = [semid EXCEPT ![r] = r]
  /\ UNCHANGED <<sem, full, sid, msgs, reset, early, exited>>

\* semctl(semid, 0, SETVAL, 0)
SetVal(r) ==
  /\ Goto(r, "setval", "barrier")
  /\ sem'   = [sem EXCEPT ![r] = 0]
  /\ reset' = reset \cup {r}
  /\ UNCHANGED <<semid, full, sid, msgs, early, exited>>

\* The thread is at its barrier (pthread_barrier_wait) or past it.
Arrived(t) == pc[t] \notin {"new", "semget", "setval"}

\* Mutant: the count is set to 0 again behind the barrier
PassBarrier_Reset(t) ==
  /\ \A u \in Kind(t) : Arrived(u)
  /\ Goto(t, "barrier", "loop")
  /\ sem' = [r \in Receivers |-> IF r = t THEN 0 ELSE sem[r]]
  /\ UNCHANGED <<semid, full, sid, msgs, reset, early, exited>>

\* pthread_barrier_wait returns: all threads of the kind have arrived
PassBarrier(t) ==
  /\ \A u \in Kind(t) : Arrived(u)
  /\ Goto(t, "barrier", "loop")
  /\ UNCHANGED <<semid, sem, full, sid, msgs, reset, early, exited>>

\* An input has a whole message for worker w, or a worker has run its
\* function: the sender reads the receiver's semid, then puts the entry on its
\* full list ...
PutFull(t, r) ==
  /\ sid'   = [sid EXCEPT ![t] = semid[r]]
  /\ full'  = [full EXCEPT ![r] = @ + 1]
  /\ early' = (early \/ r \notin reset)

Receive(p, w) ==
  /\ p \in Inputs /\ w \in Workers
  /\ msgs < MaxMsgs
  /\ Goto(p, "loop", "signal")
  /\ msgs' = msgs + 1
  /\ PutFull(p, w)
  /\ UNCHANGED <<semid, sem, reset, exited>>

\* ... and semop(sid, &semsignal, 1) follows: it reaches the semaphore r, or,
\* with a wild id, one of another process ...
SignalReaches(t, r) ==
  /\ Goto(t, "signal", "loop")
  /\ sid[t] = r \/ (sid[t] = Wild /\ semid[r] = r)
  /\ sem' = [sem EXCEPT ![r] = @ + 1]
  /\ UNCHANGED <<semid, full, sid, msgs, reset, early, exited>>

SignalElsewhere(t) ==
  /\ Goto(t, "signal", "loop")
  /\ sid[t] = Wild
  /\ UNCHANGED <<semid, sem, full, sid, msgs, reset, early, exited>>

\* ... or the id names no semaphore, and EEXIT ends the process.
SignalFails(t) ==
  /\ Goto(t, "signal", "loop")
  /\ sid[t] \in {None, Wild}
  /\ exited' = TRUE
  /\ UNCHANGED <<semid, sem, full, sid, msgs, reset, early>>

\* Mutant: the thread does not wait for a token
Awake_NoWait(r) ==
  /\ Goto(r, "loop", "take")
  /\ sem' = [sem EXCEPT ![r] = @ - 1]
  /\ UNCHANGED <<semid, full, sid, msgs, reset, early, exited>>

\* semop(semid, &semwait, 1)
Awake(r) ==
  /\ Goto(r, "loop", "take")
  /\ sem[r] > 0
  /\ sem' = [sem EXCEPT ![r] = @ - 1]
  /\ UNCHANGED <<semid, full, sid, msgs, reset, early, exited>>

\* The receiver takes one full entry, and a worker may have an output to pass
\* its result to.  A worker without a full entry goes on scanning ...
Take(r) ==
  /\ full[r] > 0
  /\ Goto(r, "take", IF r \in Workers /\ OutputOf[r] # None THEN "produce" ELSE "loop")
  /\ full' = [full EXCEPT ![r] = @ - 1]
  /\ UNCHANGED <<semid, sem, sid, msgs, reset, early, exited>>

\* ... and an output fails its assertion.
TakeNothing(o) ==
  /\ full[o] = 0
  /\ Goto(o, "take", "take")
  /\ exited' = TRUE
  /\ UNCHANGED <<semid, sem, full, sid, msgs, reset, early>>

Produce(w) ==
  /\ Goto(w, "produce", "signal")
  /\ PutFull(w, OutputOf[w])
  /\ UNCHANGED <<semid, sem, msgs, reset, exited>>

-----------------------------------------------------------------------------
Step(t) ==
  \/ Start(t)
  \/ PassBarrier(t)
  \/ SignalElsewhere(t) \/ SignalFails(t) \/ \E r \in Receivers : SignalReaches(t, r)
  \/ /\ t \in Receivers
     /\ SetSemid(t) \/ SetVal(t) \/ Awake(t) \/ Take(t)
  \/ t \in Workers /\ Produce(t)
  \/ t \in Outputs /\ TakeNothing(t)

Next ==
  /\ ~exited
  /\ \/ \E t \in Threads : Step(t)
     \/ \E p \in Inputs, w \in Workers : Receive(p, w)

Spec == Init /\ [][Next]_vars

\* Every runnable thread runs; main starts them all; no message need arrive.
FairSpec == Spec /\ \A t \in Threads : WF_vars(~exited /\ Step(t))

-----------------------------------------------------------------------------
TypeOK ==
  /\ pc     \in [Threads -> {"new", "semget", "setval", "barrier", "loop",
                             "signal", "take", "produce"}]
  /\ semid  \in [Receivers -> Ids]
  /\ sem    \in [Receivers -> Nat]
  /\ full   \in [Receivers -> Nat]
  /\ sid    \in [Threads -> Ids]
  /\ msgs   \in 0 .. MaxMsgs
  /\ reset  \in SUBSET Receivers
  /\ early  \in BOOLEAN
  /\ exited \in BOOLEAN

\* The threads between the two halves of a put
InFlight(r) == {t \in Threads : pc[t] = "signal" /\ sid[t] = r}

\* A sender that reached a receiver before its semctl(SETVAL) is the one way
\* startup goes wrong: without it no semop and no assertion fails, and every
\* full entry is paid for by a token, by a sender about to signal or by its
\* receiver being awake.
LateSendersAreSafe ==
  ~early =>
    /\ ~exited
    /\ \A r \in Receivers :
         full[r] = sem[r] + Cardinality(InFlight(r)) + (IF pc[r] = "take" THEN 1 ELSE 0)

\* Every thread gets past its barrier: main's order and the three barriers
\* never wait for each other.
AllThreadsUp ==
  <>(exited \/ \A t \in Threads : pc[t] \notin {"new", "semget", "setval", "barrier"})

\* "our job is to buffer a message to a work and then let the worker processes
\* it": what is on a full list is taken from it.
EveryMessageProcessed ==
  \A r \in Receivers : full[r] > 0 ~> full[r] = 0 \/ exited
=============================================================================
