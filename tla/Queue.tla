------------------------------- MODULE Queue -------------------------------
(***************************************************************************)
(* struct queue (queue.h): an array of entries threaded on two singly      *)
(* linked stacks, "empty" and "full", that threads pop and push with       *)
(* compare-and-swap and without locks.  The four operations of queue.h     *)
(*                                                                         *)
(*     queue_getEmptyEntry      pop  from this->empty                      *)
(*     queue_getFullEntry       pop  from this->full                       *)
(*     queue_putBackFullEntry   push on   this->full                       *)
(*     queue_putBackEmptyEntry  push on   this->empty                      *)
(*                                                                         *)
(* are two algorithms, Pop and Push, each applied to either list.  Every   *)
(* shared-memory access is a step of its own, so that the accesses of      *)
(* concurrent calls interleave as they do in the program.                  *)
(*                                                                         *)
(* The module defines the memory and the steps; WorkerQueues and           *)
(* OutputQueue say which threads call what, and in which order.            *)
(* The payload of an entry (len, data) is abstracted: an entry is its      *)
(* address.                                                                *)
(***************************************************************************)
EXTENDS Integers, SequencesExt

CONSTANTS
  Queues,    \* the queues (indices into worker->queues, or the output's one)
  QLen,      \* entries per queue (queue->qlen)
  Threads,   \* the threads that operate on the queues
  NULL       \* the null pointer

Entries == Queues \X (0 .. QLen - 1)    \* queue_getentryi(q, i)

ASSUME QueueAssumption ==
  /\ QLen \in Nat \ {0}                 \* ASSERT(qlen > 0)
  /\ NULL \notin Entries
  /\ Threads \cap {"empty", "full", "lost"} = {}    \* a thread is no place of an entry

Lists == Queues \X {"empty", "full"}    \* this->empty, this->full of each queue
Empty(q) == <<q, "empty">>
Full(q)  == <<q, "full">>

EntryOrNull == Entries \cup {NULL}

VARIABLES
  top,    \* top[l]: the head pointer of list l
  next,   \* next[e]: e->next
  pc,     \* control state of each thread
  list,   \* list[t]: the list t's call is working on
  qhead,  \* qhead[t]: its local qe_head
  qnext,  \* qnext[t]: its local qe_next
  qe,     \* qe[t]: the entry t holds between getting it and putting it back
  chain   \* history: chain[l] is what list l contains, bottom first

qvars == <<top, next, pc, list, qhead, qnext, qe, chain>>

Goto(t, label) == pc' = [pc EXCEPT ![t] = label]

-----------------------------------------------------------------------------
(***************************************************************************)
(* queue_init links the entries 0, 1, ..., qlen-1 on the empty list, in    *)
(* this order, and leaves the full list empty.  (What queue_init really    *)
(* does to the last entry is the subject of FreeList.)                     *)
(***************************************************************************)
QueueInit(start) ==
  /\ top   = [l \in Lists |-> IF l[2] = "empty" THEN <<l[1], 0>> ELSE NULL]
  /\ next  = [e \in Entries |-> IF e[2] < QLen - 1 THEN <<e[1], e[2] + 1>> ELSE NULL]
  /\ chain = [l \in Lists |-> IF l[2] = "empty"
                              THEN [i \in 1 .. QLen |-> <<l[1], QLen - i>>]
                              ELSE << >>]
  /\ pc    = start
  /\ qhead = [t \in Threads |-> NULL]
  /\ qnext = [t \in Threads |-> NULL]
  /\ qe    = [t \in Threads |-> NULL]

-----------------------------------------------------------------------------
(***************************************************************************)
(* Pop, the body shared by queue_getEmptyEntry and queue_getFullEntry.     *)
(***************************************************************************)

\* retry: qe_head = *head; if (qe_head == NULL) return.  The caller decides
\* where an empty list leads to (label none).
PopHead(t, none) ==
  /\ pc[t] = "popHead"
  /\ qhead' = [qhead EXCEPT ![t] = top[list[t]]]
  /\ Goto(t, IF top[list[t]] = NULL THEN none ELSE "popNext")
  /\ UNCHANGED <<top, next, qnext, qe, chain>>

\* qe_next = qe_head->next
PopNext(t) ==
  /\ pc[t] = "popNext"
  /\ qnext' = [qnext EXCEPT ![t] = next[qhead[t]]]
  /\ Goto(t, "popCas")
  /\ UNCHANGED <<top, next, list, qhead, qe, chain>>

\* Mutant: the head is stored without the comparison
PopCas_NoCompare(t) ==
  /\ pc[t] = "popCas"
  /\ top'   = [top EXCEPT ![list[t]] = qnext[t]]
  /\ chain' = [chain EXCEPT ![list[t]] = IF @ = << >> THEN @ ELSE Front(@)]
  /\ Goto(t, "popDetach")
  /\ UNCHANGED <<next, list, qhead, qnext, qe>>

\* if (!CAS(head, qe_head, qe_next)) goto retry
PopCas(t) ==
  /\ pc[t] = "popCas"
  /\ IF top[list[t]] = qhead[t]
       THEN /\ top'   = [top EXCEPT ![list[t]] = qnext[t]]
            /\ chain' = [chain EXCEPT ![list[t]] = Front(@)]
            /\ Goto(t, "popDetach")
       ELSE /\ Goto(t, "popHead")
            /\ UNCHANGED <<top, chain>>
  /\ UNCHANGED <<next, list, qhead, qnext, qe>>

\* qe_head->next = NULL; *qe = qe_head; return
PopDetach(t, done) ==
  /\ pc[t] = "popDetach"
  /\ next'  = [next EXCEPT ![qhead[t]] = NULL]
  /\ qe'    = [qe EXCEPT ![t] = qhead[t]]
  /\ qhead' = [qhead EXCEPT ![t] = NULL]    \* the locals go out of scope
  /\ qnext' = [qnext EXCEPT ![t] = NULL]
  /\ Goto(t, done)
  /\ UNCHANGED <<top, chain>>

(***************************************************************************)
(* Push, the body shared by queue_putBackFullEntry and                     *)
(* queue_putBackEmptyEntry.                                                *)
(***************************************************************************)

\* retry: qe_head = *head
PushHead(t) ==
  /\ pc[t] = "pushHead"
  /\ qhead' = [qhead EXCEPT ![t] = top[list[t]]]
  /\ Goto(t, "pushLink")
  /\ UNCHANGED <<top, next, list, qnext, qe, chain>>

\* Mutant: qe->next keeps its old value
PushLink_Unlinked(t) ==
  /\ pc[t] = "pushLink"
  /\ Goto(t, "pushCas")
  /\ UNCHANGED <<top, next, list, qhead, qnext, qe, chain>>

\* qe->next = qe_head
PushLink(t) ==
  /\ pc[t] = "pushLink"
  /\ next' = [next EXCEPT ![qe[t]] = qhead[t]]
  /\ Goto(t, "pushCas")
  /\ UNCHANGED <<top, list, qhead, qnext, qe, chain>>

\* Mutant: the head is stored without the comparison
PushCas_NoCompare(t, done) ==
  /\ pc[t] = "pushCas"
  /\ top'   = [top EXCEPT ![list[t]] = qe[t]]
  /\ chain' = [chain EXCEPT ![list[t]] = Append(@, qe[t])]
  /\ qe'    = [qe EXCEPT ![t] = NULL]
  /\ qhead' = [qhead EXCEPT ![t] = NULL]
  /\ Goto(t, done)
  /\ UNCHANGED <<next, list, qnext>>

\* if (!CAS(head, qe_head, qe)) goto retry; the caller forgets its pointer
PushCas(t, done) ==
  /\ pc[t] = "pushCas"
  /\ IF top[list[t]] = qhead[t]
       THEN /\ top'   = [top EXCEPT ![list[t]] = qe[t]]
            /\ chain' = [chain EXCEPT ![list[t]] = Append(@, qe[t])]
            /\ qe'    = [qe EXCEPT ![t] = NULL]
            /\ qhead' = [qhead EXCEPT ![t] = NULL]
            /\ Goto(t, done)
       ELSE /\ Goto(t, "pushHead")
            /\ UNCHANGED <<top, qhead, qe, chain>>
  /\ UNCHANGED <<next, list, qnext>>

-----------------------------------------------------------------------------
(***************************************************************************)
(* What a client may rely on.                                              *)
(***************************************************************************)
Labels == {"idle", "popHead", "popNext", "popCas", "popDetach", "fill",
           "pushHead", "pushLink", "pushCas", "signal", "wait", "run",
           "overrun", "doomed", "fault"}

QueueTypeOK ==
  /\ top   \in [Lists -> EntryOrNull]
  /\ next  \in [Entries -> EntryOrNull]
  /\ pc    \in [Threads -> Labels]
  /\ list  \in [Threads -> Lists]
  /\ qhead \in [Threads -> EntryOrNull]
  /\ qnext \in [Threads -> EntryOrNull]
  /\ qe    \in [Threads -> EntryOrNull]
  /\ chain \in [Lists -> Seq(Entries)]

\* The labels of a call in progress.
Popping(t) == pc[t] \in {"popHead", "popNext", "popCas"}
Pushing(t) == pc[t] \in {"pushHead", "pushLink", "pushCas"}

\* No list has two threads popping it at the same time.
SoleGetter ==
  \A t, u \in Threads : t # u /\ Popping(t) /\ Popping(u) => list[t] # list[u]

\* The entry a thread owns: from the successful CAS of a pop to the
\* successful CAS of the push that gives it back.
Holding(t) == IF pc[t] = "popDetach" THEN qhead[t] ELSE qe[t]

\* Memory holds exactly the list c: it starts at the head pointer tp,
\* follows the next pointers nx, ends with NULL and visits no entry twice.
Linked(c, tp, nx) ==
  /\ tp = IF c = << >> THEN NULL ELSE Last(c)
  /\ \A i \in DOMAIN c : nx[c[i]] = IF i = 1 THEN NULL ELSE c[i - 1]
  /\ IsInjective(c)

\* Every list of every queue is a well-formed linked list: no CAS has ever
\* installed a stale qe_next (queue.h, the two get operations).
ListsWellFormed == \A l \in Lists : Linked(chain[l], top[l], next)

\* No entry is on two lists, held by two threads, or held while on a list.
ExclusiveEntries ==
  /\ \A l, m \in Lists : l # m => Range(chain[l]) \cap Range(chain[m]) = {}
  /\ \A t \in Threads, l \in Lists : Holding(t) \notin Range(chain[l])
  /\ \A t, u \in Threads : t # u /\ Holding(t) # NULL => Holding(t) # Holding(u)

\* The entries that are on some list or in some thread's hands.
Listed == UNION {Range(chain[l]) : l \in Lists}
Held   == {Holding(t) : t \in Threads} \ {NULL}
Placed == Listed \cup Held

\* What the locals of a call know of the memory: the entry a pop has read is
\* still on the list, its qe_next is still right, and the entry of a push
\* points where qe_head says.
LocalsAgree ==
  \A t \in Threads :
    /\ pc[t] \in {"popNext", "popCas"} => qhead[t] \in Range(chain[list[t]])
    /\ pc[t] = "popCas" => qnext[t] = next[qhead[t]]
    /\ pc[t] = "popDetach" => qhead[t] \in Entries
    /\ Popping(t) \/ pc[t] = "popDetach" => qe[t] = NULL
    /\ Pushing(t) => qe[t] \in Entries
    /\ pc[t] = "pushCas" => next[qe[t]] = qhead[t]

\* Inductive as long as SoleGetter holds (QueueProofs).
QueueInv ==
  /\ QueueTypeOK
  /\ ListsWellFormed
  /\ ExclusiveEntries
  /\ LocalsAgree

OnList(kind) == UNION {Range(chain[<<q, kind>>]) : q \in Queues}

\* Where every entry is: what EntryPool calls its owner.
Owner ==
  [e \in Entries |->
     IF e \in OnList("empty") THEN "empty"
     ELSE IF e \in OnList("full") THEN "full"
     ELSE IF e \in Held THEN CHOOSE t \in Threads : Holding(t) = e
     ELSE "lost"]
=============================================================================
