--------------------------- MODULE OutputQueueProofs ---------------------------
(***************************************************************************)
(* An output that at most one worker uses is correct until this worker     *)
(* finds the queue full: its lists stay well formed, the assertion of its  *)
(* thread does not fail, every message reaches the socket at most once and *)
(* as it was put, and the output implements the abstract EntryPool and     *)
(* Outbox.  After an overrun, which may write over a link, only the types  *)
(* are certain, and that the worker crashes.  (With two workers all of     *)
(* this is false: they pop the same list.)                                 *)
(***************************************************************************)
EXTENDS OutputQueue, QueueProofs

\* At most one worker is configured with this output.
SoleWorker == \A w, x \in Workers : w = x

\* A worker that has begun a message and not yet put it on the queue.
Making(w) ==
  pc[w] \in {"popHead", "popNext", "popCas", "popDetach", "fill", "overrun",
             "pushHead", "pushLink", "pushCas"}

\* Which calls each thread makes, on which list, and when it has an entry.
WorkerRole(w) ==
  /\ pc[w] \notin {"wait", "run"}
  /\ Popping(w) => list[w] = Empty(OQ)
  /\ Pushing(w) => list[w] = Full(OQ)
  /\ pc[w] = "fill" => qe[w] \in Entries
  /\ pc[w] \in {"idle", "signal", "overrun", "doomed", "fault"} => qe[w] = NULL
  /\ Making(w) => made[w] # 0

OutRole ==
  /\ pc[Out] \notin {"idle", "fill", "signal", "overrun", "doomed"}
  /\ Popping(Out) => list[Out] = Full(OQ)
  /\ Pushing(Out) => list[Out] = Empty(OQ)
  /\ pc[Out] = "run" => qe[Out] \in Entries
  /\ pc[Out] \in {"wait", "fault"} => qe[Out] = NULL

Roles == OutRole /\ \A w \in Workers : WorkerRole(w)

\* What does not depend on the links in memory, and survives an overrun.
Local == TypeOK /\ Typed /\ Roles

\* The part of the invariant that says where the entries are.
Structure == Local /\ QueueInv /\ Placed = Entries

\* The part that counts: every full entry is paid for by a token, by the pop
\* of the output's thread or by a worker about to signal.
Signallers == {w \in Workers : pc[w] = "signal"}
InGet == IF Popping(Out) THEN 1 ELSE 0

Tokens ==
  /\ Cardinality(OnList("full")) = sem + InGet + Cardinality(Signallers)
  /\ pc[Out] # "fault"

\* The part about the messages.  A message is in one place only: the messages
\* due, sent and dropped are all different, all were put, and the one a worker is
\* making is none of them.
Seen == Range(wire) \cup dropped \cup Pending

Delivery ==
  /\ IsInjective(wire) /\ dropped \cap Range(wire) = {}
  /\ dropped # {} => gone
  /\ \A e \in Due : content[e] \in Messages \ (Range(wire) \cup dropped)
  /\ \A e, f \in Due : content[e] = content[f] => e = f
  /\ \A w \in Workers : Pushing(w) => content[qe[w]] = <<w, made[w]>>
  /\ \A w \in Workers, n \in 1 .. MaxMsgs :
       <<w, n>> \in Seen => n <= made[w] /\ (Making(w) => n # made[w])

AsPut == Seen \subseteq put

Inv == Local /\ (Doomed \/ (Structure /\ Tokens /\ Delivery /\ AsPut))

\* The steps of a worker that has an output entry, or gets one
WorkerLives(w) ==
  GetQueueEntry(w) \/ WorkerPop(w) \/ RunFunc(w) \/ WorkerPush(w) \/ Signal(w)

-----------------------------------------------------------------------------
(***************************************************************************)
(* Where the entries are.                                                  *)
(***************************************************************************)

\* The one worker pops the empty list, the output's thread the full list.
LEMMA RolesGiveSoleGetter ==
  ASSUME SoleWorker, Roles
  PROVE  SoleGetter
<1>1. Popping(Out) => list[Out][2] = "full"
  BY DEF Roles, OutRole, Full
<1>2. \A w \in Workers : Popping(w) => list[w][2] = "empty"
  BY DEF Roles, WorkerRole, Empty
<1> QED
  BY <1>1, <1>2, OutputAssumption DEF SoleGetter, SoleWorker

\* A step of one thread leaves the roles of the others alone.
LEMMA RolesFrame ==
  ASSUME Roles, NEW t \in Threads,
         \A u \in Threads : u # t => /\ pc'[u] = pc[u]
                                     /\ list'[u] = list[u]
                                     /\ qe'[u] = qe[u],
         \A w \in Workers : w # t => made'[w] = made[w],
         t = Out => OutRole',
         t \in Workers => WorkerRole(t)'
  PROVE  Roles'
<1>1. OutRole'
  BY OutputAssumption DEF Roles, OutRole, Popping, Pushing
<1>2. ASSUME NEW w \in Workers
      PROVE  WorkerRole(w)'
  BY OutputAssumption DEF Roles, WorkerRole, Popping, Pushing, Making
<1> QED
  BY <1>1, <1>2 DEF Roles

\* The output is set up.
LEMMA InitStructure == Init => Structure
<1> SUFFICES ASSUME Init
             PROVE  Structure
  OBVIOUS
<1> DEFINE start == [t \in Threads |-> IF t = Out THEN "wait" ELSE "idle"]
<1>1. start \in [Threads -> Labels]
  BY DEF Labels
<1>2. Empty(OQ) \in Lists /\ Full(OQ) \in Lists
  BY OutputAssumption DEF Lists, Empty, Full
<1>3. list \in [Threads -> Lists] /\ QueueInit(start)
  BY <1>2 DEF Init
<1>4. QueueInv /\ Placed = Entries
  <2>1. \A t \in Threads : start[t] \in {"idle", "wait", "run"}
    OBVIOUS
  <2> QED
    BY <1>1, <1>3, <2>1, QueueInitInv
<1>5. TypeOK
  <2>1. /\ sem = 0 /\ put = {} /\ wire = << >> /\ gone = FALSE /\ dropped = {}
        /\ made = [w \in Workers |-> 0] /\ odata = [w \in Workers |-> NULL]
        /\ content = [e \in Entries |-> NULL]
    BY DEF Init
  <2>2. 0 \in 0 .. MaxMsgs /\ << >> \in Seq(Messages \cup {NULL})
    BY OutputAssumption
  <2> QED
    BY <1>4, <2>1, <2>2 DEF TypeOK, QueueInv, EntryOrNull
<1>6. pc = start /\ qe = [t \in Threads |-> NULL]
  BY DEF Init, QueueInit
<1>7. OutRole
  BY <1>6, OutputAssumption DEF OutRole, Popping, Pushing
<1>8. ASSUME NEW w \in Workers
      PROVE  WorkerRole(w)
  <2>1. pc[w] = "idle" /\ qe[w] = NULL
    BY <1>6, OutputAssumption
  <2> QED
    BY <2>1 DEF WorkerRole, Popping, Pushing, Making
<1>9. Typed
  BY <1>4, <1>6 DEF Typed, QueueInv, CallOK, Popping, Pushing
<1> QED
  BY <1>4, <1>5, <1>7, <1>8, <1>9 DEF Structure, Local, Roles

\* A worker gets an entry: queue_getEmptyEntry.
LEMMA WorkerPopStructure ==
  ASSUME SoleWorker, Local, NEW w \in Workers, WorkerPop(w)
  PROVE  Local' /\ (Structure => Structure')
<1>1. /\ TypeOK /\ Typed /\ QueueTypeOK /\ CallOK(w) /\ Roles /\ WorkerRole(w)
      /\ w \in Threads /\ w # Out /\ SoleGetter
  BY OutputAssumption, RolesGiveSoleGetter DEF Local, Typed, TypeOK, Roles
<1>2. UNCHANGED <<sem, made, odata, content, gone, put, wire, dropped>>
  BY DEF WorkerPop
<1>3. {"overrun", "fill"} \subseteq Labels \ Busy
  BY DEF Labels, Busy
<1>4. /\ Typed' /\ (QueueInv => QueueInv' /\ Placed' = Placed)
      /\ WorkerRole(w)'
      /\ \A u \in Threads : u # w => /\ pc'[u] = pc[u]
                                     /\ list'[u] = list[u]
                                     /\ qe'[u] = qe[u]
  <2>1. CASE PopHead(w, "overrun") /\ UNCHANGED list
    <3>1. "overrun" \in Labels \ Busy /\ list' \in [Threads -> Lists] /\ list' = list
      BY <1>1, <1>3, <2>1 DEF QueueTypeOK
    <3>2. Typed' /\ (QueueInv => QueueInv' /\ Placed' = Placed)
      BY <1>1, <2>1, <3>1, PopTyped, PopHeadInv
    <3>3. qe[w] = NULL
      BY <1>1, <2>1 DEF CallOK, Popping, PopHead
    <3> QED
      BY <1>1, <1>2, <2>1, <3>2, <3>3
         DEF QueueTypeOK, PopHead, Goto, WorkerRole, Popping, Pushing, Making
  <2>2. CASE PopNext(w)
    <3>1. Typed' /\ (QueueInv => QueueInv' /\ Placed' = Placed)
      BY <1>1, <1>3, <2>2, PopTyped, PopNextInv
    <3> QED
      BY <1>1, <1>2, <2>2, <3>1
         DEF QueueTypeOK, PopNext, Goto, WorkerRole, Popping, Pushing, Making
  <2>3. CASE PopCas(w)
    <3>1. Typed' /\ (QueueInv => QueueInv' /\ Placed' = Placed)
      BY <1>1, <1>3, <2>3, PopTyped, PopCasInv
    <3> QED
      BY <1>1, <1>2, <2>3, <3>1
         DEF QueueTypeOK, PopCas, Goto, WorkerRole, Popping, Pushing, Making
  <2>4. CASE PopDetach(w, "fill") /\ UNCHANGED list
    <3>1. Typed' /\ (QueueInv => QueueInv' /\ Placed' = Placed)
      BY <1>1, <1>3, <2>4, PopTyped, PopDetachInv DEF Busy
    <3>2. qhead[w] \in Entries
      BY <1>1, <2>4 DEF CallOK, PopDetach
    <3> QED
      BY <1>1, <1>2, <2>4, <3>1, <3>2
         DEF QueueTypeOK, PopDetach, Goto, WorkerRole, Popping, Pushing, Making
  <2> QED
    BY <2>1, <2>2, <2>3, <2>4 DEF WorkerPop
<1>5. Roles'
  BY <1>1, <1>2, <1>4, RolesFrame
<1>6. TypeOK'
  BY <1>1, <1>2, <1>4 DEF TypeOK, Typed
<1> QED
  BY <1>4, <1>5, <1>6 DEF Structure, Local

\* A worker puts its entry on the full list: queue_putBackFullEntry.
LEMMA WorkerPushStructure ==
  ASSUME Local, NEW w \in Workers, WorkerPush(w)
  PROVE  Local' /\ (Structure => Structure')
<1>1. /\ TypeOK /\ Typed /\ QueueTypeOK /\ Roles /\ WorkerRole(w)
      /\ w \in Threads /\ w # Out
  BY OutputAssumption DEF Local, TypeOK, Roles
<1>2. UNCHANGED <<sem, made, odata, content, gone, wire, dropped>>
  BY DEF WorkerPush
<1>3. "signal" \in Labels \ Busy
  BY DEF Labels, Busy
<1>4. /\ Typed' /\ (QueueInv => QueueInv' /\ Placed' = Placed)
      /\ WorkerRole(w)'
      /\ \A u \in Threads : u # w => /\ pc'[u] = pc[u]
                                     /\ list'[u] = list[u]
                                     /\ qe'[u] = qe[u]
  <2>1. CASE PushHead(w)
    <3>1. Typed' /\ (QueueInv => QueueInv' /\ Placed' = Placed)
      BY <1>1, <2>1, <1>3, PushTyped, PushHeadInv
    <3> QED
      BY <1>1, <1>2, <2>1, <3>1
         DEF QueueTypeOK, PushHead, Goto, WorkerRole, Popping, Pushing, Making
  <2>2. CASE PushLink(w)
    <3>1. Typed' /\ (QueueInv => QueueInv' /\ Placed' = Placed)
      BY <1>1, <2>2, <1>3, PushTyped, PushLinkInv
    <3> QED
      BY <1>1, <1>2, <2>2, <3>1
         DEF QueueTypeOK, PushLink, Goto, WorkerRole, Popping, Pushing, Making
  <2>3. CASE PushCas(w, "signal")
    <3>1. Typed' /\ (QueueInv => QueueInv' /\ Placed' = Placed)
      BY <1>1, <1>3, <2>3, PushTyped, PushCasInv
    <3> QED
      BY <1>1, <1>2, <2>3, <3>1
         DEF QueueTypeOK, PushCas, Goto, WorkerRole, Popping, Pushing, Making
  <2> QED
    BY <2>1, <2>2, <2>3 DEF WorkerPush
<1>5. Roles'
  BY <1>1, <1>2, <1>4, RolesFrame
<1>6. put' \in SUBSET Messages
  <2>1. put \in SUBSET Messages
    BY <1>1 DEF TypeOK
  <2>2. CASE pc[w] = "pushCas"
    <3>1. made[w] \in 1 .. MaxMsgs
      BY <1>1, <2>2, OutputAssumption DEF TypeOK, WorkerRole, Making
    <3>2. <<w, made[w]>> \in Messages
      BY <3>1 DEF Messages
    <3> QED
      BY <2>1, <2>2, <3>2 DEF WorkerPush, PushHead, PushLink
  <2>3. CASE pc[w] # "pushCas"
    BY <2>1, <2>3 DEF WorkerPush, PushCas
  <2> QED
    BY <2>2, <2>3
<1>7. TypeOK'
  BY <1>1, <1>2, <1>4, <1>6 DEF TypeOK, Typed
<1> QED
  BY <1>4, <1>5, <1>7 DEF Structure, Local

\* The steps a worker takes outside the queue operations.
LEMMA WorkerOwnStructure ==
  ASSUME Local, NEW w \in Workers,
         GetQueueEntry(w) \/ RunFunc(w) \/ Crash(w) \/ Signal(w)
  PROVE  Local' /\ (Structure => Structure')
<1>1. /\ TypeOK /\ Typed /\ QueueTypeOK /\ Roles /\ WorkerRole(w)
      /\ w \in Threads /\ w # Out /\ MaxMsgs \in Nat
  BY OutputAssumption DEF Local, TypeOK, Roles
<1>2. PICK label \in {"popHead", "pushHead", "fault", "idle"} :
        /\ Goto(w, label)
        /\ label = "popHead" => pc[w] = "idle" /\ list' = [list EXCEPT ![w] = Empty(OQ)]
        /\ label = "pushHead" => pc[w] = "fill" /\ list' = [list EXCEPT ![w] = Full(OQ)]
        /\ label \in {"fault", "idle"} =>
             pc[w] \in {"doomed", "signal"} /\ list' = list
        /\ UNCHANGED <<top, next, qhead, qnext, qe, chain, put, wire, gone, dropped>>
        /\ label # "popHead" => made' = made
        /\ label = "popHead" => made[w] < MaxMsgs /\ made' = [made EXCEPT ![w] = @ + 1]
  BY DEF GetQueueEntry, RunFunc, Crash, Signal
<1>3. pc' = [pc EXCEPT ![w] = label] /\ pc'[w] = label /\ pc[w] # "popDetach"
  BY <1>1, <1>2 DEF Goto, QueueTypeOK
<1>4. Empty(OQ) \in Lists /\ Full(OQ) \in Lists
  BY OutputAssumption DEF Lists, Empty, Full
<1>5. /\ list' \in [Threads -> Lists]
      /\ \A u \in Threads : u # w => list'[u] = list[u]
      /\ label = "popHead" => list'[w] = Empty(OQ)
      /\ label = "pushHead" => list'[w] = Full(OQ)
  <2>1. list \in [Threads -> Lists]
    BY <1>1 DEF QueueTypeOK
  <2>2. CASE label = "popHead"
    BY <1>1, <1>2, <1>4, <2>1, <2>2
  <2>3. CASE label = "pushHead"
    BY <1>1, <1>2, <1>4, <2>1, <2>3
  <2>4. CASE label \in {"fault", "idle"}
    BY <1>2, <2>1, <2>4
  <2> QED
    BY <2>2, <2>3, <2>4
<1>6. qe'[w] = qe[w] /\ (label = "pushHead" => qe[w] \in Entries)
                     /\ (label # "pushHead" => qe[w] = NULL)
  BY <1>1, <1>2 DEF WorkerRole
<1>7. Typed' /\ (QueueInv => QueueInv' /\ Placed' = Placed)
  <2>1. label \in Labels \ (Busy \ {"pushHead"})
    BY DEF Labels, Busy
  <2>2. Typed'
    BY <1>1, <1>2, <1>5, <1>6, <2>1, ClientTyped DEF QueueTypeOK
  <2>3. QueueInv => QueueInv' /\ Placed' = Placed \ (IF qe' = qe THEN {} ELSE {qe[w]})
    BY <1>1, <1>2, <1>3, <1>5, <1>6, <2>1, ClientStepInv
  <2> QED
    BY <1>2, <2>2, <2>3
<1>8. made' \in [Workers -> 0 .. MaxMsgs] /\ (label = "popHead" => made'[w] # 0)
  <2>1. made \in [Workers -> 0 .. MaxMsgs]
    BY <1>1 DEF TypeOK
  <2>2. CASE label = "popHead"
    <3>1. made[w] + 1 \in 0 .. MaxMsgs /\ made[w] + 1 # 0
      BY <1>1, <1>2, <2>1, <2>2
    <3> QED
      BY <1>2, <2>1, <2>2, <3>1
  <2> QED
    BY <1>2, <2>1, <2>2
<1>9. WorkerRole(w)'
  BY <1>1, <1>2, <1>3, <1>5, <1>6, <1>8 DEF WorkerRole, Popping, Pushing, Making
<1>10. Roles'
  <2>1. /\ \A u \in Threads : u # w => /\ pc'[u] = pc[u]
                                       /\ list'[u] = list[u]
                                       /\ qe'[u] = qe[u]
        /\ \A x \in Workers : x # w => made'[x] = made[x]
    BY <1>1, <1>2, <1>3, <1>5 DEF TypeOK, QueueTypeOK
  <2> QED
    BY <1>1, <1>9, <2>1, RolesFrame
<1>11. sem' \in Nat /\ odata' \in [Workers -> EntryOrNull]
                    /\ content' \in [Entries -> Messages \cup {NULL}]
  <2>1. sem \in Nat /\ odata \in [Workers -> EntryOrNull]
                    /\ content \in [Entries -> Messages \cup {NULL}]
    BY <1>1 DEF TypeOK
  <2>2. CASE RunFunc(w)
    <3>1. made[w] # 0 /\ made[w] \in 0 .. MaxMsgs
      BY <1>1, <2>2 DEF RunFunc, WorkerRole, Making, TypeOK
    <3>2. <<w, made[w]>> \in Messages
      BY <1>1, <3>1 DEF Messages
    <3>3. qe[w] \in EntryOrNull
      BY <1>1 DEF QueueTypeOK
    <3> QED
      BY <2>1, <2>2, <3>2, <3>3 DEF RunFunc
  <2>3. CASE GetQueueEntry(w) \/ Crash(w) \/ Signal(w)
    BY <2>1, <2>3 DEF GetQueueEntry, Crash, Signal
  <2> QED
    BY <2>2, <2>3
<1>12. TypeOK'
  BY <1>1, <1>2, <1>7, <1>8, <1>11 DEF TypeOK, Typed
<1> QED
  BY <1>7, <1>10, <1>12 DEF Structure, Local

\* An overrun writes an entry's content, and perhaps a link, but no local.
LEMMA OverrunLocal ==
  ASSUME Local, NEW w \in Workers, RunFuncOverrun(w)
  PROVE  Local'
<1>1. /\ TypeOK /\ Typed /\ QueueTypeOK /\ Roles /\ WorkerRole(w)
      /\ w \in Threads /\ w # Out
  BY OutputAssumption DEF Local, TypeOK, Roles
<1>2. /\ pc[w] = "overrun" /\ Goto(w, "doomed")
      /\ UNCHANGED <<top, list, qhead, qnext, qe, chain, sem, made, odata, gone, put,
                     wire, dropped>>
  BY DEF RunFuncOverrun
<1>3. <<w, made[w]>> \in Messages
  <2>1. made[w] \in 1 .. MaxMsgs
    BY <1>1, <1>2, OutputAssumption DEF TypeOK, WorkerRole, Making
  <2> QED
    BY <2>1 DEF Messages
<1>4. content' \in [Entries -> Messages \cup {NULL}] /\ next' \in [Entries -> EntryOrNull]
  <2>1. content \in [Entries -> Messages \cup {NULL}] /\ next \in [Entries -> EntryOrNull]
    BY <1>1 DEF TypeOK, QueueTypeOK
  <2>2. PICK e : \/ UNCHANGED <<content, next>>
                 \/ /\ content' = [content EXCEPT ![e] = <<w, made[w]>>]
                    /\ \/ UNCHANGED next
                       \/ \E f \in Behind(e), bytes \in EntryOrNull :
                            next' = [next EXCEPT ![f] = bytes]
    BY DEF RunFuncOverrun
  <2>3. content' \in [Entries -> Messages \cup {NULL}]
    BY <1>3, <2>1, <2>2
  <2>4. next' \in [Entries -> EntryOrNull]
    BY <2>1, <2>2 DEF Behind
  <2> QED
    BY <2>3, <2>4
<1>5. Typed'
  <2>1. "doomed" \in Labels \ (Busy \ {"pushHead"}) /\ list' \in [Threads -> Lists]
    BY <1>1, <1>2 DEF Labels, Busy, QueueTypeOK
  <2> QED
    BY <1>1, <1>2, <1>4, <2>1, ClientTyped
<1>6. pc' = [pc EXCEPT ![w] = "doomed"] /\ pc'[w] = "doomed"
  BY <1>1, <1>2 DEF Goto, QueueTypeOK
<1>7. WorkerRole(w)'
  BY <1>1, <1>2, <1>6 DEF WorkerRole, Popping, Pushing, Making
<1>8. Roles'
  <2>1. \A u \in Threads : u # w => pc'[u] = pc[u]
    BY <1>1, <1>6 DEF QueueTypeOK
  <2> QED
    BY <1>1, <1>2, <1>7, <2>1, RolesFrame
<1>9. TypeOK'
  BY <1>1, <1>2, <1>4, <1>5 DEF TypeOK, Typed
<1> QED
  BY <1>5, <1>8, <1>9 DEF Local

\* The steps of the output's thread, and of its peer.
LEMMA OutStructure ==
  ASSUME SoleWorker, Local, OutStep \/ PeerGoes
  PROVE  Local' /\ (Structure => Structure')
<1>1. /\ TypeOK /\ Typed /\ QueueTypeOK /\ CallOK(Out) /\ Roles /\ OutRole
      /\ Out \in Threads /\ Out \notin Workers /\ SoleGetter
  BY OutputAssumption, RolesGiveSoleGetter DEF Local, Typed, TypeOK, Roles
<1>2. UNCHANGED <<made, odata, content, put>>
  BY DEF OutStep, PeerGoes, Awake, OutPop, Send, OutPush
<1>3. {"fault", "run", "wait"} \subseteq Labels \ Busy
  BY DEF Labels, Busy
<1>4. Empty(OQ) \in Lists /\ Full(OQ) \in Lists
  BY OutputAssumption DEF Lists, Empty, Full
<1>5. /\ Typed' /\ (QueueInv => QueueInv' /\ Placed' = Placed)
      /\ OutRole'
      /\ \A u \in Threads : u # Out => /\ pc'[u] = pc[u]
                                       /\ list'[u] = list[u]
                                       /\ qe'[u] = qe[u]
  <2>1. CASE Awake
    <3>1. pc[Out] = "wait" /\ qe[Out] = NULL /\ list' \in [Threads -> Lists]
      BY <1>1, <1>4, <2>1 DEF Awake, OutRole, QueueTypeOK
    <3>2. "popHead" \in Labels \ (Busy \ {"pushHead"})
      BY DEF Labels, Busy
    <3>3. Typed' /\ (QueueInv => QueueInv' /\ Placed' = Placed)
      BY <1>1, <2>1, <3>1, <3>2, ClientTyped, ClientStepInv DEF Awake, QueueTypeOK
    <3> QED
      BY <1>1, <2>1, <3>1, <3>3
         DEF QueueTypeOK, Awake, Goto, OutRole, Popping, Pushing
  <2>2. CASE Send
    <3>1. pc[Out] = "run" /\ qe[Out] \in Entries /\ list' \in [Threads -> Lists]
      BY <1>1, <1>4, <2>2 DEF Send, OutRole, QueueTypeOK
    <3>2. "pushHead" \in Labels \ (Busy \ {"pushHead"})
      BY DEF Labels, Busy
    <3>3. Typed' /\ (QueueInv => QueueInv' /\ Placed' = Placed)
      BY <1>1, <2>2, <3>1, <3>2, ClientTyped, ClientStepInv DEF Send, QueueTypeOK
    <3> QED
      BY <1>1, <2>2, <3>1, <3>3
         DEF QueueTypeOK, Send, Goto, OutRole, Popping, Pushing
  <2>3. CASE PopHead(Out, "fault") /\ UNCHANGED list
    <3>1. "fault" \in Labels \ Busy /\ list' \in [Threads -> Lists] /\ list' = list
      BY <1>1, <1>3, <2>3 DEF QueueTypeOK
    <3>2. Typed' /\ (QueueInv => QueueInv' /\ Placed' = Placed)
      BY <1>1, <2>3, <3>1, PopTyped, PopHeadInv
    <3>3. qe[Out] = NULL
      BY <1>1, <2>3 DEF CallOK, Popping, PopHead
    <3> QED
      BY <1>1, <2>3, <3>2, <3>3
         DEF QueueTypeOK, PopHead, Goto, OutRole, Popping, Pushing
  <2>4. CASE PopNext(Out)
    <3>1. Typed' /\ (QueueInv => QueueInv' /\ Placed' = Placed)
      BY <1>1, <2>4, <1>3, PopTyped, PopNextInv
    <3> QED
      BY <1>1, <2>4, <3>1 DEF QueueTypeOK, PopNext, Goto, OutRole, Popping, Pushing
  <2>5. CASE PopCas(Out)
    <3>1. Typed' /\ (QueueInv => QueueInv' /\ Placed' = Placed)
      BY <1>1, <2>5, <1>3, PopTyped, PopCasInv
    <3> QED
      BY <1>1, <2>5, <3>1 DEF QueueTypeOK, PopCas, Goto, OutRole, Popping, Pushing
  <2>6. CASE PopDetach(Out, "run") /\ UNCHANGED list
    <3>1. Typed' /\ (QueueInv => QueueInv' /\ Placed' = Placed)
      BY <1>1, <1>3, <2>6, PopTyped, PopDetachInv DEF Busy
    <3>2. qhead[Out] \in Entries
      BY <1>1, <2>6 DEF CallOK, PopDetach
    <3> QED
      BY <1>1, <2>6, <3>1, <3>2
         DEF QueueTypeOK, PopDetach, Goto, OutRole, Popping, Pushing
  <2>7. CASE PushHead(Out)
    <3>1. Typed' /\ (QueueInv => QueueInv' /\ Placed' = Placed)
      BY <1>1, <2>7, <1>3, PushTyped, PushHeadInv
    <3> QED
      BY <1>1, <2>7, <3>1 DEF QueueTypeOK, PushHead, Goto, OutRole, Popping, Pushing
  <2>8. CASE PushLink(Out)
    <3>1. Typed' /\ (QueueInv => QueueInv' /\ Placed' = Placed)
      BY <1>1, <2>8, <1>3, PushTyped, PushLinkInv
    <3> QED
      BY <1>1, <2>8, <3>1 DEF QueueTypeOK, PushLink, Goto, OutRole, Popping, Pushing
  <2>9. CASE PushCas(Out, "wait")
    <3>1. Typed' /\ (QueueInv => QueueInv' /\ Placed' = Placed)
      BY <1>1, <1>3, <2>9, PushTyped, PushCasInv
    <3> QED
      BY <1>1, <2>9, <3>1 DEF QueueTypeOK, PushCas, Goto, OutRole, Popping, Pushing
  <2>10. CASE PeerGoes
    <3>1. UNCHANGED <<top, next, pc, list, qhead, qnext, qe, chain>>
      BY <2>10 DEF PeerGoes, qvars
    <3>2. Typed' /\ (QueueInv => QueueInv' /\ Placed' = Placed)
      BY <1>1, <3>1 DEF Typed, CallOK, QueueInv, QueueTypeOK, ListsWellFormed,
                        ExclusiveEntries, LocalsAgree, Holding, Popping, Pushing, Placed,
                        Listed, Held
    <3> QED
      BY <1>1, <3>1, <3>2 DEF OutRole, Popping, Pushing
  <2> QED
    BY <2>1, <2>2, <2>3, <2>4, <2>5, <2>6, <2>7, <2>8, <2>9, <2>10
       DEF OutStep, OutPop, OutPush
<1>6. Roles'
  BY <1>1, <1>2, <1>5, RolesFrame
<1>7. sem' \in Nat /\ gone' \in BOOLEAN
  <2>1. sem \in Nat /\ gone \in BOOLEAN
    BY <1>1 DEF TypeOK
  <2>2. CASE Awake
    BY <2>1, <2>2 DEF Awake
  <2>3. CASE ~Awake
    BY <2>1, <2>3 DEF OutStep, PeerGoes, OutPop, Send, OutPush
  <2> QED
    BY <2>2, <2>3
<1>8. wire' \in Seq(Messages \cup {NULL}) /\ dropped' \in SUBSET (Messages \cup {NULL})
  <2>1. /\ wire \in Seq(Messages \cup {NULL}) /\ dropped \in SUBSET (Messages \cup {NULL})
        /\ content \in [Entries -> Messages \cup {NULL}]
    BY <1>1 DEF TypeOK
  <2>2. CASE Send
    <3>1. content[qe[Out]] \in Messages \cup {NULL}
      BY <1>1, <2>1, <2>2 DEF Send, OutRole
    <3>2. Append(wire, content[qe[Out]]) \in Seq(Messages \cup {NULL})
      BY <2>1, <3>1, AppendProperties
    <3> QED
      BY <2>1, <2>2, <3>1, <3>2 DEF Send
  <2>3. CASE ~Send
    BY <2>1, <2>3 DEF OutStep, PeerGoes, Awake, OutPop, OutPush
  <2> QED
    BY <2>2, <2>3
<1>9. TypeOK'
  BY <1>1, <1>2, <1>5, <1>7, <1>8 DEF TypeOK, Typed
<1> QED
  BY <1>5, <1>6, <1>9 DEF Structure, Local

\* Every step keeps what does not depend on the links, and every step but an
\* overrun the structure.
LEMMA NextStructure ==
  ASSUME SoleWorker, Local, [Next]_vars
  PROVE  /\ Local'
         /\ Structure /\ ~Doomed' => Structure'
<1>1. CASE UNCHANGED vars
  <2>1. UNCHANGED <<top, next, pc, list, qhead, qnext, qe, chain, sem, made, odata,
                    content, gone, put, wire, dropped>>
    BY <1>1 DEF vars, qvars
  <2>2. Typed' /\ (QueueInv => QueueInv' /\ Placed' = Placed)
    BY <2>1 DEF Local, Typed, CallOK, QueueInv, QueueTypeOK, ListsWellFormed,
                ExclusiveEntries, LocalsAgree, Holding, Popping, Pushing, Placed, Listed, Held
  <2>3. Roles'
    BY <2>1 DEF Local, Roles, OutRole, WorkerRole, Popping, Pushing, Making
  <2>4. TypeOK'
    BY <2>1, <2>2 DEF Local, TypeOK, Typed
  <2> QED
    BY <2>2, <2>3, <2>4 DEF Structure, Local
<1>2. ASSUME NEW w \in Workers, RunFuncOverrun(w)
      PROVE  Doomed'
  <2>1. pc'[w] = "doomed"
    BY <1>2, OutputAssumption DEF RunFuncOverrun, Goto, Local, TypeOK, QueueTypeOK
  <2> QED
    BY <2>1 DEF Doomed
<1> QED
  BY <1>1, <1>2, WorkerPopStructure, WorkerPushStructure, WorkerOwnStructure, OverrunLocal,
     OutStructure DEF Next, WorkerStep

\* A worker that has run into a full queue does not get away from the crash.
LEMMA DoomedStays ==
  ASSUME Local, Doomed, [Next]_vars
  PROVE  Doomed'
<1>1. PICK w \in Workers : pc[w] \in {"doomed", "fault"}
  BY DEF Doomed
<1>2. QueueTypeOK /\ w \in Threads /\ w # Out /\ Out \in Threads
  BY OutputAssumption DEF Local, TypeOK
<1>3. ASSUME NEW t \in Threads, pc'[t] = pc[t] \/ pc'[t] = "fault" \/ t # w,
             \A u \in Threads : u # t => pc'[u] = pc[u]
      PROVE  Doomed'
  BY <1>1, <1>2, <1>3 DEF Doomed
<1>4. ASSUME NEW x \in Workers, GetQueueEntry(x) \/ WorkerStep(x)
      PROVE  Doomed'
  <2>1. x \in Threads /\ \A u \in Threads : u # x => pc'[u] = pc[u]
    BY <1>2, <1>4, OutputAssumption
       DEF GetQueueEntry, WorkerStep, WorkerPop, WorkerPush, RunFunc, RunFuncOverrun, Crash,
           Signal, PopHead, PopNext, PopCas, PopDetach, PushHead, PushLink, PushCas, Goto,
           QueueTypeOK
  <2>2. x = w => pc'[x] = "fault"
    BY <1>1, <1>2, <1>4
       DEF GetQueueEntry, WorkerStep, WorkerPop, WorkerPush, RunFunc, RunFuncOverrun, Crash,
           Signal, PopHead, PopNext, PopCas, PopDetach, PushHead, PushLink, PushCas, Goto,
           QueueTypeOK
  <2> QED
    BY <1>3, <2>1, <2>2
<1>5. CASE OutStep
  <2>1. \A u \in Threads : u # Out => pc'[u] = pc[u]
    BY <1>2, <1>5 DEF OutStep, Awake, OutPop, Send, OutPush, PopHead, PopNext, PopCas,
                      PopDetach, PushHead, PushLink, PushCas, Goto, QueueTypeOK
  <2> QED
    BY <1>2, <1>3, <2>1
<1>6. CASE PeerGoes \/ UNCHANGED vars
  BY <1>6 DEF PeerGoes, vars, qvars, Doomed
<1> QED
  BY <1>4, <1>5, <1>6 DEF Next

\* A step of a worker that does not doom the process is one of those that live.
LEMMA WorkerAlive ==
  ASSUME Local, ~Doomed', NEW w \in Workers, GetQueueEntry(w) \/ WorkerStep(w)
  PROVE  WorkerLives(w)
<1>1. QueueTypeOK /\ w \in Threads
  BY OutputAssumption DEF Local, TypeOK
<1>2. RunFuncOverrun(w) \/ Crash(w) => pc'[w] \in {"doomed", "fault"}
  BY <1>1 DEF RunFuncOverrun, Crash, Goto, QueueTypeOK
<1> QED
  BY <1>2 DEF Doomed, WorkerStep, WorkerLives

-----------------------------------------------------------------------------
(***************************************************************************)
(* The semaphore of the output counts its full entries.                    *)
(***************************************************************************)

\* The sets counted are finite.
LEMMA Finite ==
  ASSUME Structure
  PROVE  /\ IsFiniteSet(OnList("full")) /\ Cardinality(OnList("full")) \in Nat
         /\ IsFiniteSet(Signallers) /\ Cardinality(Signallers) \in Nat
<1>1. IsFiniteSet(Queues)
  BY OutputAssumption, FS_Singleton
<1>2. QLen - 1 \in Int
  BY QueueAssumption
<1>3. IsFiniteSet(Entries)
  <2>1. IsFiniteSet(0 .. QLen - 1)
    BY <1>2, FS_Interval
  <2> QED
    BY <1>1, <2>1, FS_Product DEF Entries
<1>4. IsFiniteSet(OnList("full"))
  BY <1>3, OnListFinite DEF Structure, Local, TypeOK
<1>5. IsFiniteSet(Signallers)
  BY OutputAssumption, FS_Subset DEF Signallers
<1> QED
  BY <1>4, <1>5, FS_CardinalityType

\* A step that moves no token and no full entry.
LEMMA TokensFrame ==
  ASSUME Tokens,
         OnList("full")' = OnList("full"), sem' = sem,
         InGet' = InGet, Signallers' = Signallers,
         pc'[Out] # "fault"
  PROVE  Tokens'
BY DEF Tokens

\* What a step of a worker does to the other terms of the count.
LEMMA WorkerFrame ==
  ASSUME NEW w \in Workers,
         \A u \in Threads : u # w => pc'[u] = pc[u]
  PROVE  /\ InGet' = InGet /\ pc'[Out] = pc[Out]
         /\ pc[w] # "signal" /\ pc'[w] # "signal" => Signallers' = Signallers
         /\ pc[w] # "signal" /\ pc'[w] = "signal" =>
              w \notin Signallers /\ Signallers' = Signallers \cup {w}
         /\ pc[w] = "signal" /\ pc'[w] # "signal" =>
              w \in Signallers /\ Signallers' = Signallers \ {w}
<1>1. w # Out /\ Out \in Threads /\ Workers \subseteq Threads
  BY OutputAssumption
<1>2. InGet' = InGet /\ pc'[Out] = pc[Out]
  BY <1>1 DEF InGet, Popping
<1> QED
  BY <1>1, <1>2 DEF Signallers

\* output_putBackQueueEntry pushes first and signals second.
LEMMA WorkerTokens ==
  ASSUME Structure, Tokens, NEW w \in Workers, WorkerLives(w)
  PROVE  Tokens'
<1>1. /\ QueueTypeOK /\ QueueInv /\ WorkerRole(w) /\ w \in Threads /\ sem \in Nat
      /\ "signal" \in Labels \ Busy /\ "overrun" \in Labels \ Busy /\ "fill" \in Labels \ Busy
  BY OutputAssumption DEF Structure, Local, TypeOK, Roles, Labels, Busy
<1>2. /\ \A u \in Threads : u # w => pc'[u] = pc[u]
      /\ pc[w] # "signal" => sem' = sem
  BY <1>1 DEF WorkerLives, GetQueueEntry, WorkerPop, WorkerPush, RunFunc, Signal, PopHead, PopNext, PopCas, PopDetach, PushHead, PushLink, PushCas, Goto,
              QueueTypeOK
<1>3. /\ InGet \in Nat
      /\ Cardinality(OnList("full")) = sem + InGet + Cardinality(Signallers)
      /\ pc[Out] # "fault"
  BY DEF Tokens, InGet
<1>4. CASE /\ pc[w] # "signal" /\ pc'[w] # "signal"
           /\ OnList("full")' = OnList("full")
  BY <1>2, <1>3, <1>4, WorkerFrame, TokensFrame
<1>5. CASE GetQueueEntry(w) \/ RunFunc(w)
  <2>1. chain' = chain /\ pc[w] # "signal" /\ pc'[w] # "signal"
    BY <1>1, <1>5 DEF GetQueueEntry, RunFunc, Goto, QueueTypeOK
  <2> QED
    BY <1>4, <2>1, OnListFrame
<1>6. CASE WorkerPop(w)
  <2>1. pc[w] # "signal" /\ pc'[w] # "signal"
    BY <1>1, <1>6 DEF WorkerPop, PopHead, PopNext, PopCas, PopDetach, Goto, QueueTypeOK
  <2>2. CASE PopCas(w) /\ top[list[w]] = qhead[w]
    <3>1. list[w][2] = "empty"
      BY <1>1, <2>2 DEF PopCas, WorkerRole, Popping, Empty
    <3> QED
      BY <1>1, <1>4, <2>1, <2>2, <3>1, PopCasTakes
  <2>3. CASE ~(PopCas(w) /\ top[list[w]] = qhead[w])
    <3>1. chain' = chain
      BY <1>1, <1>6, <2>3, QuietStep DEF WorkerPop
    <3> QED
      BY <1>4, <2>1, <3>1, OnListFrame
  <2> QED
    BY <2>2, <2>3
<1>7. CASE WorkerPush(w)
  <2>1. pc[w] # "signal"
    BY <1>7 DEF WorkerPush, PushHead, PushLink, PushCas
  <2>2. CASE PushCas(w, "signal") /\ top[list[w]] = qhead[w]
    <3>1. list[w][2] = "full"
      BY <1>1, <2>2 DEF PushCas, WorkerRole, Pushing, Full
    <3>2. /\ pc'[w] = "signal"
          /\ qe[w] \notin OnList("full")
          /\ OnList("full")' = OnList("full") \cup {qe[w]}
      BY <1>1, <2>2, <3>1, PushCasGives
    <3>3. InGet' = InGet /\ pc'[Out] # "fault"
          /\ w \notin Signallers /\ Signallers' = Signallers \cup {w}
      BY <1>2, <1>3, <2>1, <3>2, WorkerFrame
    <3>4. /\ Cardinality(OnList("full")') = Cardinality(OnList("full")) + 1
          /\ Cardinality(Signallers') = Cardinality(Signallers) + 1
      BY <3>2, <3>3, Finite, FS_AddElement
    <3>5. sem' = sem
      BY <1>2, <2>1
    <3>6. Cardinality(OnList("full")') = sem' + InGet' + Cardinality(Signallers')
      BY <1>1, <1>3, <3>3, <3>4, <3>5, Finite
    <3> QED
      BY <3>3, <3>6 DEF Tokens
  <2>3. CASE ~(PushCas(w, "signal") /\ top[list[w]] = qhead[w])
    <3>1. chain' = chain
      BY <1>1, <1>7, <2>3, QuietStep DEF WorkerPush
    <3>2. pc'[w] # "signal"
      BY <1>1, <1>7, <2>3 DEF WorkerPush, PushHead, PushLink, PushCas, Goto, QueueTypeOK
    <3> QED
      BY <1>4, <2>1, <3>1, <3>2, OnListFrame
  <2> QED
    BY <2>2, <2>3
<1>8. CASE Signal(w)
  <2>1. pc[w] = "signal" /\ pc'[w] = "idle" /\ sem' = sem + 1 /\ chain' = chain
    BY <1>1, <1>8 DEF Signal, Goto, QueueTypeOK
  <2>2. InGet' = InGet /\ pc'[Out] # "fault"
        /\ w \in Signallers /\ Signallers' = Signallers \ {w}
    BY <1>2, <1>3, <2>1, WorkerFrame
  <2>3. Cardinality(Signallers') = Cardinality(Signallers) - 1
    BY <2>2, Finite, FS_RemoveElement
  <2>4. OnList("full")' = OnList("full")
    BY <2>1, OnListFrame
  <2>5. Cardinality(OnList("full")') = sem' + InGet' + Cardinality(Signallers')
    BY <1>1, <1>3, <2>1, <2>2, <2>3, <2>4, Finite
  <2> QED
    BY <2>2, <2>5 DEF Tokens
<1> QED
  BY <1>5, <1>6, <1>7, <1>8 DEF WorkerLives

\* A token finds an entry: while the output's thread pops, its full list is not
\* empty, because nobody else pops it.
LEMMA PopFindsEntry ==
  ASSUME Structure, Tokens, Popping(Out)
  PROVE  top[list[Out]] # NULL
<1>1. QueueTypeOK /\ ListsWellFormed /\ list[Out] = Full(OQ) /\ sem \in Nat
  BY DEF Structure, Local, TypeOK, QueueInv, Roles, OutRole
<1>2. Cardinality(OnList("full")) # 0
  BY <1>1, Finite DEF Tokens, InGet
<1>3. OnList("full") # {}
  BY <1>2, FS_EmptySet
<1>4. chain[Full(OQ)] # << >>
  BY <1>3, OutputAssumption, NothingListed DEF Full
<1>5. Full(OQ) \in Lists
  BY OutputAssumption DEF Full, Lists
<1>6. top[Full(OQ)] = Last(chain[Full(OQ)]) /\ chain[Full(OQ)] \in Seq(Entries)
  BY <1>1, <1>4, <1>5 DEF ListsWellFormed, Linked, QueueTypeOK
<1>7. Last(chain[Full(OQ)]) \in Entries
  BY <1>4, <1>6, EmptySeq, LenProperties DEF Last
<1> QED
  BY <1>1, <1>6, <1>7, QueueAssumption

\* The output's thread takes one token and one entry.
LEMMA OutTokens ==
  ASSUME Structure, Tokens, OutStep \/ PeerGoes
  PROVE  Tokens'
<1>1. /\ QueueTypeOK /\ QueueInv /\ OutRole /\ Out \in Threads /\ Out \notin Workers
      /\ sem \in Nat
      /\ "fault" \in Labels \ Busy /\ "run" \in Labels \ Busy /\ "wait" \in Labels \ Busy
  BY OutputAssumption DEF Structure, Local, TypeOK, Roles, Labels, Busy
<1>2. /\ \A u \in Threads : u # Out => pc'[u] = pc[u]
      /\ ~Awake => sem' = sem
  BY <1>1 DEF OutStep, PeerGoes, qvars, Awake, OutPop, Send, OutPush, PopHead, PopNext, PopCas,
              PopDetach, PushHead, PushLink, PushCas, Goto, QueueTypeOK
<1>3. Signallers' = Signallers
  BY <1>1, <1>2, OutputAssumption DEF Signallers
<1>4. /\ InGet = IF Popping(Out) THEN 1 ELSE 0
      /\ InGet' = IF Popping(Out)' THEN 1 ELSE 0
      /\ Cardinality(OnList("full")) = sem + InGet + Cardinality(Signallers)
      /\ pc[Out] # "fault"
  BY DEF Tokens, InGet
<1>5. CASE Awake
  <2>1. /\ pc[Out] = "wait" /\ pc'[Out] = "popHead"
        /\ sem > 0 /\ sem' = sem - 1 /\ chain' = chain
    BY <1>1, <1>5 DEF Awake, Goto, QueueTypeOK
  <2>2. InGet = 0 /\ InGet' = 1 /\ OnList("full")' = OnList("full")
    BY <1>4, <2>1, OnListFrame DEF Popping
  <2>3. Cardinality(OnList("full")') = sem' + InGet' + Cardinality(Signallers')
    BY <1>1, <1>3, <1>4, <2>1, <2>2, Finite
  <2> QED
    BY <2>1, <2>3 DEF Tokens
<1>6. CASE PopCas(Out) /\ top[list[Out]] = qhead[Out] /\ ~Awake
  <2>1. pc[Out] = "popCas" /\ list[Out][2] = "full"
    BY <1>1, <1>6 DEF PopCas, OutRole, Popping, Full
  <2>2. /\ pc'[Out] = "popDetach"
        /\ qhead[Out] \in OnList("full")
        /\ OnList("full")' = OnList("full") \ {qhead[Out]}
    BY <1>1, <1>6, <2>1, PopCasTakes
  <2>3. Cardinality(OnList("full")') = Cardinality(OnList("full")) - 1
    BY <2>2, Finite, FS_RemoveElement
  <2>4. InGet = 1 /\ InGet' = 0
    BY <1>4, <2>1, <2>2 DEF Popping
  <2>5. Cardinality(OnList("full")') = sem' + InGet' + Cardinality(Signallers')
    BY <1>1, <1>2, <1>3, <1>4, <1>6, <2>3, <2>4, Finite
  <2> QED
    BY <2>2, <2>5 DEF Tokens
<1>7. CASE /\ ~Awake
           /\ Popping(Out)' = Popping(Out) /\ pc'[Out] # "fault"
           /\ OnList("full")' = OnList("full")
  BY <1>2, <1>3, <1>4, <1>7, TokensFrame
<1>8. CASE OutPop /\ ~(PopCas(Out) /\ top[list[Out]] = qhead[Out])
  <2>1. chain' = chain
    BY <1>1, <1>8, QuietStep DEF OutPop
  <2>2. ~Awake
    BY <1>8 DEF OutPop, PopHead, PopNext, PopCas, PopDetach, Awake
  <2>3. Popping(Out)' = Popping(Out) /\ pc'[Out] # "fault"
    <3>1. Popping(Out) => top[list[Out]] # NULL
      BY PopFindsEntry
    <3> QED
      BY <1>1, <1>8, <3>1 DEF OutPop, PopHead, PopNext, PopCas, PopDetach, Goto,
                              QueueTypeOK, Popping
  <2> QED
    BY <1>7, <2>1, <2>2, <2>3, OnListFrame
<1>9. CASE Send \/ PeerGoes
  <2>1. /\ chain' = chain /\ (pc' = pc \/ (pc[Out] = "run" /\ pc'[Out] = "pushHead"))
    BY <1>1, <1>9 DEF Send, PeerGoes, qvars, Goto, QueueTypeOK
  <2>2. sem' = sem
    BY <1>9 DEF Send, PeerGoes
  <2>3. InGet' = InGet /\ pc'[Out] # "fault"
    BY <1>4, <2>1 DEF InGet, Popping
  <2> QED
    BY <1>3, <2>1, <2>2, <2>3, OnListFrame, TokensFrame
<1>10. CASE OutPush
  <2>1. /\ pc[Out] \in {"pushHead", "pushLink", "pushCas"} /\ list[Out][2] = "empty"
        /\ pc'[Out] \in {"pushHead", "pushLink", "pushCas", "wait"}
    BY <1>1, <1>10 DEF OutPush, PushHead, PushLink, PushCas, Goto, QueueTypeOK,
                       OutRole, Pushing, Empty
  <2>2. ~Awake /\ Popping(Out)' = Popping(Out)
    BY <2>1 DEF Awake, Popping
  <2>3. OnList("full")' = OnList("full")
    <3>1. CASE PushCas(Out, "wait") /\ top[list[Out]] = qhead[Out]
      BY <1>1, <2>1, <3>1, PushCasGives
    <3>2. CASE ~(PushCas(Out, "wait") /\ top[list[Out]] = qhead[Out])
      <4>1. chain' = chain
        BY <1>1, <1>10, <3>2, QuietStep DEF OutPush
      <4> QED
        BY <4>1, OnListFrame
    <3> QED
      BY <3>1, <3>2
  <2> QED
    BY <1>7, <2>1, <2>2, <2>3
<1>11. CASE OutPop /\ PopCas(Out) /\ top[list[Out]] = qhead[Out]
  BY <1>6, <1>11 DEF PopCas, Awake
<1> QED
  BY <1>5, <1>8, <1>9, <1>10, <1>11 DEF OutStep

-----------------------------------------------------------------------------
(***************************************************************************)
(* Messages.                                                               *)
(***************************************************************************)

\* A step that touches no message.
LEMMA DeliveryFrame ==
  ASSUME Delivery,
         UNCHANGED <<content, wire, dropped, made>>, gone => gone',
         Due' = Due,
         \A w \in Workers : /\ Pushing(w)' => Pushing(w) /\ qe'[w] = qe[w]
                            /\ Making(w)' => Making(w)
  PROVE  Delivery' /\ Pending' = Pending /\ Seen' = Seen
<1>1. IsInjective(wire)' /\ (dropped \cap Range(wire) = {})' /\ (dropped # {} => gone)'
  BY DEF Delivery
<1>2. \A e \in Due' : content'[e] \in Messages \ (Range(wire') \cup dropped')
  BY DEF Delivery
<1>3. \A e, f \in Due' : content'[e] = content'[f] => e = f
  BY DEF Delivery
<1>4. \A w \in Workers : Pushing(w)' => content'[qe'[w]] = <<w, made'[w]>>
  BY DEF Delivery
<1>5. Pending' = Pending
  BY DEF Pending
<1>6. Seen' = Seen
  BY <1>5 DEF Seen
<1>7. \A w \in Workers, n \in 1 .. MaxMsgs :
        <<w, n>> \in Seen' => n <= made'[w] /\ (Making(w)' => n # made'[w])
  BY <1>6 DEF Delivery
<1> QED
  BY <1>1, <1>2, <1>3, <1>4, <1>5, <1>6, <1>7 DEF Delivery

\* The entries of a worker's own are not due.
LEMMA OwnNotDue ==
  ASSUME Structure, NEW w \in Workers, Holding(w) # NULL
  PROVE  Holding(w) \notin Due
<1>1. ExclusiveEntries /\ w \in Threads /\ Out \in Threads /\ w # Out
  BY OutputAssumption DEF Structure, QueueInv
<1>2. Full(OQ) \in Lists
  BY OutputAssumption DEF Full, Lists
<1>3. OnList("full") = Range(chain[Full(OQ)])
  BY OutputAssumption DEF OnList, Full
<1> QED
  BY <1>1, <1>2, <1>3 DEF ExclusiveEntries, Due

\* What a step of a worker does to the entries due.
LEMMA WorkerDue ==
  ASSUME Structure, NEW w \in Workers,
         \A u \in Threads : u # w => pc'[u] = pc[u] /\ qe'[u] = qe[u] /\ qhead'[u] = qhead[u]
  PROVE  Due' = (Due \ OnList("full")) \cup OnList("full")'
<1>1. Out \in Threads /\ Out # w
  BY OutputAssumption
<1>2. pc'[Out] = pc[Out] /\ Holding(Out)' = Holding(Out)
  BY <1>1 DEF Holding
<1>3. pc[Out] \in {"popDetach", "run"} => Holding(Out) \notin OnList("full")
  <2>1. Full(OQ) \in Lists /\ OnList("full") = Range(chain[Full(OQ)])
    BY OutputAssumption DEF Full, Lists, OnList
  <2> QED
    BY <1>1, <2>1 DEF Structure, QueueInv, ExclusiveEntries
<1> QED
  BY <1>2, <1>3 DEF Due

\* The steps of a worker that lives: it puts one message.
LEMMA WorkerDelivery ==
  ASSUME SoleWorker, Structure, Delivery, NEW w \in Workers, WorkerLives(w)
  PROVE  /\ Delivery'
         /\ AsPut => AsPut'
         /\ Box!Next \/ UNCHANGED Box!vars
<1> DEFINE Goal == /\ Delivery'
                   /\ AsPut => AsPut'
                   /\ Box!Next \/ UNCHANGED Box!vars
<1>1. /\ TypeOK /\ QueueTypeOK /\ QueueInv /\ LocalsAgree /\ WorkerRole(w)
      /\ w \in Threads /\ w # Out /\ MaxMsgs \in Nat
      /\ "signal" \in Labels \ Busy /\ "overrun" \in Labels \ Busy /\ "fill" \in Labels \ Busy
  BY OutputAssumption DEF Structure, Local, TypeOK, QueueInv, Roles, Labels, Busy
<1>2. /\ \A u \in Threads : u # w => pc'[u] = pc[u] /\ qe'[u] = qe[u] /\ qhead'[u] = qhead[u]
      /\ UNCHANGED <<wire, dropped, gone>>
  BY <1>1 DEF WorkerLives, GetQueueEntry, WorkerPop, WorkerPush, RunFunc, Signal, PopHead, PopNext, PopCas, PopDetach, PushHead, PushLink, PushCas, Goto,
              QueueTypeOK
<1>3. \A x \in Workers : x # w => /\ Pushing(x)' = Pushing(x) /\ Making(x)' = Making(x)
                                  /\ qe'[x] = qe[x]
  BY <1>2, OutputAssumption DEF Pushing, Making
<1>4. OnList("full")' = OnList("full") => Due' = Due
  BY <1>2, WorkerDue DEF Due
<1>5. ASSUME Delivery', Pending' = Pending, Seen' = Seen, put' = put
      PROVE  Goal
  BY <1>2, <1>5 DEF AsPut, Box!vars
<1>6. CASE GetQueueEntry(w)
  <2>1. /\ pc[w] = "idle" /\ pc'[w] = "popHead" /\ made[w] \in Nat
        /\ made'[w] = made[w] + 1 /\ (\A x \in Workers : x # w => made'[x] = made[x])
        /\ UNCHANGED <<chain, content, put, qe>>
    BY <1>1, <1>6 DEF GetQueueEntry, Goto, QueueTypeOK, TypeOK
  <2>2. Due' = Due
    BY <1>4, <2>1, OnListFrame
  <2>3. \A x \in Workers : Pushing(x)' => x # w /\ Pushing(x)
    BY <1>3, <2>1 DEF Pushing
  <2>4. Pending' = Pending /\ Seen' = Seen
    BY <1>2, <2>1, <2>2 DEF Pending, Seen
  <2>5. ASSUME NEW x \in Workers, NEW n \in 1 .. MaxMsgs, <<x, n>> \in Seen
        PROVE  n <= made'[x] /\ (Making(x)' => n # made'[x])
    <3>1. n <= made[x] /\ (Making(x) => n # made[x])
      BY <2>5 DEF Delivery
    <3>2. CASE x = w
      BY <2>1, <3>1, <3>2
    <3>3. CASE x # w
      BY <1>3, <2>1, <3>1, <3>3
    <3> QED
      BY <3>2, <3>3
  <2>6. \A x \in Workers : Pushing(x)' => content'[qe'[x]] = <<x, made'[x]>>
    BY <2>1, <2>3 DEF Delivery
  <2>7. Delivery'
    BY <1>2, <2>1, <2>2, <2>5, <2>6, <2>4 DEF Delivery
  <2> QED
    BY <1>5, <2>1, <2>4, <2>7
<1>7. CASE WorkerPop(w) \/ Signal(w)
  <2>1. /\ UNCHANGED <<content, put, made>> /\ ~Pushing(w)'
        /\ Making(w)' => Making(w)
    BY <1>1, <1>7 DEF WorkerPop, Signal, PopHead, PopNext, PopCas, PopDetach, Goto,
                      QueueTypeOK, Pushing, Making
  <2>2. OnList("full")' = OnList("full")
    <3>1. CASE PopCas(w) /\ top[list[w]] = qhead[w]
      <4>1. list[w][2] = "empty"
        BY <1>1, <3>1 DEF PopCas, WorkerRole, Popping, Empty
      <4> QED
        BY <1>1, <3>1, <4>1, PopCasTakes
    <3>2. CASE ~(PopCas(w) /\ top[list[w]] = qhead[w])
      <4>1. chain' = chain
        BY <1>1, <1>7, <3>2, QuietStep DEF WorkerPop, Signal
      <4> QED
        BY <4>1, OnListFrame
    <3> QED
      BY <3>1, <3>2
  <2>3. \A x \in Workers : /\ Pushing(x)' => Pushing(x) /\ qe'[x] = qe[x]
                           /\ Making(x)' => Making(x)
    BY <1>3, <2>1
  <2>4. Delivery' /\ Pending' = Pending /\ Seen' = Seen
    BY <1>2, <1>4, <2>1, <2>2, <2>3, DeliveryFrame
  <2> QED
    BY <1>5, <2>1, <2>4
<1>8. CASE RunFunc(w)
  <2> DEFINE e == qe[w]
  <2>1. /\ pc[w] = "fill" /\ pc'[w] = "pushHead" /\ e \in Entries /\ Holding(w) = e
        /\ content' = [content EXCEPT ![e] = <<w, made[w]>>]
        /\ UNCHANGED <<chain, put, made, qe>>
    BY <1>1, <1>8 DEF RunFunc, Goto, QueueTypeOK, WorkerRole, Holding
  <2>2. Due' = Due /\ e \notin Due
    BY <1>4, <2>1, OnListFrame, OwnNotDue, QueueAssumption
  <2>3. /\ content'[e] = <<w, made[w]>>
        /\ \A f : f # e => content'[f] = content[f]
    BY <1>1, <2>1 DEF TypeOK
  <2>4. \A f \in Due : content'[f] = content[f]
    BY <2>2, <2>3
  <2>5. ASSUME NEW x \in Workers, Pushing(x)'
        PROVE  content'[qe'[x]] = <<x, made'[x]>>
    <3>1. CASE x = w
      BY <2>1, <2>3, <3>1
    <3>2. CASE x # w
      <4>1. Pushing(x) /\ qe[x] \in Entries /\ Holding(x) = qe[x] /\ x \in Threads
        BY <1>1, <1>3, <2>5, <3>2, OutputAssumption DEF LocalsAgree, Pushing, Holding
      <4>2. qe[x] # e
        BY <1>1, <2>1, <3>2, <4>1, QueueAssumption DEF QueueInv, ExclusiveEntries
      <4> QED
        BY <2>1, <2>3, <4>1, <4>2 DEF Delivery
    <3> QED
      BY <3>1, <3>2
  <2>6. \A x \in Workers : Making(x)' => Making(x)
    BY <1>3, <2>1 DEF Making
  <2>7. IsInjective(wire)' /\ (dropped \cap Range(wire) = {})' /\ (dropped # {} => gone)'
    BY <1>2 DEF Delivery
  <2>8. \A f \in Due' : content'[f] \in Messages \ (Range(wire') \cup dropped')
    BY <1>2, <2>1, <2>2, <2>4 DEF Delivery
  <2>9. \A f, g \in Due' : content'[f] = content'[g] => f = g
    BY <2>2, <2>4 DEF Delivery
  <2>10. Pending' = Pending /\ Seen' = Seen
    <3>1. Pending' = Pending
      BY <2>2, <2>4 DEF Pending
    <3> QED
      BY <1>2, <3>1 DEF Seen
  <2>11. \A x \in Workers, n \in 1 .. MaxMsgs :
           <<x, n>> \in Seen' => n <= made'[x] /\ (Making(x)' => n # made'[x])
    BY <2>1, <2>6, <2>10 DEF Delivery
  <2>12. Delivery'
    BY <2>5, <2>7, <2>8, <2>9, <2>11 DEF Delivery
  <2> QED
    BY <1>5, <2>1, <2>10, <2>12
<1>9. CASE WorkerPush(w) /\ ~(PushCas(w, "signal") /\ top[list[w]] = qhead[w])
  <2>1. /\ UNCHANGED <<content, put, made, qe>> /\ Pushing(w) /\ Making(w)
    BY <1>1, <1>9 DEF WorkerPush, PushHead, PushLink, PushCas, Goto,
                      QueueTypeOK, Pushing, Making
  <2>2. chain' = chain
    BY <1>1, <1>9, QuietStep DEF WorkerPush
  <2>3. \A x \in Workers : /\ Pushing(x)' => Pushing(x) /\ qe'[x] = qe[x]
                           /\ Making(x)' => Making(x)
    BY <1>3, <2>1
  <2>4. Delivery' /\ Pending' = Pending /\ Seen' = Seen
    BY <1>2, <1>4, <2>1, <2>2, <2>3, OnListFrame, DeliveryFrame
  <2> QED
    BY <1>5, <2>1, <2>4
<1>10. CASE WorkerPush(w) /\ PushCas(w, "signal") /\ top[list[w]] = qhead[w]
  <2> DEFINE e == qe[w]
             m == <<w, made[w]>>
  <2>1. /\ pc[w] = "pushCas" /\ list[w][2] = "full" /\ Pushing(w) /\ Making(w)
        /\ UNCHANGED <<content, made>>
    BY <1>1, <1>10 DEF WorkerPush, PushCas, WorkerRole, Pushing, Making, Full
  <2>2. /\ e \in Entries /\ Holding(w) = e /\ pc'[w] = "signal"
        /\ OnList("full")' = OnList("full") \cup {e}
    BY <1>1, <1>10, <2>1, PushCasGives
  <2>3. put' = put \cup {m}
    BY <1>10, <2>1, <2>2 DEF WorkerPush, PushHead, PushLink
  <2>4. Due' = Due \cup {e}
    BY <1>2, <2>2, WorkerDue DEF Due
  <2>5. content[e] = m /\ m \in Messages /\ m \notin Seen
    <3>1. made[w] \in 1 .. MaxMsgs
      BY <1>1, <2>1 DEF WorkerRole, TypeOK
    <3> QED
      BY <2>1, <3>1 DEF Delivery, Messages
  <2>6. m \notin Range(wire) \cup dropped /\ m \notin Pending
    BY <2>5 DEF Seen
  <2>7. \A f \in Due : content[f] \in Messages \ (Range(wire) \cup dropped) /\ content[f] # m
    BY <2>6 DEF Delivery, Pending
  <2>8. \A f \in Due' : content'[f] \in Messages \ (Range(wire') \cup dropped')
    BY <1>2, <2>1, <2>4, <2>5, <2>7, <2>6
  <2>9. Pending' = Pending \cup {m}
    BY <2>1, <2>4, <2>5 DEF Pending
  <2>10. Seen' = Seen \cup {m}
    BY <1>2, <2>9 DEF Seen
  <2>11. \A f, g \in Due' : content'[f] = content'[g] => f = g
    BY <2>1, <2>4, <2>5, <2>7 DEF Delivery
  <2>12. \A x \in Workers : Pushing(x)' => content'[qe'[x]] = <<x, made'[x]>>
    <3>1. ~Pushing(w)'
      BY <2>2 DEF Pushing
    <3> QED
      BY <1>3, <2>1, <3>1 DEF Delivery
  <2>13. ASSUME NEW x \in Workers, NEW n \in 1 .. MaxMsgs, <<x, n>> \in Seen'
         PROVE  n <= made'[x] /\ (Making(x)' => n # made'[x])
    <3>1. made[w] \in Nat
      BY <1>1 DEF TypeOK
    <3>2. CASE x = w /\ n = made[w]
      <4>1. ~Making(w)'
        BY <2>2 DEF Making
      <4> QED
        BY <2>1, <3>1, <3>2, <4>1
    <3>3. CASE ~(x = w /\ n = made[w])
      <4>1. <<x, n>> \in Seen
        BY <2>13, <2>10, <3>3
      <4>2. Making(x)' => Making(x)
        BY <1>3, <2>1
      <4> QED
        BY <2>1, <4>1, <4>2 DEF Delivery
    <3> QED
      BY <3>2, <3>3
  <2>14. IsInjective(wire)' /\ (dropped \cap Range(wire) = {})' /\ (dropped # {} => gone)'
    BY <1>2 DEF Delivery
  <2>15. Delivery'
    BY <2>8, <2>11, <2>12, <2>13, <2>14 DEF Delivery
  <2>16. AsPut => AsPut'
    BY <2>3, <2>10 DEF AsPut
  <2>17. Box!Fresh(m)
    <3>1. \A i \in DOMAIN wire : wire[i] # m
      BY <2>6 DEF Range
    <3> QED
      BY <2>6, <3>1 DEF Box!Fresh
  <2>18. Box!Put(m)
    BY <1>2, <2>9, <2>17 DEF Box!Put
  <2> QED
    BY <2>5, <2>15, <2>16, <2>18 DEF Box!Next
<1> QED
  BY <1>6, <1>7, <1>8, <1>9, <1>10 DEF WorkerLives

\* The output's thread sends, or drops, the message of the entry it holds; its
\* other steps, and the peer's, touch none.
LEMMA OutDelivery ==
  ASSUME Structure, Delivery, OutStep \/ PeerGoes
  PROVE  /\ Delivery'
         /\ AsPut => AsPut'
         /\ Box!Next \/ UNCHANGED Box!vars
<1>1. /\ TypeOK /\ QueueTypeOK /\ QueueInv /\ OutRole /\ ExclusiveEntries
      /\ Out \in Threads /\ Out \notin Workers /\ Workers \subseteq Threads
      /\ "fault" \in Labels \ Busy /\ "run" \in Labels \ Busy /\ "wait" \in Labels \ Busy
  BY OutputAssumption DEF Structure, Local, TypeOK, QueueInv, Roles, Labels, Busy
<1>2. /\ \A u \in Threads : u # Out => pc'[u] = pc[u] /\ qe'[u] = qe[u]
      /\ UNCHANGED <<content, put, made>>
  BY <1>1 DEF OutStep, PeerGoes, qvars, Awake, OutPop, Send, OutPush, PopHead, PopNext, PopCas,
              PopDetach, PushHead, PushLink, PushCas, Goto, QueueTypeOK
<1>3. \A x \in Workers : Pushing(x)' = Pushing(x) /\ Making(x)' = Making(x) /\ qe'[x] = qe[x]
  BY <1>1, <1>2 DEF Pushing, Making
<1>4. CASE Send
  <2> DEFINE e == qe[Out]
             m == content[e]
  <2>1. /\ pc[Out] = "run" /\ pc'[Out] = "pushHead" /\ chain' = chain
        /\ Holding(Out) = e /\ e \in Entries /\ gone' = gone
        /\ IF gone THEN dropped' = dropped \cup {m} /\ wire' = wire
                   ELSE wire' = Append(wire, m) /\ dropped' = dropped
    BY <1>1, <1>4 DEF Send, Goto, QueueTypeOK, OutRole, Holding
  <2>2. e \notin OnList("full")
    <3>1. Full(OQ) \in Lists /\ OnList("full") = Range(chain[Full(OQ)])
      BY OutputAssumption DEF Full, Lists, OnList
    <3> QED
      BY <1>1, <2>1, <3>1 DEF ExclusiveEntries
  <2>3. Due = OnList("full") \cup {e} /\ Due' = OnList("full")
    BY <2>1, OnListFrame DEF Due
  <2>4. m \in Messages /\ m \in Pending /\ m \notin Range(wire) /\ m \notin dropped
    BY <2>3 DEF Delivery, Pending
  <2>5. \A f \in Due' : content[f] # m /\ content[f] \in Messages \ (Range(wire) \cup dropped)
    BY <2>2, <2>3 DEF Delivery
  <2>6. /\ IsInjective(wire') /\ dropped' \cap Range(wire') = {}
        /\ dropped' # {} => gone'
        /\ Range(wire') \cup dropped' = Range(wire) \cup dropped \cup {m}
    <3>1. wire \in Seq(Messages \cup {NULL}) /\ m \in Messages \cup {NULL} /\ gone \in BOOLEAN
      BY <1>1, <2>1 DEF TypeOK
    <3>2. IsInjective(wire) /\ dropped \cap Range(wire) = {} /\ (dropped # {} => gone)
      BY DEF Delivery
    <3>3. CASE gone
      BY <2>1, <2>4, <3>2, <3>3
    <3>4. CASE ~gone
      <4>1. /\ IsInjective(Append(wire, m))
            /\ Range(Append(wire, m)) = Range(wire) \cup {m}
        BY <2>4, <3>1, <3>2, AppendFacts
      <4> QED
        BY <2>1, <2>4, <3>2, <3>4, <4>1
    <3> QED
      BY <3>3, <3>4
  <2>7. Pending' = Pending \ {m}
    BY <1>2, <2>3, <2>5 DEF Pending
  <2>8. Seen' = Seen
    BY <2>4, <2>6, <2>7 DEF Seen
  <2>9. \A f \in Due' : content'[f] \in Messages \ (Range(wire') \cup dropped')
    BY <1>2, <2>5, <2>6
  <2>10. \A f, g \in Due' : content'[f] = content'[g] => f = g
    BY <1>2, <2>3 DEF Delivery
  <2>11. \A x \in Workers : Pushing(x)' => content'[qe'[x]] = <<x, made'[x]>>
    BY <1>2, <1>3 DEF Delivery
  <2>12. \A x \in Workers, n \in 1 .. MaxMsgs :
           <<x, n>> \in Seen' => n <= made'[x] /\ (Making(x)' => n # made'[x])
    BY <1>2, <1>3, <2>8 DEF Delivery
  <2>13. Delivery'
    BY <2>6, <2>9, <2>10, <2>11, <2>12 DEF Delivery
  <2>14. AsPut => AsPut'
    BY <1>2, <2>8 DEF AsPut
  <2>15. Box!Send(m) \/ Box!Drop(m)
    <3>1. CASE gone
      <4>1. dropped' = dropped \cup {m} /\ wire' = wire
        BY <2>1, <3>1
      <4> QED
        BY <2>1, <2>4, <2>7, <3>1, <4>1 DEF Box!Drop
    <3>2. CASE ~gone
      <4>1. wire' = Append(wire, m) /\ dropped' = dropped
        BY <2>1, <3>2
      <4> QED
        BY <2>1, <2>4, <2>7, <3>2, <4>1 DEF Box!Send
    <3> QED
      BY <3>1, <3>2
  <2> QED
    BY <2>4, <2>13, <2>14, <2>15 DEF Box!Next
<1>5. CASE ~Send
  <2>1. /\ UNCHANGED <<wire, dropped>>
        /\ gone' = gone \/ (~gone /\ gone' = TRUE)
    BY <1>5 DEF OutStep, PeerGoes, Awake, OutPop, OutPush
  <2>2. Due' = Due
    <3>1. CASE PopCas(Out) /\ top[list[Out]] = qhead[Out]
      <4>1. pc[Out] = "popCas" /\ list[Out][2] = "full"
        BY <1>1, <3>1 DEF PopCas, OutRole, Popping, Full
      <4>2. /\ pc'[Out] = "popDetach" /\ Holding(Out)' = qhead[Out]
            /\ qhead[Out] \in OnList("full")
            /\ OnList("full")' = OnList("full") \ {qhead[Out]}
        BY <1>1, <3>1, <4>1, PopCasTakes
      <4> QED
        BY <4>1, <4>2 DEF Due
    <3>2. CASE OutPop /\ ~(PopCas(Out) /\ top[list[Out]] = qhead[Out])
      <4>1. chain' = chain /\ Holding(Out)' = Holding(Out)
        BY <1>1, <3>2, QuietStep DEF OutPop
      <4>2. pc'[Out] \in {"popDetach", "run"} <=> pc[Out] \in {"popDetach", "run"}
        BY <1>1, <3>2 DEF OutPop, PopHead, PopNext, PopCas, PopDetach, Goto, QueueTypeOK
      <4> QED
        BY <4>1, <4>2, OnListFrame DEF Due
    <3>3. CASE OutPush
      <4>1. /\ pc[Out] \in {"pushHead", "pushLink", "pushCas"} /\ list[Out][2] = "empty"
            /\ pc'[Out] \in {"pushHead", "pushLink", "pushCas", "wait"}
        BY <1>1, <3>3 DEF OutPush, PushHead, PushLink, PushCas, Goto, QueueTypeOK,
                          OutRole, Pushing, Empty
      <4>2. OnList("full")' = OnList("full")
        <5>1. CASE PushCas(Out, "wait") /\ top[list[Out]] = qhead[Out]
          BY <1>1, <4>1, <5>1, PushCasGives
        <5>2. CASE ~(PushCas(Out, "wait") /\ top[list[Out]] = qhead[Out])
          <6>1. chain' = chain
            BY <1>1, <3>3, <5>2, QuietStep DEF OutPush
          <6> QED
            BY <6>1, OnListFrame
        <5> QED
          BY <5>1, <5>2
      <4> QED
        BY <4>1, <4>2 DEF Due
    <3>4. CASE Awake \/ PeerGoes
      <4>1. /\ chain' = chain
            /\ (pc' = pc /\ qe' = qe /\ qhead' = qhead)
                 \/ (pc[Out] = "wait" /\ pc'[Out] = "popHead")
        BY <1>1, <3>4 DEF Awake, PeerGoes, qvars, Goto, QueueTypeOK
      <4> QED
        BY <4>1, OnListFrame DEF Due, Holding
    <3> QED
      BY <1>5, <3>1, <3>2, <3>3, <3>4 DEF OutStep
  <2>3. Delivery' /\ Pending' = Pending /\ Seen' = Seen
    BY <1>2, <1>3, <2>1, <2>2, DeliveryFrame
  <2>4. AsPut => AsPut'
    BY <1>2, <2>3 DEF AsPut
  <2>5. Box!PeerGoes \/ UNCHANGED Box!vars
    BY <2>1, <2>3 DEF Box!PeerGoes, Box!vars
  <2> QED
    BY <2>3, <2>4, <2>5 DEF Box!Next
<1> QED
  BY <1>4, <1>5

-----------------------------------------------------------------------------
(***************************************************************************)
(* The theorems.                                                           *)
(***************************************************************************)

\* A step that dooms nobody keeps tokens and messages, and is one of the outbox.
LEMMA LivingStep ==
  ASSUME SoleWorker, Structure, Tokens, Delivery, AsPut, [Next]_vars, ~Doomed'
  PROVE  /\ Tokens' /\ Delivery' /\ AsPut'
         /\ Box!Next \/ UNCHANGED Box!vars
<1>1. CASE UNCHANGED vars
  <2>1. UNCHANGED <<pc, qhead, qe, chain, sem, made, content, gone, put, wire, dropped>>
    BY <1>1 DEF vars, qvars
  <2>2. Due' = Due /\ OnList("full")' = OnList("full")
    BY <2>1, OnListFrame DEF Due, Holding
  <2>3. Tokens'
    BY <2>1, <2>2 DEF Tokens, InGet, Popping, Signallers
  <2>4. Delivery' /\ Pending' = Pending /\ Seen' = Seen
    BY <2>1, <2>2, DeliveryFrame DEF Pushing, Making
  <2> QED
    BY <2>1, <2>3, <2>4 DEF AsPut, Box!vars
<1>2. CASE \E w \in Workers : GetQueueEntry(w) \/ WorkerStep(w)
  <2>1. PICK w \in Workers : GetQueueEntry(w) \/ WorkerStep(w)
    BY <1>2
  <2>2. WorkerLives(w)
    BY <2>1, WorkerAlive DEF Structure
  <2> QED
    BY <2>2, WorkerTokens, WorkerDelivery
<1>3. CASE OutStep \/ PeerGoes
  BY <1>3, OutTokens, OutDelivery
<1> QED
  BY <1>1, <1>2, <1>3 DEF Next

\* The invariant of an output with at most one worker.
THEOREM Invariance ==
  ASSUME SoleWorker
  PROVE  Spec => []Inv
<1>1. Init => Inv
  <2> SUFFICES ASSUME Init
               PROVE  Inv
    OBVIOUS
  <2>1. Structure
    BY InitStructure
  <2>2. /\ pc = [t \in Threads |-> IF t = Out THEN "wait" ELSE "idle"]
        /\ \A q \in Queues : chain[<<q, "full">>] = << >>
        /\ sem = 0 /\ put = {} /\ wire = << >> /\ dropped = {}
    BY DEF Init, QueueInit, Lists
  <2>3. OnList("full") = {}
    BY <2>2, NothingListed
  <2>4. Out \in Threads /\ Workers \subseteq Threads /\ Out \notin Workers
    BY OutputAssumption
  <2>5. Signallers = {} /\ InGet = 0 /\ pc[Out] = "wait" /\ Due = {}
    BY <2>2, <2>3, <2>4 DEF Signallers, InGet, Popping, Due
  <2>6. Tokens
    <3>1. Cardinality(OnList("full")) = 0 /\ Cardinality(Signallers) = 0
      BY <2>3, <2>5, FS_EmptySet
    <3>2. Cardinality(OnList("full")) = sem + InGet + Cardinality(Signallers)
      BY <2>2, <2>5, <3>1
    <3> QED
      BY <2>5, <3>2 DEF Tokens
  <2>7. Delivery /\ AsPut
    <3>1. Range(wire) = {} /\ IsInjective(wire)
      BY <2>2 DEF Range, IsInjective
    <3>2. \A w \in Workers : ~Pushing(w)
      BY <2>2, <2>4 DEF Pushing
    <3>3. Seen = {}
      BY <2>2, <2>5, <3>1 DEF Seen, Pending
    <3> QED
      BY <2>2, <2>5, <3>1, <3>2, <3>3 DEF Delivery, AsPut
  <2> QED
    BY <2>1, <2>6, <2>7 DEF Inv, Structure
<1>2. Inv /\ [Next]_vars => Inv'
  <2> SUFFICES ASSUME Inv, [Next]_vars
               PROVE  Inv'
    OBVIOUS
  <2>1. Local'
    BY NextStructure DEF Inv
  <2>2. CASE Doomed'
    BY <2>1, <2>2 DEF Inv
  <2>3. CASE ~Doomed'
    <3>1. ~Doomed /\ Structure /\ Tokens /\ Delivery /\ AsPut
      BY <2>3, DoomedStays DEF Inv
    <3>2. Structure'
      BY <2>3, <3>1, NextStructure DEF Inv
    <3>3. Tokens' /\ Delivery' /\ AsPut'
      BY <2>3, <3>1, LivingStep
    <3> QED
      BY <2>1, <3>2, <3>3 DEF Inv
  <2> QED
    BY <2>2, <2>3
<1> QED
  BY <1>1, <1>2, PTL DEF Spec

\* Type correctness.
THEOREM TypeCorrect ==
  ASSUME SoleWorker
  PROVE  Spec => []TypeOK
<1>1. Inv => TypeOK
  BY DEF Inv, Local
<1> QED
  BY <1>1, Invariance, PTL

\* The lists of an output with one worker stay intact and lose no entry, until an
\* overrun may have written over a link.
THEOREM QueueStaysIntact ==
  ASSUME SoleWorker
  PROVE  Spec => []QueueIntact
<1>1. Inv => QueueIntact
  BY DEF Inv, Structure, QueueInv, QueueIntact
<1> QED
  BY <1>1, Invariance, PTL

\* "assert(qe)" in output_thread_loop does not fail with one worker, unless an
\* overrun came before.
THEOREM AssertionHolds ==
  ASSUME SoleWorker
  PROVE  Spec => []TokenFindsEntry
<1>1. Inv => TokenFindsEntry
  BY DEF Inv, Tokens, TokenFindsEntry
<1> QED
  BY <1>1, Invariance, PTL

\* Every message is sent at most once and as it was put, and none is dropped
\* while the peer is there, unless the process is about to crash.
THEOREM MessagesDeliveredOnce ==
  ASSUME SoleWorker
  PROVE  Spec => []WireFaithful
<1>1. Inv => WireFaithful
  BY DEF Inv, Delivery, AsPut, Seen, WireFaithful
<1> QED
  BY <1>1, Invariance, PTL

\* A worker that finds no empty entry has all of them in flight: a lost
\* compare-and-swap race is never taken for a full queue.
THEOREM BackPressure ==
  ASSUME SoleWorker
  PROVE  Spec => BackPressureIsReal
<1> DEFINE Step == \A w \in Workers :
                     pc[w] # "overrun" /\ pc'[w] = "overrun" =>
                       Entries \subseteq OnList("full") \cup Held
<1>1. Inv /\ [Next]_vars => [Step]_vars
  <2> SUFFICES ASSUME Inv, Next, NEW w \in Workers, pc[w] # "overrun", pc'[w] = "overrun"
               PROVE  Entries \subseteq OnList("full") \cup Held
    OBVIOUS
  <2>1. /\ QueueTypeOK /\ WorkerRole(w)
        /\ w \in Threads /\ w # Out /\ Workers \subseteq Threads
    BY OutputAssumption DEF Inv, Local, TypeOK, Roles
  <2>2. PopHead(w, "overrun")
    <3>1. \A x \in Workers : x # w /\ (GetQueueEntry(x) \/ WorkerStep(x)) => pc'[w] = pc[w]
      BY <2>1 DEF GetQueueEntry, WorkerStep, WorkerPop, WorkerPush, RunFunc, RunFuncOverrun,
                  Crash, Signal, PopHead, PopNext, PopCas, PopDetach, PushHead, PushLink,
                  PushCas, Goto, QueueTypeOK
    <3>2. OutStep \/ PeerGoes => pc'[w] = pc[w]
      BY <2>1 DEF OutStep, PeerGoes, qvars, Awake, OutPop, Send, OutPush, PopHead, PopNext,
                  PopCas, PopDetach, PushHead, PushLink, PushCas, Goto, QueueTypeOK
    <3>3. GetQueueEntry(w) \/ WorkerStep(w)
      BY <3>1, <3>2 DEF Next
    <3> QED
      BY <2>1, <3>3 DEF GetQueueEntry, WorkerStep, WorkerPop, WorkerPush, RunFunc,
                        RunFuncOverrun, Crash, Signal, PopHead, PopNext, PopCas, PopDetach,
                        PushHead, PushLink, PushCas, Goto, QueueTypeOK
  <2>3. /\ list[w] = Empty(OQ) /\ top[Empty(OQ)] = NULL
        /\ ListsWellFormed /\ Placed = Entries
    <3>1. pc[w] = "popHead" /\ list[w] = Empty(OQ) /\ top[Empty(OQ)] = NULL
      BY <2>1, <2>2 DEF PopHead, Goto, QueueTypeOK, WorkerRole, Popping
    <3>2. ~Doomed
      BY <3>1 DEF SoleWorker, Doomed
    <3> QED
      BY <3>1, <3>2 DEF Inv, Structure, QueueInv
  <2>4. Empty(OQ) \in Lists
    BY OutputAssumption DEF Empty, Lists
  <2>5. chain[Empty(OQ)] = << >>
    <3>1. Linked(chain[Empty(OQ)], NULL, next) /\ chain[Empty(OQ)] \in Seq(Entries)
      BY <2>1, <2>3, <2>4 DEF ListsWellFormed, QueueTypeOK
    <3>2. chain[Empty(OQ)] # << >> => Last(chain[Empty(OQ)]) \in Entries
      BY <3>1, EmptySeq, LenProperties DEF Last
    <3> QED
      BY <3>1, <3>2, QueueAssumption DEF Linked
  <2>6. Range(chain[Empty(OQ)]) = {}
    BY <2>5 DEF Range
  <2>7. \A l \in Lists : l = Empty(OQ) \/ l = Full(OQ)
    BY OutputAssumption DEF Lists, Empty, Full
  <2>8. Listed \subseteq OnList("full")
    BY <2>6, <2>7, OutputAssumption DEF Listed, OnList, Full
  <2> QED
    BY <2>3, <2>8 DEF Placed
<1> QED
  BY <1>1, Invariance, PTL DEF Spec, BackPressureIsReal

-----------------------------------------------------------------------------
(***************************************************************************)
(* The queue implements the abstract pool of entries.                      *)
(***************************************************************************)

\* A worker that lives gets an empty entry and puts back a full one; every other
\* step of its own is a stutter.
LEMMA WorkerRefines ==
  ASSUME Structure, OwnerIs, OwnerIs', NEW w \in Workers, WorkerLives(w)
  PROVE  Pool!Next \/ Owner' = Owner
<1>1. /\ QueueInv /\ QueueTypeOK /\ WorkerRole(w) /\ w \in Threads
      /\ "overrun" \in Labels \ Busy /\ "fill" \in Labels \ Busy /\ "signal" \in Labels \ Busy
  BY OutputAssumption DEF Structure, Local, TypeOK, Roles, Labels, Busy
<1>2. CASE GetQueueEntry(w) \/ RunFunc(w) \/ Signal(w)
  <2>1. chain' = chain /\ \A u \in Threads : Holding(u)' = Holding(u)
    BY <1>1, <1>2 DEF GetQueueEntry, RunFunc, Signal, Goto, Holding,
                      QueueTypeOK
  <2> QED
    BY <2>1, OwnersStay
<1>3. CASE PopCas(w) /\ top[list[w]] = qhead[w]
  <2>1. list[w][2] = "empty"
    BY <1>1, <1>3 DEF PopCas, WorkerRole, Popping, Empty
  <2>2. Pool!GetEmpty(w, qhead[w]) /\ qhead[w] \in Entries
    BY <1>1, <1>3, <2>1, PopMoves DEF Pool!GetEmpty, Pool!Move, Pool!Free
  <2> QED
    BY <2>2 DEF Pool!Next
<1>4. CASE PushCas(w, "signal") /\ top[list[w]] = qhead[w]
  <2>1. list[w][2] = "full"
    BY <1>1, <1>4 DEF PushCas, WorkerRole, Pushing, Full
  <2>2. Pool!PutFull(w, qe[w]) /\ qe[w] \in Entries
    BY <1>1, <1>4, <2>1, PushMoves DEF Pool!PutFull, Pool!Move
  <2> QED
    BY <2>2 DEF Pool!Next
<1>5. CASE \/ PopHead(w, "overrun")
           \/ PopNext(w)
           \/ PopCas(w) /\ top[list[w]] # qhead[w]
           \/ PopDetach(w, "fill")
           \/ PushHead(w)
           \/ PushLink(w)
           \/ PushCas(w, "signal") /\ top[list[w]] # qhead[w]
  <2>1. chain' = chain /\ \A u \in Threads : Holding(u)' = Holding(u)
    BY <1>1, <1>5, QuietStep
  <2> QED
    BY <2>1, OwnersStay
<1> QED
  BY <1>2, <1>3, <1>4, <1>5 DEF WorkerLives, WorkerPop, WorkerPush

\* The output's thread gets a full entry and puts back an empty one.
LEMMA OutRefines ==
  ASSUME Structure, OwnerIs, OwnerIs', OutStep \/ PeerGoes
  PROVE  Pool!Next \/ Owner' = Owner
<1>1. /\ QueueInv /\ QueueTypeOK /\ OutRole /\ Out \in Threads
      /\ "fault" \in Labels \ Busy /\ "run" \in Labels \ Busy /\ "wait" \in Labels \ Busy
  BY OutputAssumption DEF Structure, Local, TypeOK, Roles, Labels, Busy
<1>2. CASE Awake \/ Send \/ PeerGoes
  <2>1. chain' = chain /\ \A u \in Threads : Holding(u)' = Holding(u)
    BY <1>1, <1>2 DEF Awake, Send, PeerGoes, qvars, Goto, Holding, QueueTypeOK
  <2> QED
    BY <2>1, OwnersStay
<1>3. CASE PopCas(Out) /\ top[list[Out]] = qhead[Out]
  <2>1. list[Out][2] = "full"
    BY <1>1, <1>3 DEF PopCas, OutRole, Popping, Full
  <2>2. Pool!GetFull(qhead[Out]) /\ qhead[Out] \in Entries
    BY <1>1, <1>3, <2>1, PopMoves DEF Pool!GetFull, Pool!Move, Pool!Free
  <2> QED
    BY <2>2 DEF Pool!Next
<1>4. CASE PushCas(Out, "wait") /\ top[list[Out]] = qhead[Out]
  <2>1. list[Out][2] = "empty"
    BY <1>1, <1>4 DEF PushCas, OutRole, Pushing, Empty
  <2>2. Pool!PutEmpty(qe[Out]) /\ qe[Out] \in Entries
    BY <1>1, <1>4, <2>1, PushMoves DEF Pool!PutEmpty, Pool!Move
  <2> QED
    BY <2>2 DEF Pool!Next
<1>5. CASE \/ PopHead(Out, "fault")
           \/ PopNext(Out)
           \/ PopCas(Out) /\ top[list[Out]] # qhead[Out]
           \/ PopDetach(Out, "run")
           \/ PushHead(Out)
           \/ PushLink(Out)
           \/ PushCas(Out, "wait") /\ top[list[Out]] # qhead[Out]
  <2>1. chain' = chain /\ \A u \in Threads : Holding(u)' = Holding(u)
    BY <1>1, <1>5, QuietStep
  <2> QED
    BY <2>1, OwnersStay
<1> QED
  BY <1>2, <1>3, <1>4, <1>5 DEF OutStep, OutPop, OutPush

\* The lock-free queue of an output with one worker implements the abstract pool:
\* an entry moves from the empty entries to the worker, to the full entries, to
\* the output's thread and back, one owner at a time, up to an overrun.
THEOREM QueueImplementsPool ==
  ASSUME SoleWorker
  PROVE  Spec => ImplementsEntryPool
<1>1. Init => Pool!Init
  <2> DEFINE start == [t \in Threads |-> IF t = Out THEN "wait" ELSE "idle"]
  <2> SUFFICES ASSUME Init
               PROVE  Pool!Init
    OBVIOUS
  <2>1. QueueInv /\ Placed = Entries
    BY InitStructure DEF Structure
  <2>2. /\ start \in [Threads -> Labels] /\ QueueInit(start)
        /\ \A t \in Threads : start[t] # "popDetach"
    BY DEF Init, Labels, Busy
  <2> QED
    BY <2>1, <2>2, OwnersInit DEF Pool!Init
<1>2. Inv /\ Inv' /\ [Next]_vars => [~Doomed' => [Pool!Next]_(Pool!vars)]_vars
  <2> SUFFICES ASSUME Inv, Inv', Next, ~Doomed'
               PROVE  Pool!Next \/ Owner' = Owner
    BY DEF Pool!vars
  <2>1. ~Doomed /\ Structure /\ Structure'
    BY DoomedStays DEF Inv
  <2>2. OwnerIs /\ OwnerIs'
    BY <2>1, OwnerFacts, PTL DEF Structure
  <2>3. \A w \in Workers : GetQueueEntry(w) \/ WorkerStep(w) => WorkerLives(w)
    BY <2>1, WorkerAlive DEF Structure
  <2> QED
    BY <2>1, <2>2, <2>3, WorkerRefines, OutRefines DEF Next
<1> QED
  BY <1>1, <1>2, Invariance, PTL DEF Spec, ImplementsEntryPool

-----------------------------------------------------------------------------
\* An output with one worker implements the abstract outbox up to an overrun: a
\* message that is put is sent once, or dropped because the peer is gone.
THEOREM OutputImplementsOutbox ==
  ASSUME SoleWorker
  PROVE  Spec => ImplementsOutbox
<1>1. Init => Box!Init
  <2> SUFFICES ASSUME Init
               PROVE  Box!Init
    OBVIOUS
  <2>1. /\ pc = [t \in Threads |-> IF t = Out THEN "wait" ELSE "idle"]
        /\ \A q \in Queues : chain[<<q, "full">>] = << >>
        /\ wire = << >> /\ dropped = {} /\ gone = FALSE
    BY DEF Init, QueueInit, Lists
  <2>2. Pending = {}
    <3>1. OnList("full") = {}
      BY <2>1, NothingListed
    <3> QED
      BY <2>1, <3>1, OutputAssumption DEF Due, Pending
  <2> QED
    BY <2>1, <2>2 DEF Box!Init
<1>2. Inv /\ [Next]_vars => [~Doomed' => [Box!Next]_(Box!vars)]_vars
  <2> SUFFICES ASSUME Inv, Next, ~Doomed'
               PROVE  Box!Next \/ UNCHANGED Box!vars
    OBVIOUS
  <2>1. Structure /\ Tokens /\ Delivery /\ AsPut
    BY DoomedStays DEF Inv
  <2> QED
    BY <2>1, LivingStep
<1> QED
  BY <1>1, <1>2, Invariance, PTL DEF Spec, ImplementsOutbox
=============================================================================
