----------------------------- MODULE Configure -----------------------------
(***************************************************************************)
(* The command line (processArgs in main.c): every -i, -o and -w option is *)
(* parsed, checked against the tables, and its object is built and added.  *)
(* worker_new allocates its queues one by one and runs queue_init on each, *)
(* which is module FreeList; so does output_new for its one queue.         *)
(*                                                                         *)
(* An option is a record of its fields.  A number is what strtol makes of  *)
(* the field, a C long, or Bad; an assignment to an id, a queue index or a *)
(* count keeps 16 bits of it (Short), and the size of an output's block is *)
(* computed in 32 bits.  Both widths are parameters.  Sizes are in words.  *)
(***************************************************************************)
EXTENDS FreeList, QSpec

CONSTANTS
  IdMax,        \* INT16_MAX
  UIntSize,     \* 2^32, the values of an unsigned int, in words
  MsgHdr,       \* sizeof(union ssbench_msghdr)
  None,         \* a null pointer; a part of an option that is not there
  InputOptions, OutputOptions, WorkerOptions,    \* the options tried
  MaxInputs, MaxObjects     \* bounds: -i options; -o and -w options

ASSUME ConfigureAssumption ==
  /\ IdMax \in Nat \ {0} /\ UIntSize \in Nat \ {0} /\ MsgHdr \in Nat \ {0}
  /\ MaxInputs \in Nat /\ MaxObjects \in Nat

\* A group of a queue specification
Groups == [count : Int, size : 0 .. MaxData, len : 0 .. MaxQLen]

Number(x) == x = Bad \/ x \in Int

Ids == -(IdMax + 1) .. IdMax

\* What addWorker finds in qds
GroupsRead(spec) == ParseQSpec(spec).qds

Specs == {o.spec : o \in WorkerOptions}

\* What worker_new is given, or has computed, when it starts on the queues
WorkersBegun == [id : Ids, spec : Specs, numqs : Ids, oid : Ids, owid : Ids, oqid : Ids]

ASSUME NoneAssumption == None \notin WorkersBegun

\* The options tried; their queues are within the bounds.
ASSUME OptionsAssumption ==
  /\ \A o \in OutputOptions :
       /\ Number(o.id)
       /\ Bad \notin {o.id, o.size, o.len} =>
            /\ o.size \in Nat /\ (MsgHdr + o.size) % UIntSize <= MaxData
            /\ o.len \in 0 .. MaxQLen
  /\ \A o \in WorkerOptions :
       /\ Number(o.id)
       /\ o.out # None => Number(o.out.oid) /\ Number(o.out.owid) /\ Number(o.out.qid)
       /\ GroupsRead(o.spec) \in Seq(Groups)

VARIABLES
  phase,     \* what processArgs is at
  inputs, outputs, workers,   \* the hash tables, in the order of insertion
  work,      \* the object under construction
  todo,      \* the groups of queues worker_new has still to go through
  qdj,       \* worker_new: queues of the first of them it has built
  qi,        \* worker_new: index of the next queue
  queues,    \* this->queues of the worker under construction
  outside    \* history: a queue was stored outside of that array

args == <<phase, inputs, outputs, workers, work, todo, qdj, qi, queues, outside>>

IdNull   == -1
QidValid(q) == q >= 0 /\ q < IdMax

\* The value a 16-bit variable keeps of a long
Short(x) == ((x + IdMax + 1) % (2 * (IdMax + 1))) - (IdMax + 1)

Field(x) == IF x = Bad THEN IdNull ELSE Short(x)

\* Mutant: the hash is searched for the number as it was given
Defined_Long(table, x) == \E n \in DOMAIN table : table[n].id = x

\* HASH_FIND_INT, by the id as it will be stored
Defined(table, x) == \E n \in DOMAIN table : table[n].id = Short(x)

\* HASH_FIND_INT for the pointer it returns
Find(table, id) ==
  IF \E n \in DOMAIN table : table[n].id = id
    THEN CHOOSE n \in DOMAIN table : table[n].id = id ELSE None

-----------------------------------------------------------------------------
\* worker_new: numqs += qds[qdi].count, in 16 bits
NumQs(groups) ==
  LET sum[n \in 0 .. Len(groups)] ==
        IF n = 0 THEN 0 ELSE Short(sum[n - 1] + Short(groups[n].count))
  IN sum[Len(groups)]

\* Mutant: qdj <= count
MoreQueues_OneMore == qdj <= Short(Head(todo).count)

\* qdj < count: worker_new has still to build a queue of the group
MoreQueues == qdj < Short(Head(todo).count)

-----------------------------------------------------------------------------
NoQueue == pc = "idle" /\ qlen = 1 /\ data = 0 /\ block = 0 /\ fresh = 0
           /\ mem = [a \in Memory |-> 0] /\ empty = 0 /\ full = 0 /\ i = 1

NoWork == work = None /\ todo = << >> /\ qdj = 0 /\ qi = 0 /\ queues = << >>

ConfigInit ==
  /\ phase = "options"
  /\ inputs = << >> /\ outputs = << >> /\ workers = << >>
  /\ NoWork /\ outside = FALSE
  /\ NoQueue

\* return false, exit or abort: nothing of the process is left
End(how) ==
  /\ phase' = how
  /\ UNCHANGED <<inputs, outputs, workers, work, todo, qdj, qi, queues, outside, vars>>

\* -h, or an option getopt does not know
Usage == phase = "options" /\ End("failed")

-----------------------------------------------------------------------------
\* parseCPUSet, of CPUs of which none is known
CpusRejected(o) == o.cpus = "wrong"

\* net_setup_listen_socket: bind fails for a port in use; 0 is any free port.
PortTaken(port) == port # 0 /\ \E n \in DOMAIN inputs : inputs[n].port = port

\* addInput: the id is the number of inputs so far.
AddInput(o) ==
  /\ phase = "options" /\ Len(inputs) < MaxInputs
  /\ IF o.port = Bad \/ CpusRejected(o) \/ PortTaken(o.port)
       THEN End("failed")
       ELSE /\ inputs' = Append(inputs, [id |-> Short(Len(inputs)), port |-> o.port])
            /\ UNCHANGED <<phase, outputs, workers, work, todo, qdj, qi, queues, outside, vars>>

\* malloc, and queue_init up to its first assignment to an entry
Allocate(entries, size, words) ==
  /\ qlen'  = entries
  /\ data'  = size
  /\ block' = words
  /\ fresh' \in {0, Garbage}
  /\ mem'   = [a \in Memory |-> fresh']
  /\ empty' = fresh' /\ full' = fresh'
  /\ i' = 1 /\ pc' = "first"

\* The queue is done; what is in it is followed no further.
Leave ==
  /\ pc = "done"
  /\ qlen' = 1 /\ data' = 0 /\ block' = 0 /\ fresh' = 0 /\ mem' = [a \in Memory |-> 0]
  /\ empty' = 0 /\ full' = 0 /\ i' = 1 /\ pc' = "idle"

\* net_setup_connection: nobody listens at the address
ConnectFails(o) == ~o.peer

\* addOutput, and output_new.  CPUs are never accepted: parseCPUSet is given
\* endptr, which is at the end of the queue length, not the token behind it.
OutputRejected(o) ==
  \/ Bad \in {o.id, o.size, o.len}
  \/ Defined(outputs, o.id)
  \/ ConnectFails(o)
  \/ o.cpus # "none"

EntrySize(o) == (MsgHdr + o.size) % UIntSize      \* maxqentrysize

\* Mutant: the header of the message is left out of the block
OutputBlock_NoHeader(o) == ((Header + o.size) * o.len) % UIntSize

OutputBlock(o) == ((Header + EntrySize(o)) * o.len) % UIntSize    \* qbytes

AddOutput(o) ==
  /\ phase = "options" /\ Len(outputs) + Len(workers) < MaxObjects
  /\ IF OutputRejected(o) THEN End("failed")
     ELSE IF o.len = 0 THEN End("aborted")    \* ASSERT(qlen > 0)
     ELSE /\ phase' = "output"
          /\ work'  = [id |-> Short(o.id), size |-> o.size, len |-> o.len]
          /\ Allocate(o.len, EntrySize(o), OutputBlock(o))
          /\ UNCHANGED <<inputs, outputs, workers, todo, qdj, qi, queues, outside>>

FinishOutput ==
  /\ phase = "output"
  /\ Leave
  /\ outputs' = Append(outputs, [id |-> work.id, size |-> work.size, len |-> work.len,
                                  data |-> data, block |-> block])
  /\ phase' = "options" /\ work' = None
  /\ UNCHANGED <<inputs, workers, todo, qdj, qi, queues, outside>>

-----------------------------------------------------------------------------
\* func_getfunc: EEXIT for a plug-in without get_ssbench_func.  One that cannot
\* be opened leaves the worker without a function.
PlugInFails(o) == o.func = "noSymbol"

\* addWorker.  o.out is None or the three fields <outputid>,<outputfunctionid>,
\* <queue>; of these only the last one must be a number.
WorkerRejected(o) ==
  \/ o.id = Bad
  \/ Defined(workers, o.id)
  \/ PlugInFails(o)
  \/ ParseQSpec(o.spec).outcome = "rejected"
  \/ /\ ParseQSpec(o.spec).outcome # "crashed" /\ o.out # None
     /\ ~QidValid(Field(o.out.qid)) \/ CpusRejected(o)

AddWorker(o) ==
  /\ phase = "options" /\ Len(outputs) + Len(workers) < MaxObjects
  /\ IF WorkerRejected(o) THEN End("failed")
     ELSE IF ParseQSpec(o.spec).outcome = "crashed" THEN End("aborted")
     ELSE /\ phase' = "queues"
          /\ work' = [id    |-> Short(o.id),
                       spec  |-> o.spec,
                       numqs |-> NumQs(GroupsRead(o.spec)),
                       oid   |-> IF o.out = None THEN IdNull ELSE Field(o.out.oid),
                       owid  |-> IF o.out = None THEN IdNull ELSE Field(o.out.owid),
                       oqid  |-> IF o.out = None THEN IdNull ELSE Field(o.out.qid)]
          /\ todo' = GroupsRead(o.spec)
          /\ UNCHANGED <<inputs, outputs, workers, qdj, qi, queues, outside, vars>>

\* A negative numqs asks malloc for less than the struct, or for far too much.
AllocateFails ==
  /\ phase = "queues" /\ work.numqs < 0
  /\ todo = GroupsRead(work.spec) /\ qdj = 0 /\ qi = 0 /\ pc = "idle"
  /\ End("aborted")

\* worker_new: the next queue
BuildQueue ==
  /\ phase = "queues" /\ pc = "idle" /\ todo # << >> /\ MoreQueues
  /\ LET q == Head(todo) IN
     IF q.len = 0 THEN End("aborted")         \* ASSERT(qlen > 0)
     ELSE /\ Allocate(q.len, q.size, (Header + q.size) * q.len)
          /\ UNCHANGED args

\* queue_init, step by step
InitQueue == Next /\ UNCHANGED args

\* queues[qi] = q; qi++
StoreQueue ==
  /\ phase = "queues"
  /\ Leave
  /\ IF qi \in 0 .. work.numqs - 1
       THEN queues' = Append(queues, Head(todo)) /\ UNCHANGED outside
       ELSE outside' = TRUE /\ UNCHANGED queues
  /\ qi'   = Short(qi + 1)
  /\ qdj'  = Short(qdj + 1)
  /\ UNCHANGED <<phase, inputs, outputs, workers, work, todo>>

\* qdi++: the queues of the group are built
NextGroup ==
  /\ phase = "queues" /\ pc = "idle" /\ todo # << >> /\ ~MoreQueues
  /\ todo' = Tail(todo) /\ qdj' = 0
  /\ UNCHANGED <<phase, inputs, outputs, workers, work, qi, queues, outside, vars>>

\* Mutant: worker_init goes on when it does not find the output
FinishWorker_NoOutput ==
  /\ phase = "queues" /\ pc = "idle" /\ todo = << >>
  /\ IF work.numqs # qi \/ (work.oid # IdNull /\ work.owid = IdNull) THEN End("aborted")
     ELSE /\ workers' = Append(workers, [id |-> work.id, numqs |-> work.numqs,
                                         queues |-> queues, spec |-> work.spec,
                                         oid |-> work.oid, owid |-> work.owid,
                                         oqid |-> work.oqid,
                                         output |-> Find(outputs, work.oid)])
          /\ phase' = "options"
          /\ work' = None /\ qi' = 0 /\ queues' = << >>
          /\ UNCHANGED <<inputs, outputs, todo, qdj, outside, vars>>

\* ASSERT(numqs == qi), then worker_init, which looks its output up by the id,
\* and HASH_ADD_INT
FinishWorker ==
  /\ phase = "queues" /\ pc = "idle" /\ todo = << >>
  /\ IF work.numqs # qi THEN End("aborted")
     ELSE IF work.oid # IdNull /\ Find(outputs, work.oid) = None THEN End("failed")  \* EEXIT
     ELSE IF work.oid # IdNull /\ work.owid = IdNull THEN End("aborted")
     ELSE /\ workers' = Append(workers, [id |-> work.id, numqs |-> work.numqs,
                                         queues |-> queues, spec |-> work.spec,
                                         oid |-> work.oid, owid |-> work.owid,
                                         oqid |-> work.oqid,
                                         output |-> IF work.oid = IdNull THEN None
                                                    ELSE Find(outputs, work.oid)])
          /\ phase' = "options"
          /\ work' = None /\ qi' = 0 /\ queues' = << >>
          /\ UNCHANGED <<inputs, outputs, todo, qdj, outside, vars>>

\* The last option has been read: "Require at least one -i"
EndOptions == phase = "options" /\ End(IF inputs = << >> THEN "failed" ELSE "ready")

ConfigNext ==
  \/ Usage \/ EndOptions
  \/ \E o \in InputOptions  : AddInput(o)
  \/ \E o \in OutputOptions : AddOutput(o)
  \/ \E o \in WorkerOptions : AddWorker(o)
  \/ FinishOutput \/ InitQueue
  \/ AllocateFails \/ BuildQueue \/ StoreQueue \/ NextGroup \/ FinishWorker

ConfigSpec == ConfigInit /\ [][ConfigNext]_<<args, vars>>

-----------------------------------------------------------------------------
\* Every id, index and count has its type, if not the one ssbench_types.h (15, 19)
\* states: "arbitrary value excluding the ID_NULL".  The options are not checked for
\* it, so that -1 is the id of an output or a worker like any other.
ConfigTypeOK ==
  /\ TypeOK
  /\ phase \in {"options", "output", "queues", "ready", "failed", "aborted"}
  /\ qi \in Ids
  /\ \A n \in DOMAIN inputs  : inputs[n].id \in 0 .. MaxInputs - 1
  /\ \A n \in DOMAIN outputs : outputs[n].id \in Ids
  /\ \A n \in DOMAIN workers : {workers[n].id, workers[n].numqs, workers[n].owid} \subseteq Ids
  /\ outside \in BOOLEAN

\* The id in a message header, 16 bits, names one worker, and an option's
\* output id one output: ids that differ only beyond 16 bits are one id.
IdsAreUnique ==
  \A table \in {inputs, outputs, workers} :
    \A m, n \in DOMAIN table : table[m].id = table[n].id => m = n

\* A worker in the table has the output its option names, with an id of the
\* worker behind it and a queue index worker_getQueueEntry can accept, or it has
\* no output: nothing is left of a name that was not found.
OutputsResolved ==
  \A n \in DOMAIN workers :
    LET w == workers[n] IN
    IF w.oid = IdNull THEN w.output = None
    ELSE /\ w.output \in DOMAIN outputs /\ outputs[w.output].id = w.oid
         /\ w.owid # IdNull /\ QidValid(w.oqid)

\* How many queues the first n groups ask for, for every n
QueuesUpTo(groups) ==
  LET sum[n \in 0 .. Len(groups)] ==
        IF n = 0 THEN 0 ELSE sum[n - 1] + groups[n].count
  IN sum

SumOfCounts(groups) == QueuesUpTo(groups)[Len(groups)]

\* A count is negative, or one of them or their sum is beyond 16 bits.
Overflows(groups) ==
  (\E n \in DOMAIN groups : groups[n].count < 0) \/ SumOfCounts(groups) > IdMax

\* Queue k of group g has its place behind all queues of the groups before it.
InPlace(stored, groups, g, k) == stored[QueuesUpTo(groups)[g - 1] + k] = groups[g]

\* Unless the counts overflow, the queues of a worker are stored inside its
\* array and fill it: every index from 0 to numqs-1, which is what
\* worker_getQueueEntry lets pass, is a queue of the group it is counted in.
QueuesInPlace ==
  /\ outside =>
       \/ work # None /\ phase # "output" /\ Overflows(GroupsRead(work.spec))
       \/ \E n \in DOMAIN workers : Overflows(GroupsRead(workers[n].spec))
  /\ \A n \in DOMAIN workers :
       LET w == workers[n]
           groups == GroupsRead(w.spec)
       IN ~Overflows(groups) =>
            /\ Len(w.queues) = w.numqs /\ w.numqs = SumOfCounts(groups)
            /\ \A g \in DOMAIN groups : \A k \in 1 .. groups[g].count :
                 InPlace(w.queues, groups, g, k)

\* A worker whose specification has groups of three fields has them as they are
\* written, and none comes of one with a field that is no number; but a fault in the
\* very last field is not seen, and its group is dropped without a word.  (A group
\* with a field too few takes one from the next, or makes strtol read a null pointer.)
QSpecReadAsWritten ==
  \A w \in {workers[n] : n \in DOMAIN workers} \cup (IF phase = "queues" THEN {work} ELSE {}) :
    WellShaped(w.spec) =>
      /\ Faults(w.spec) \subseteq {Len(w.spec)}
      /\ GroupsRead(w.spec) = Written(w.spec)

\* "the data of output bound queue entries need to contain both a message header
\* and the message data": and the block has room for all entries, as long as
\* neither size overflows 32 bits.
OutputEntriesHoldMessages ==
  \A n \in DOMAIN outputs :
    LET o == outputs[n] IN
    (Header + MsgHdr + o.size) * o.len < UIntSize =>
      /\ o.data >= MsgHdr + o.size
      /\ o.block >= (Header + o.data) * o.len
=============================================================================
