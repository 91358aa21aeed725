-------------------------- MODULE ConfigureProofs --------------------------
(***************************************************************************)
(* Theorems about Configure, for every set of options within the bounds    *)
(* (OptionsAssumption).  There are three inductive invariants.             *)
(* OneQueueAtATime says that queue_init works on the block of one queue at *)
(* a time (phase and pc agree), so that what FreeListProofs shows of it    *)
(* holds of every queue that is built.  Objects relates the object under   *)
(* construction to the tables it will be added to: what was checked of an  *)
(* option when it was parsed is still true when the object is added, steps *)
(* later.                                                                  *)
(*                                                                         *)
(* StoringInOrder follows worker_new through the groups of a queue         *)
(* specification: the queues stored are those of the groups behind it.     *)
(* Sums over the groups are recursive functions; what is proved of them    *)
(* rests on AllNumbers, induction as a fact about a set of numbers.        *)
(***************************************************************************)
EXTENDS Configure, FreeListProofs, SequenceTheorems, WellFoundedInduction

OneQueueAtATime ==
  /\ Building
  /\ pc # "idle" => phase \in {"output", "queues"}
  /\ phase = "output" => pc # "idle"
  /\ phase = "queues" /\ pc # "idle" => todo # << >>
  /\ todo \in Seq(Groups)

\* The number of inputs is not checked: their ids are numbers of 16 bits.
FewInputs == MaxInputs <= IdMax + 1

\* An output that is being built or has been: its entries hold a message and
\* fit into its block, unless a size overflows.
HoldsMessages(o, size, words) ==
  (Header + MsgHdr + o.size) * o.len < UIntSize =>
    size >= MsgHdr + o.size /\ words >= (Header + size) * o.len

Resolved(w) ==
  IF w.oid = IdNull THEN w.output = None
  ELSE /\ w.output \in DOMAIN outputs /\ outputs[w.output].id = w.oid
       /\ w.owid # IdNull /\ QidValid(w.oqid)

Distinct(table) == \A m, n \in DOMAIN table : table[m].id = table[n].id => m = n

InputObjects  == [id : Ids, port : {o.port : o \in InputOptions}]
OutputObjects == [id : Ids, size : Nat, len : 1 .. MaxQLen, data : Nat, block : Nat]
WorkerObjects == [id : Ids, numqs : Ids, queues : Seq(Groups), spec : Specs,
                  oid : Ids, owid : Ids, oqid : Ids, output : Nat \cup {None}]

\* What is known of the worker or the output under construction
WorkInProgress ==
  /\ phase = "output" =>
       /\ work \in [id : Ids, size : Nat, len : 1 .. MaxQLen]
       /\ \A n \in DOMAIN outputs : outputs[n].id # work.id
       /\ HoldsMessages(work, data, block)
  /\ phase = "queues" =>
       /\ {work.id, work.oid, work.owid, work.oqid} \subseteq Ids
       /\ work.spec \in Specs
       /\ \A n \in DOMAIN workers : workers[n].id # work.id
       /\ work.oid # IdNull => QidValid(work.oqid)

InputTable == inputs \in Seq(InputObjects) /\ Len(inputs) <= MaxInputs

OutputTable ==
  /\ outputs \in Seq(OutputObjects) /\ Distinct(outputs)
  /\ \A n \in DOMAIN outputs : HoldsMessages(outputs[n], outputs[n].data, outputs[n].block)

WorkerTable ==
  /\ workers \in Seq(WorkerObjects) /\ Distinct(workers)
  /\ \A n \in DOMAIN workers : Resolved(workers[n])

Objects ==
  /\ phase \in {"options", "output", "queues", "ready", "failed", "aborted"}
  /\ qi \in Ids /\ outside \in BOOLEAN /\ queues \in Seq(Groups)
  /\ InputTable /\ OutputTable /\ WorkerTable
  /\ WorkInProgress

\* The queues stored are those of the first g groups, and n of the next one.
Filled(stored, groups, g, n) ==
  /\ Len(stored) = QueuesUpTo(groups)[g] + n
  /\ \A h \in 1 .. g : \A k \in 1 .. groups[h].count : InPlace(stored, groups, h, k)
  /\ \A k \in 1 .. n : InPlace(stored, groups, g + 1, k)

\* Where worker_new is with the first g groups behind it: what it has still to
\* do is the other groups, and what it has stored is in order.
Reached(groups, g) ==
  /\ g = Len(groups) - Len(todo) /\ g \in 0 .. Len(groups)
  /\ \A h \in 1 .. Len(todo) : todo[h] = groups[g + h]
  /\ todo = << >> => qdj = 0
  /\ ~Overflows(groups) =>
       /\ Filled(queues, groups, g, qdj)
       /\ qi = Len(queues) /\ qdj \in Nat
       /\ todo # << >> => qdj <= Head(todo).count

StoringInOrder ==
  /\ phase \in {"options", "output"} =>
       todo = << >> /\ qdj = 0 /\ qi = 0 /\ queues = << >>
  /\ phase = "options" => work = None
  /\ phase = "queues" =>
       /\ work \in WorkersBegun /\ work.numqs = NumQs(GroupsRead(work.spec))
       /\ Reached(GroupsRead(work.spec), Len(GroupsRead(work.spec)) - Len(todo))
       /\ pc # "idle" => MoreQueues

\* The n-th input has the id n - 1.
InputIds == \A n \in DOMAIN inputs : inputs[n].id = n - 1

\* A nonempty set of natural numbers has the minimum Min chooses.
LEMMA MinOfNaturals ==
  ASSUME NEW S \in SUBSET Nat, S # {}
  PROVE  Min(S) \in S /\ \A y \in S : Min(S) <= y
<1>1. PICK x \in S : \A y \in S : ~(<<y, x>> \in OpToRel(<, Nat))
  BY NatLessThanWellFounded, WFMin, Zenon
<1>2. \A y \in S : x <= y
  <2> SUFFICES ASSUME NEW y \in S, y < x PROVE FALSE
    OBVIOUS
  <2>1. <<y, x>> \in OpToRel(<, Nat)
    BY Zenon DEF OpToRel
  <2> QED
    BY <1>1, <2>1
<1> QED
  BY <1>2 DEF Min

\* What 16 bits keep of a number is a 16-bit number, and the number itself if
\* it is one.
LEMMA ShortRange ==
  ASSUME NEW x \in Int
  PROVE  Short(x) \in Ids /\ (x \in Ids => Short(x) = x)
<1>1. IdMax \in Nat /\ IdMax + 1 \in Nat /\ IdMax + 1 > 0
  BY ConfigureAssumption
<1> DEFINE m == 2 * (IdMax + 1)
<1>2. m \in Nat /\ m > 0
  BY <1>1
<1>3. (x + IdMax + 1) % m \in 0 .. m - 1
  BY <1>1, <1>2
<1>4. ASSUME x \in Ids PROVE (x + IdMax + 1) % m = x + IdMax + 1
  <2>1. x + IdMax + 1 \in 0 .. m - 1
    BY <1>1, <1>4 DEF Ids
  <2> QED
    BY <1>2, <2>1
<1> QED
  BY <1>1, <1>3, <1>4 DEF Short, Ids

-----------------------------------------------------------------------------
(***************************************************************************)
(* Sums over the groups of a specification.                                *)
(***************************************************************************)

\* Induction over the numbers, as a fact about a set of them.
LEMMA AllNumbers ==
  ASSUME NEW S \in SUBSET Nat, 0 \in S, \A n \in S : n + 1 \in S
  PROVE  \A n \in Nat : n \in S
<1> SUFFICES ASSUME NEW n \in Nat, n \notin S PROVE FALSE
  OBVIOUS
<1> DEFINE others == Nat \ S
<1>1. Min(others) \in others /\ \A y \in others : Min(others) <= y
  <2>1. others \in SUBSET Nat /\ others # {}
    OBVIOUS
  <2> HIDE DEF others
  <2> QED
    BY <2>1, MinOfNaturals
<1>2. PICK m : m = Min(others)
  OBVIOUS
<1>3. m \in Nat /\ m \notin S /\ m # 0
  BY <1>1, <1>2
<1>4. m - 1 \in S
  BY <1>1, <1>2, <1>3
<1> QED
  BY <1>3, <1>4

\* A number for every n up to N, each computed from the one before.
LEMMA Accumulates ==
  ASSUME NEW N \in Nat, NEW step \in [1 .. N -> [Int -> Int]]
  PROVE  \E f \in [0 .. N -> Int] :
           f = [n \in 0 .. N |-> IF n = 0 THEN 0 ELSE step[n][f[n - 1]]]
<1> DEFINE Upto(k, f) ==
             /\ f \in [0 .. N -> Int] /\ f[0] = 0
             /\ \A n \in 1 .. k : f[n] = step[n][f[n - 1]]
           Possible(k) == \E f : Upto(k, f)
           S == {k \in Nat : k <= N => Possible(k)}
<1>1. Possible(0)
  <2>1. Upto(0, [n \in 0 .. N |-> 0])
    OBVIOUS
  <2> QED
    BY <2>1
<1>2. ASSUME NEW k \in Nat, k + 1 <= N, Possible(k) PROVE Possible(k + 1)
  <2>1. PICK f : Upto(k, f)
    BY <1>2
  <2>2. k \in 0 .. N /\ k + 1 \in 1 .. N
    BY <1>2
  <2>3. step[k + 1] \in [Int -> Int]
    BY <2>2
  <2>4. PICK x \in Int : x = step[k + 1][f[k]]
    BY <2>1, <2>2, <2>3
  <2> DEFINE g == [f EXCEPT ![k + 1] = x]
  <2>5. g \in [0 .. N -> Int] /\ g[0] = 0
    BY <2>1, <2>2
  <2>6. ASSUME NEW n \in 1 .. k + 1 PROVE g[n] = step[n][g[n - 1]]
    <3>1. n - 1 # k + 1 /\ n - 1 \in 0 .. N /\ n \in 0 .. N
      BY <2>2
    <3>2. g[n - 1] = f[n - 1]
      BY <2>1, <3>1
    <3>3. CASE n = k + 1
      BY <2>1, <2>2, <2>4, <3>2, <3>3
    <3>4. CASE n # k + 1
      <4>1. g[n] = f[n] /\ n \in 1 .. k
        BY <2>1, <3>1, <3>4
      <4> QED
        BY <2>1, <3>2, <4>1
    <3> QED
      BY <3>3, <3>4
  <2> HIDE DEF g
  <2>7. Upto(k + 1, g)
    BY <2>5, <2>6
  <2> QED
    BY <2>7
<1>3. Possible(N)
  <2> HIDE DEF Possible
  <2>1. S \in SUBSET Nat /\ 0 \in S
    BY <1>1
  <2>2. ASSUME NEW n \in S PROVE n + 1 \in S
    BY <1>2
  <2>3. N \in S
    <3> HIDE DEF S
    <3> QED
      BY <2>1, <2>2, AllNumbers
  <2> QED
    BY <2>3
<1>4. PICK f : Upto(N, f)
  BY <1>3
<1>5. \A n \in 0 .. N : f[n] = IF n = 0 THEN 0 ELSE step[n][f[n - 1]]
  BY <1>4
<1> QED
  BY <1>4, <1>5

\* What QueuesUpTo is, of groups of any counts
LEMMA QueuesUpToIs ==
  ASSUME NEW groups \in Seq(Groups)
  PROVE  /\ QueuesUpTo(groups) \in [0 .. Len(groups) -> Int]
         /\ QueuesUpTo(groups)[0] = 0
         /\ \A n \in 1 .. Len(groups) :
              QueuesUpTo(groups)[n] = QueuesUpTo(groups)[n - 1] + groups[n].count
<1> DEFINE N == Len(groups)
    step == [n \in 1 .. N |-> [x \in Int |-> x + groups[n].count]]
    IsSum(f) == f = [n \in 0 .. N |-> IF n = 0 THEN 0 ELSE f[n - 1] + groups[n].count]
<1>1. N \in Nat /\ groups \in [1 .. N -> Groups]
  BY LenProperties
<1>2. \A n \in 1 .. N : groups[n].count \in Int
  BY <1>1 DEF Groups
<1>3. step \in [1 .. N -> [Int -> Int]]
  BY <1>2
<1> HIDE DEF N
<1>4. PICK f \in [0 .. N -> Int] :
        f = [n \in 0 .. N |-> IF n = 0 THEN 0 ELSE step[n][f[n - 1]]]
  <2> HIDE DEF step
  <2> QED
    BY <1>1, <1>3, Accumulates
<1>5. IsSum(f)
  <2>1. ASSUME NEW n \in 0 .. N
        PROVE  f[n] = IF n = 0 THEN 0 ELSE f[n - 1] + groups[n].count
    <3>1. CASE n = 0
      BY <1>4, <3>1
    <3>2. CASE n # 0
      <4>1. n \in 1 .. N /\ n - 1 \in 0 .. N /\ f[n - 1] \in Int
        BY <1>1, <3>2 DEF N
      <4>2. step[n][f[n - 1]] = f[n - 1] + groups[n].count
        BY <4>1
      <4> QED
        BY <1>4, <3>2, <4>2, Zenon
    <3> QED
      BY <3>1, <3>2
  <2> QED
    BY <1>4, <2>1
<1>6. QueuesUpTo(groups) = CHOOSE s : IsSum(s)
  BY Zenon DEF QueuesUpTo, N
<1>7. IsSum(QueuesUpTo(groups))
  BY <1>5, <1>6
<1>8. PICK q : q = QueuesUpTo(groups)
  OBVIOUS
<1>9. \A n \in 0 .. N : q[n] = IF n = 0 THEN 0 ELSE q[n - 1] + groups[n].count
  BY <1>7, <1>8
<1>10. \A n \in 0 .. N : q[n] \in Int
  <2> DEFINE S == {n \in Nat : n <= N => q[n] \in Int}
  <2>1. S \in SUBSET Nat /\ 0 \in S
    BY <1>1, <1>9
  <2>2. ASSUME NEW n \in Nat, n + 1 <= N, q[n] \in Int PROVE q[n + 1] \in Int
    <3>1. n + 1 \in 0 .. N /\ n + 1 \in 1 .. N /\ (n + 1) - 1 = n
      BY <1>1, <2>2
    <3>2. q[n + 1] = q[n] + groups[n + 1].count
      BY <1>9, <3>1
    <3> QED
      BY <1>2, <2>2, <3>1, <3>2
  <2>3. ASSUME NEW n \in S PROVE n + 1 \in S
    BY <1>1, <2>2
  <2>4. \A n \in Nat : n \in S
    <3> HIDE DEF S
    <3> QED
      BY <2>1, <2>3, AllNumbers
  <2> QED
    BY <1>1, <2>4
<1>11. q \in [0 .. N -> Int]
  BY <1>7, <1>8, <1>10
<1> QED
  BY <1>1, <1>8, <1>9, <1>11 DEF N

\* If the counts do not overflow, the sums grow from 0 to a number of 16 bits.
LEMMA SumsGrow ==
  ASSUME NEW groups \in Seq(Groups), ~Overflows(groups)
  PROVE  /\ \A n \in 1 .. Len(groups) :
              /\ groups[n].count \in 0 .. IdMax
              /\ QueuesUpTo(groups)[n - 1] + groups[n].count <= SumOfCounts(groups)
         /\ \A n \in 0 .. Len(groups) : QueuesUpTo(groups)[n] \in 0 .. SumOfCounts(groups)
         /\ \A n \in 0 .. Len(groups) : \A m \in 0 .. n :
              QueuesUpTo(groups)[m] <= QueuesUpTo(groups)[n]
         /\ SumOfCounts(groups) \in 0 .. IdMax
<1> DEFINE N == Len(groups)
<1>1. PICK q : q = QueuesUpTo(groups)
  OBVIOUS
<1>2. /\ q \in [0 .. N -> Int] /\ q[0] = 0
      /\ \A n \in 1 .. N : q[n] = q[n - 1] + groups[n].count
  BY <1>1, QueuesUpToIs
<1>3. N \in Nat /\ groups \in [1 .. N -> Groups]
  BY LenProperties
<1>4. ASSUME NEW n \in 1 .. N PROVE groups[n].count \in Nat
  <2>1. groups[n].count \in Int /\ n \in DOMAIN groups
    BY <1>3 DEF Groups
  <2>2. ~(groups[n].count < 0)
    BY <2>1 DEF Overflows
  <2> QED
    BY <2>1, <2>2
<1>5. q[N] <= IdMax /\ SumOfCounts(groups) = q[N] /\ IdMax \in Nat
  BY <1>1, <1>2, <1>3, ConfigureAssumption DEF Overflows, SumOfCounts
<1> HIDE DEF N
<1>6. \A n \in 0 .. N : q[n] >= 0
  <2> DEFINE S == {n \in Nat : n <= N => q[n] >= 0}
  <2>1. S \in SUBSET Nat /\ 0 \in S
    BY <1>2
  <2>2. ASSUME NEW n \in Nat, n + 1 <= N, q[n] >= 0 PROVE q[n + 1] >= 0
    <3>1. n + 1 \in 1 .. N /\ (n + 1) - 1 = n /\ n \in 0 .. N
      BY <1>3, <2>2
    <3>2. q[n + 1] = q[n] + groups[n + 1].count
      BY <1>2, <3>1
    <3> QED
      BY <1>2, <1>4, <2>2, <3>1, <3>2
  <2>3. ASSUME NEW n \in S PROVE n + 1 \in S
    BY <1>3, <2>2
  <2>4. \A n \in Nat : n \in S
    <3> HIDE DEF S
    <3> QED
      BY <2>1, <2>3, AllNumbers
  <2> QED
    BY <1>3, <2>4
<1>7. \A n \in 0 .. N : \A m \in 0 .. n : q[m] <= q[n]
  <2> SUFFICES ASSUME NEW n \in 0 .. N PROVE \A m \in 0 .. n : q[m] <= q[n]
    OBVIOUS
  <2> DEFINE S == {d \in Nat : d <= n => q[n - d] <= q[n]}
  <2>1. S \in SUBSET Nat /\ 0 \in S
    BY <1>2, <1>3
  <2>2. ASSUME NEW d \in Nat, d + 1 <= n, q[n - d] <= q[n] PROVE q[n - (d + 1)] <= q[n]
    <3>1. n - d \in 1 .. N /\ (n - d) - 1 = n - (d + 1) /\ n - (d + 1) \in 0 .. N
      BY <1>3, <2>2
    <3>2. q[n - d] = q[n - (d + 1)] + groups[n - d].count
      BY <1>2, <3>1
    <3>3. /\ groups[n - d].count \in Nat /\ q[n - d] \in Int
          /\ q[n - (d + 1)] \in Int /\ q[n] \in Int
      BY <1>2, <1>3, <1>4, <3>1
    <3> QED
      BY <2>2, <3>2, <3>3
  <2>3. ASSUME NEW d \in S PROVE d + 1 \in S
    BY <1>3, <2>2
  <2>4. \A d \in Nat : d \in S
    <3> HIDE DEF S
    <3> QED
      BY <2>1, <2>3, AllNumbers
  <2>5. ASSUME NEW m \in 0 .. n PROVE q[m] <= q[n]
    <3>1. n - m \in Nat /\ n - m <= n /\ n - (n - m) = m
      BY <1>3
    <3> QED
      BY <2>4, <3>1
  <2> QED
    BY <2>5
<1>8. \A n \in 0 .. N : q[n] \in 0 .. q[N]
  BY <1>2, <1>3, <1>6, <1>7
<1>9. q[N] \in 0 .. IdMax
  BY <1>3, <1>5, <1>8
<1>10. ASSUME NEW n \in 1 .. N
       PROVE  groups[n].count \in 0 .. IdMax /\ q[n - 1] + groups[n].count <= q[N]
  <2>1. n \in 0 .. N /\ n - 1 \in 0 .. N
    BY <1>3
  <2>2. q[n] = q[n - 1] + groups[n].count /\ groups[n].count \in Nat
    BY <1>2, <1>4
  <2>3. q[n - 1] \in 0 .. q[N] /\ q[n] \in 0 .. q[N]
    BY <1>8, <2>1
  <2> QED
    BY <1>5, <1>9, <2>2, <2>3
<1> QED
  BY <1>1, <1>5, <1>7, <1>8, <1>9, <1>10 DEF N

\* numqs is a number of 16 bits, and the sum of the counts if they do not overflow.
LEMMA NumQsIs ==
  ASSUME NEW groups \in Seq(Groups)
  PROVE  NumQs(groups) \in Ids /\ (~Overflows(groups) => NumQs(groups) = SumOfCounts(groups))
<1> DEFINE N == Len(groups)
    step == [n \in 1 .. N |-> [x \in Int |-> Short(x + Short(groups[n].count))]]
    IsSum(f) ==
      f = [n \in 0 .. N |-> IF n = 0 THEN 0 ELSE Short(f[n - 1] + Short(groups[n].count))]
<1>1. N \in Nat /\ groups \in [1 .. N -> Groups]
  BY LenProperties
<1>2. \A n \in 1 .. N : Short(groups[n].count) \in Int
  <2>1. \A n \in 1 .. N : groups[n].count \in Int
    BY <1>1 DEF Groups
  <2> QED
    BY <2>1, ShortRange, ConfigureAssumption DEF Ids
<1>3. \A n \in 1 .. N : \A x \in Int : Short(x + Short(groups[n].count)) \in Ids
  BY <1>2, ShortRange
<1>4. Ids \subseteq Int /\ 0 \in Ids
  BY ConfigureAssumption DEF Ids
<1>5. step \in [1 .. N -> [Int -> Int]]
  BY <1>3, <1>4
<1> HIDE DEF N
<1>6. PICK f \in [0 .. N -> Int] :
        f = [n \in 0 .. N |-> IF n = 0 THEN 0 ELSE step[n][f[n - 1]]]
  <2> HIDE DEF step
  <2> QED
    BY <1>1, <1>5, Accumulates
<1>7. IsSum(f)
  <2>1. ASSUME NEW n \in 0 .. N
        PROVE  f[n] = IF n = 0 THEN 0 ELSE Short(f[n - 1] + Short(groups[n].count))
    <3>1. CASE n = 0
      BY <1>6, <3>1
    <3>2. CASE n # 0
      <4>1. n \in 1 .. N /\ n - 1 \in 0 .. N /\ f[n - 1] \in Int
        BY <1>1, <3>2
      <4>2. step[n][f[n - 1]] = Short(f[n - 1] + Short(groups[n].count))
        BY <4>1
      <4> QED
        BY <1>6, <3>2, <4>2, Zenon
    <3> QED
      BY <3>1, <3>2
  <2> QED
    BY <1>6, <2>1
<1> DEFINE sum == CHOOSE s : IsSum(s)
<1>8. NumQs(groups) = sum[N]
  BY Zenon DEF NumQs, N
<1>9. IsSum(sum)
  BY <1>7
<1>10. PICK s : s = sum
  OBVIOUS
<1>11. /\ NumQs(groups) = s[N]
       /\ \A n \in 0 .. N : s[n] = IF n = 0 THEN 0 ELSE Short(s[n - 1] + Short(groups[n].count))
  BY <1>8, <1>9, <1>10
<1>12. \A n \in 0 .. N : s[n] \in Ids
  <2> DEFINE S == {n \in Nat : n <= N => s[n] \in Ids}
  <2>1. S \in SUBSET Nat /\ 0 \in S
    BY <1>1, <1>4, <1>11
  <2>2. ASSUME NEW n \in Nat, n + 1 <= N, s[n] \in Ids PROVE s[n + 1] \in Ids
    <3>1. n + 1 \in 0 .. N /\ n + 1 \in 1 .. N /\ (n + 1) - 1 = n
      BY <1>1, <2>2
    <3>2. s[n + 1] = Short(s[n] + Short(groups[n + 1].count))
      BY <1>11, <3>1
    <3> QED
      BY <1>3, <1>4, <2>2, <3>1, <3>2
  <2>3. ASSUME NEW n \in S PROVE n + 1 \in S
    BY <1>1, <2>2
  <2>4. \A n \in Nat : n \in S
    <3> HIDE DEF S
    <3> QED
      BY <2>1, <2>3, AllNumbers
  <2> QED
    BY <1>1, <2>4
<1>13. ASSUME ~Overflows(groups) PROVE s[N] = SumOfCounts(groups)
  <2>1. PICK q : q = QueuesUpTo(groups)
    OBVIOUS
  <2>2. /\ q[0] = 0 /\ q[N] = SumOfCounts(groups) /\ SumOfCounts(groups) <= IdMax
        /\ \A n \in 1 .. N : q[n] = q[n - 1] + groups[n].count
        /\ \A n \in 1 .. N : groups[n].count \in 0 .. IdMax
        /\ \A n \in 0 .. N : q[n] \in 0 .. IdMax
    <3>1. /\ \A n \in 1 .. N : groups[n].count \in 0 .. IdMax
          /\ \A n \in 0 .. N : q[n] \in 0 .. SumOfCounts(groups)
          /\ SumOfCounts(groups) \in 0 .. IdMax
      BY <1>13, <2>1, SumsGrow DEF N
    <3>2. q[0] = 0 /\ \A n \in 1 .. N : q[n] = q[n - 1] + groups[n].count
      BY <2>1, QueuesUpToIs DEF N
    <3>3. q[N] = SumOfCounts(groups)
      BY <2>1 DEF N, SumOfCounts
    <3>4. \A n \in 0 .. N : q[n] \in 0 .. IdMax
      BY <3>1, ConfigureAssumption
    <3> QED
      BY <3>1, <3>2, <3>3, <3>4, ConfigureAssumption
  <2>3. 0 .. IdMax \subseteq Ids
    BY ConfigureAssumption DEF Ids
  <2> DEFINE S == {n \in Nat : n <= N => s[n] = q[n]}
  <2>4. S \in SUBSET Nat /\ 0 \in S
    BY <1>1, <1>11, <2>2
  <2>5. ASSUME NEW n \in Nat, n + 1 <= N, s[n] = q[n] PROVE s[n + 1] = q[n + 1]
    <3>1. n + 1 \in 0 .. N /\ n + 1 \in 1 .. N /\ (n + 1) - 1 = n
      BY <1>1, <2>5
    <3>2. s[n + 1] = Short(q[n] + Short(groups[n + 1].count))
      BY <1>11, <2>5, <3>1
    <3>3. Short(groups[n + 1].count) = groups[n + 1].count
      BY <1>4, <2>2, <2>3, <3>1, ShortRange
    <3>4. q[n + 1] = q[n] + groups[n + 1].count /\ q[n + 1] \in Ids
      BY <2>2, <2>3, <3>1
    <3>5. Short(q[n + 1]) = q[n + 1]
      BY <1>4, <3>4, ShortRange
    <3> QED
      BY <3>2, <3>3, <3>4, <3>5
  <2>6. ASSUME NEW n \in S PROVE n + 1 \in S
    BY <1>1, <2>5
  <2>7. \A n \in Nat : n \in S
    <3> HIDE DEF S
    <3> QED
      BY <2>4, <2>6, AllNumbers
  <2> QED
    BY <1>1, <2>2, <2>7
<1> QED
  BY <1>1, <1>11, <1>12, <1>13

-----------------------------------------------------------------------------
(***************************************************************************)
(* One queue at a time.                                                    *)
(***************************************************************************)

\* What addWorker finds in qds are groups within the bounds.
LEMMA GroupsReadType ==
  ASSUME NEW spec \in Specs
  PROVE  GroupsRead(spec) \in Seq(Groups)
BY OptionsAssumption DEF Specs

\* Between two queues there is nothing to say of queue_init.
LEMMA NoQueueBuilding == NoQueue => Building
<1> SUFFICES ASSUME NoQueue PROVE Building
  OBVIOUS
<1>1. TypeOK
  BY FreeListAssumption DEF NoQueue, TypeOK
<1> QED
  BY <1>1 DEF NoQueue, Building, ZeroedListIsPrefix, CompleteWhenStridesAgree

\* A block that is allocated within the bounds is ready for queue_init.
LEMMA AllocateGives ==
  ASSUME NEW entries \in 1 .. MaxQLen, NEW size \in 0 .. MaxData, NEW words \in Nat,
         Allocate(entries, size, words)
  PROVE  Building' /\ pc' = "first"
<1>1. Fresh'
  BY DEF Allocate, Fresh, Memory
<1>2. Fresh' => Building'
  BY FreshBlock, PTL
<1> QED
  BY <1>1, <1>2 DEF Fresh

\* A queue that is done leaves no block behind.
LEMMA LeaveGives ==
  ASSUME Leave
  PROVE  Building' /\ pc' = "idle"
<1>1. NoQueue'
  BY DEF Leave, NoQueue, Memory
<1>2. NoQueue' => Building'
  BY NoQueueBuilding, PTL
<1> QED
  BY <1>1, <1>2 DEF Leave

\* The sizes output_new computes for an option it accepts
LEMMA OutputSizes ==
  ASSUME NEW o \in OutputOptions, ~OutputRejected(o), o.len # 0
  PROVE  /\ o.len \in 1 .. MaxQLen /\ o.size \in Nat /\ o.id \in Int
         /\ EntrySize(o) \in 0 .. MaxData
         /\ OutputBlock(o) \in Nat
<1>1. o.len \in 1 .. MaxQLen /\ o.size \in Nat /\ o.id \in Int /\ EntrySize(o) <= MaxData
  BY OptionsAssumption, FreeListAssumption DEF OutputRejected, Number, EntrySize
<1>2. UIntSize \in Nat /\ UIntSize > 0 /\ MsgHdr \in Nat /\ MaxData \in Nat /\ MaxQLen \in Nat
  BY ConfigureAssumption, FreeListAssumption
<1>3. MsgHdr + o.size \in Nat
  BY <1>1, <1>2
<1>4. EntrySize(o) \in Nat
  BY <1>2, <1>3 DEF EntrySize
<1>5. Header + EntrySize(o) \in Nat /\ o.len \in Nat
  BY <1>1, <1>2, <1>4 DEF Header
<1>6. (Header + EntrySize(o)) * o.len \in Nat
  BY <1>5
<1> QED
  BY <1>1, <1>2, <1>4, <1>6 DEF OutputBlock

\* processArgs and main end while no queue is under construction.
LEMMA EndKeepsMemory ==
  ASSUME OneQueueAtATime, NEW how \in {"failed", "aborted", "ready"}, End(how), pc = "idle"
  PROVE  OneQueueAtATime'
<1>1. Building'
  BY StutterKeepsBuilding DEF End, OneQueueAtATime
<1> QED
  BY <1>1 DEF End, OneQueueAtATime, vars

\* processArgs and what it calls build one queue at a time.
LEMMA OneQueueStep == OneQueueAtATime /\ [ConfigNext]_<<args, vars>> => OneQueueAtATime'
<1> SUFFICES ASSUME OneQueueAtATime, [ConfigNext]_<<args, vars>> PROVE OneQueueAtATime'
  OBVIOUS
<1>1. phase = "options" => pc = "idle"
  BY DEF OneQueueAtATime
<1>2. ASSUME UNCHANGED vars PROVE Building' /\ pc' = pc
  BY <1>2, StutterKeepsBuilding DEF OneQueueAtATime, vars
<1>3. CASE Usage \/ EndOptions
  <2>1. End("failed") \/ End("ready")
    BY <1>3 DEF Usage, EndOptions
  <2> QED
    BY <1>1, <1>3, <2>1, EndKeepsMemory DEF Usage, EndOptions
<1>4. ASSUME NEW o \in InputOptions, AddInput(o) PROVE OneQueueAtATime'
  <2>1. CASE End("failed")
    BY <1>1, <1>4, <2>1, EndKeepsMemory DEF AddInput
  <2>2. CASE ~End("failed")
    <3>1. UNCHANGED <<phase, todo, vars>>
      BY <1>4, <2>2 DEF AddInput
    <3> QED
      BY <1>2, <3>1 DEF OneQueueAtATime
  <2> QED
    BY <2>1, <2>2
<1>5. ASSUME NEW o \in OutputOptions, AddOutput(o) PROVE OneQueueAtATime'
  <2>1. CASE End("failed") \/ End("aborted")
    BY <1>1, <1>5, <2>1, EndKeepsMemory DEF AddOutput
  <2>2. CASE ~(End("failed") \/ End("aborted"))
    <3>1. /\ ~OutputRejected(o) /\ o.len # 0 /\ phase' = "output" /\ todo' = todo
          /\ Allocate(o.len, EntrySize(o), OutputBlock(o))
      BY <1>5, <2>2 DEF AddOutput
    <3>2. Building' /\ pc' = "first"
      BY <3>1, OutputSizes, AllocateGives
    <3> QED
      BY <3>1, <3>2 DEF OneQueueAtATime
  <2> QED
    BY <2>1, <2>2
<1>6. ASSUME NEW o \in WorkerOptions, AddWorker(o) PROVE OneQueueAtATime'
  <2>1. CASE End("failed") \/ End("aborted")
    BY <1>1, <1>6, <2>1, EndKeepsMemory DEF AddWorker
  <2>2. CASE ~(End("failed") \/ End("aborted"))
    <3>1. phase = "options" /\ phase' = "queues" /\ todo' = GroupsRead(o.spec) /\ UNCHANGED vars
      BY <1>6, <2>2 DEF AddWorker
    <3>2. GroupsRead(o.spec) \in Seq(Groups)
      BY GroupsReadType DEF Specs
    <3> QED
      BY <1>1, <1>2, <3>1, <3>2 DEF OneQueueAtATime
  <2> QED
    BY <2>1, <2>2
<1>7. CASE FinishOutput
  BY <1>7, LeaveGives DEF FinishOutput, OneQueueAtATime
<1>8. CASE InitQueue
  <2>1. Building' /\ pc # "idle" /\ UNCHANGED <<phase, todo>>
    BY <1>8, StepKeepsBuilding
    DEF InitQueue, OneQueueAtATime, args, Next, FirstNode, MiddleNode, FinalNode
  <2>2. pc' # "idle"
    BY <1>8 DEF InitQueue, Next, FirstNode, MiddleNode, FinalNode
  <2> QED
    BY <2>1, <2>2 DEF OneQueueAtATime
<1>9. CASE AllocateFails
  BY <1>9, EndKeepsMemory DEF AllocateFails
<1>10. CASE BuildQueue
  <2> DEFINE q == Head(todo)
  <2>1. /\ phase = "queues" /\ pc = "idle"
        /\ IF q.len = 0 THEN End("aborted")
           ELSE Allocate(q.len, q.size, (Header + q.size) * q.len) /\ UNCHANGED args
    BY <1>10 DEF BuildQueue
  <2>2. q \in Groups
    BY <1>10, HeadTailProperties DEF BuildQueue, OneQueueAtATime
  <2>3. CASE q.len = 0
    BY <2>1, <2>3, EndKeepsMemory
  <2>4. CASE q.len # 0
    <3>1. q.len \in 1 .. MaxQLen /\ q.size \in 0 .. MaxData
      BY <2>2, <2>4, FreeListAssumption DEF Groups
    <3>2. (Header + q.size) * q.len \in Nat
      <4>1. Header + q.size \in Nat /\ q.len \in Nat
        BY <3>1, FreeListAssumption DEF Header
      <4> QED
        BY <4>1
    <3>3. Building' /\ pc' = "first"
      BY <2>1, <2>4, <3>1, <3>2, AllocateGives
    <3>4. UNCHANGED <<phase, todo>> /\ todo # << >>
      BY <1>10, <2>1, <2>4 DEF args, BuildQueue
    <3> QED
      BY <2>1, <3>3, <3>4 DEF OneQueueAtATime
  <2> QED
    BY <2>3, <2>4
<1>11. CASE StoreQueue
  BY <1>11, LeaveGives DEF StoreQueue, OneQueueAtATime
<1>12. CASE NextGroup
  <2>1. Tail(todo) \in Seq(Groups)
    BY <1>12, HeadTailProperties DEF NextGroup, OneQueueAtATime
  <2> QED
    BY <1>2, <1>12, <2>1 DEF NextGroup, OneQueueAtATime
<1>13. CASE FinishWorker
  <2>1. CASE End("failed") \/ End("aborted")
    BY <1>13, <2>1, EndKeepsMemory DEF FinishWorker
  <2>2. CASE ~(End("failed") \/ End("aborted"))
    <3>1. phase' = "options" /\ pc = "idle" /\ UNCHANGED <<todo, vars>>
      BY <1>13, <2>2 DEF FinishWorker
    <3> QED
      BY <1>2, <3>1 DEF OneQueueAtATime
  <2> QED
    BY <2>1, <2>2
<1>14. CASE UNCHANGED <<args, vars>>
  BY <1>2, <1>14 DEF args, OneQueueAtATime
<1> QED
  BY <1>3, <1>4, <1>5, <1>6, <1>7, <1>8, <1>9, <1>10, <1>11, <1>12, <1>13, <1>14
  DEF ConfigNext

\* No queue is under construction at the start.
LEMMA OneQueueInit == ConfigInit => OneQueueAtATime
BY NoQueueBuilding DEF ConfigInit, OneQueueAtATime, NoQueue, NoWork

\* queue_init works on one queue at a time, on a block that is its own.
THEOREM OneQueueInvariant == ConfigSpec => []OneQueueAtATime
<1> QED
  BY OneQueueInit, OneQueueStep, PTL DEF ConfigSpec

\* On memory that was zero, every queue the options make has an empty list that
\* is one: entries of the queue in order, ended by NULL.
THEOREM ZeroedLists == ConfigSpec => []ZeroedListIsPrefix
<1>1. OneQueueAtATime => ZeroedListIsPrefix
  BY DEF OneQueueAtATime, Building
<1> QED
  BY <1>1, OneQueueInvariant, PTL

\* Every queue of one entry, or whose entries have no data, starts with all its
\* entries on the empty list, whatever malloc returned.
THEOREM CompleteLists == ConfigSpec => []CompleteWhenStridesAgree
<1>1. OneQueueAtATime => CompleteWhenStridesAgree
  BY DEF OneQueueAtATime, Building
<1> QED
  BY <1>1, OneQueueInvariant, PTL

\* queue_init writes nothing outside of the block its caller allocated, if that
\* has room for the entries.
THEOREM NoWriteOutsideBlock == ConfigSpec => WritesInsideBlock
<1> DEFINE Inside ==
      block >= Needed /\ pc \in {"first", "middle"} =>
        \A a \in Memory : a > block => mem'[a] = mem[a]
<1>1. OneQueueAtATime /\ [ConfigNext]_<<args, vars>> => [Inside]_vars
  <2> SUFFICES ASSUME OneQueueAtATime, [ConfigNext]_<<args, vars>>,
                      block >= Needed, pc \in {"first", "middle"},
                      NEW a \in Memory, a > block
               PROVE  mem'[a] = mem[a]
    OBVIOUS
  <2>1. phase # "options"
    BY DEF OneQueueAtATime
  <2>2. CASE InitQueue
    BY <2>2, StepWritesInside DEF InitQueue, OneQueueAtATime
  <2>3. CASE ~InitQueue
    <3>1. mem' = mem
      BY <2>1, <2>3 DEF ConfigNext, Usage, EndOptions, AddInput, AddOutput, AddWorker,
            FinishOutput, Leave, AllocateFails, BuildQueue, StoreQueue, NextGroup,
            FinishWorker, vars
    <3> QED
      BY <3>1
  <2> QED
    BY <2>2, <2>3
<1> QED
  BY <1>1, OneQueueInvariant, PTL DEF ConfigSpec, WritesInsideBlock

-----------------------------------------------------------------------------
(***************************************************************************)
(* The tables.                                                             *)
(***************************************************************************)

\* A table stays free of duplicates when an object with a new id is added.
LEMMA AppendDistinct ==
  ASSUME NEW S, NEW t \in Seq(S), NEW x \in S, Distinct(t),
         \A n \in DOMAIN t : t[n].id # x.id
  PROVE  /\ Append(t, x) \in Seq(S)
         /\ DOMAIN Append(t, x) = DOMAIN t \cup {Len(t) + 1}
         /\ Append(t, x)[Len(t) + 1] = x
         /\ \A n \in DOMAIN t : Append(t, x)[n] = t[n]
         /\ Distinct(Append(t, x))
<1> DEFINE u == Append(t, x)
<1>1. /\ Len(t) \in Nat /\ DOMAIN t = 1 .. Len(t)
      /\ u \in Seq(S) /\ Len(u) = Len(t) + 1 /\ u[Len(t) + 1] = x
      /\ \A n \in 1 .. Len(t) : u[n] = t[n]
  BY LenProperties, AppendProperties
<1>2. DOMAIN u = 1 .. Len(t) + 1
  BY <1>1, LenProperties
<1>3. DOMAIN u = DOMAIN t \cup {Len(t) + 1}
  BY <1>1, <1>2
<1> HIDE DEF u
<1>4. Distinct(u)
  BY <1>1, <1>3 DEF Distinct
<1> QED
  BY <1>1, <1>3, <1>4 DEF u

\* What 16 bits keep of a field
LEMMA FieldRange ==
  ASSUME NEW x, Number(x)
  PROVE  Field(x) \in Ids
<1>1. IdNull \in Ids
  BY ConfigureAssumption DEF IdNull, Ids
<1> QED
  BY <1>1, ShortRange DEF Field, Number

\* The entries of an output hold its messages unless a size overflows.
LEMMA SizesHold ==
  ASSUME NEW o, o.size \in Nat, o.len \in Nat \ {0}
  PROVE  HoldsMessages(o, EntrySize(o), OutputBlock(o))
<1> SUFFICES ASSUME (Header + MsgHdr + o.size) * o.len < UIntSize
             PROVE  /\ EntrySize(o) >= MsgHdr + o.size
                    /\ OutputBlock(o) >= (Header + EntrySize(o)) * o.len
  BY DEF HoldsMessages
<1> DEFINE size == MsgHdr + o.size
           all  == (Header + size) * o.len
<1>1. /\ UIntSize \in Nat /\ UIntSize > 0 /\ MsgHdr \in Nat /\ Header = 2
      /\ size \in Nat /\ Header + size \in Nat /\ Header + MsgHdr + o.size = Header + size
  BY ConfigureAssumption DEF Header
<1>2. all < UIntSize /\ all \in Nat
  BY <1>1
<1>3. Header + size <= all
  <2>1. (Header + size) * 1 <= (Header + size) * o.len
    BY <1>1, ProductOrder
  <2> QED
    BY <1>1, <2>1
<1>4. size % UIntSize = size
  <2>1. size < UIntSize
    BY <1>1, <1>2, <1>3
  <2> HIDE DEF size
  <2> QED
    BY <1>1, <2>1
<1>5. EntrySize(o) = size
  BY <1>4 DEF EntrySize
<1>6. all % UIntSize = all
  <2> HIDE DEF all
  <2> QED
    BY <1>1, <1>2
<1>7. OutputBlock(o) = all
  BY <1>5, <1>6 DEF OutputBlock
<1> QED
  BY <1>1, <1>2, <1>5, <1>7

\* A worker keeps its output when an output is added.
LEMMA ResolvedKept ==
  ASSUME NEW w, Resolved(w), DOMAIN outputs \subseteq DOMAIN outputs',
         \A n \in DOMAIN outputs : outputs'[n] = outputs[n]
  PROVE  Resolved(w)'
BY DEF Resolved

\* What a step keeps that leaves a table as it is
LEMMA InputsKept ==
  ASSUME InputTable, inputs' = inputs
  PROVE  InputTable'
BY DEF InputTable

\* The outputs stay well-formed when none is added.
LEMMA OutputsKept ==
  ASSUME OutputTable, outputs' = outputs
  PROVE  OutputTable'
<1>1. \A n \in DOMAIN outputs' :
        HoldsMessages(outputs'[n], outputs'[n].data, outputs'[n].block)
  BY DEF OutputTable
<1>2. Distinct(outputs')
  BY DEF OutputTable
<1>3. outputs' \in Seq(OutputObjects)
  BY DEF OutputTable
<1> QED
  BY <1>1, <1>2, <1>3 DEF OutputTable, Distinct, HoldsMessages

\* The workers stay well-formed, and their outputs found, when outputs are added.
LEMMA WorkersKept ==
  ASSUME WorkerTable, workers' = workers, DOMAIN outputs \subseteq DOMAIN outputs',
         \A n \in DOMAIN outputs : outputs'[n] = outputs[n]
  PROVE  WorkerTable'
<1>1. ASSUME NEW n \in DOMAIN workers' PROVE Resolved(workers[n])'
  <2>1. PICK w : w = workers[n]
    OBVIOUS
  <2>2. Resolved(w)'
    BY <2>1, ResolvedKept DEF WorkerTable
  <2> QED
    BY <2>1, <2>2 DEF Resolved
<1>2. Distinct(workers')
  BY DEF WorkerTable
<1>3. Distinct(workers)'
  BY <1>2 DEF Distinct
<1> QED
  BY <1>1, <1>3 DEF WorkerTable

\* The three tables stay well-formed when nothing is added to them.
LEMMA TablesKept ==
  ASSUME InputTable, OutputTable, WorkerTable, UNCHANGED <<inputs, outputs, workers>>
  PROVE  InputTable' /\ OutputTable' /\ WorkerTable'
BY InputsKept, OutputsKept, WorkersKept

\* All tables are empty at the start.
LEMMA ObjectsInit == ConfigInit => Objects
<1> SUFFICES ASSUME ConfigInit PROVE Objects
  OBVIOUS
<1>1. /\ phase = "options" /\ inputs = << >> /\ outputs = << >> /\ workers = << >>
      /\ queues = << >> /\ qi = 0 /\ outside = FALSE
  BY DEF ConfigInit, NoWork
<1>2. << >> \in Seq(InputObjects) /\ << >> \in Seq(OutputObjects)
      /\ << >> \in Seq(WorkerObjects) /\ << >> \in Seq(Groups)
      /\ Len(<< >>) = 0 /\ DOMAIN << >> = {}
  BY EmptySeq
<1>3. 0 \in Ids /\ MaxInputs \in Nat
  BY ConfigureAssumption DEF Ids
<1>4. InputTable
  BY <1>1, <1>2, <1>3 DEF InputTable
<1>5. OutputTable
  BY <1>1, <1>2 DEF OutputTable, Distinct
<1>6. WorkerTable
  BY <1>1, <1>2 DEF WorkerTable, Distinct
<1>7. WorkInProgress
  BY <1>1 DEF WorkInProgress
<1> QED
  BY <1>1, <1>2, <1>3, <1>4, <1>5, <1>6, <1>7 DEF Objects

\* An end leaves everything as it is.
LEMMA EndKeepsObjects ==
  ASSUME Objects, NEW how \in {"failed", "aborted", "ready"}, End(how)
  PROVE  Objects'
<1>1. UNCHANGED <<inputs, outputs, workers, qi, outside, queues>> /\ phase' = how
  BY DEF End
<1>2. InputTable' /\ OutputTable' /\ WorkerTable'
  BY <1>1, TablesKept DEF Objects
<1> QED
  BY <1>1, <1>2 DEF Objects, WorkInProgress

\* -i: an input gets the next number.
LEMMA AddInputKeeps ==
  ASSUME Objects, phase = "options", NEW o \in InputOptions, AddInput(o), ~End("failed")
  PROVE  Objects'
<1> DEFINE x == [id |-> Short(Len(inputs)), port |-> o.port]
<1>1. /\ inputs' = Append(inputs, x) /\ Len(inputs) < MaxInputs
      /\ UNCHANGED <<phase, outputs, workers, qi, outside, queues>>
  BY DEF AddInput
<1>2. inputs \in Seq(InputObjects) /\ Len(inputs) \in Nat /\ MaxInputs \in Nat
  BY ConfigureAssumption, LenProperties DEF Objects, InputTable
<1>3. x \in InputObjects
  BY <1>2, ShortRange DEF InputObjects
<1>4. InputTable'
  BY <1>1, <1>2, <1>3, AppendProperties DEF InputTable
<1>5. OutputTable' /\ WorkerTable'
  BY <1>1, OutputsKept, WorkersKept DEF Objects
<1> QED
  BY <1>1, <1>4, <1>5 DEF Objects, WorkInProgress

\* -o: an accepted output is built from the sizes it names.
LEMMA AddOutputKeeps ==
  ASSUME Objects, NEW o \in OutputOptions, AddOutput(o), ~End("failed"), ~End("aborted")
  PROVE  Objects'
<1>1. /\ ~OutputRejected(o) /\ o.len # 0
      /\ phase' = "output" /\ work' = [id |-> Short(o.id), size |-> o.size, len |-> o.len]
      /\ data' = EntrySize(o) /\ block' = OutputBlock(o)
      /\ UNCHANGED <<inputs, outputs, workers, qi, outside, queues>>
  BY DEF AddOutput, Allocate
<1>2. o.len \in 1 .. MaxQLen /\ o.size \in Nat /\ o.id \in Int
  BY <1>1, OutputSizes
<1>3. work' \in [id : Ids, size : Nat, len : 1 .. MaxQLen]
  BY <1>1, <1>2, ShortRange
<1>4. \A n \in DOMAIN outputs : outputs[n].id # work'.id
  BY <1>1 DEF OutputRejected, Defined
<1>5. HoldsMessages(o, EntrySize(o), OutputBlock(o))
  BY <1>2, SizesHold, FreeListAssumption
<1>6. HoldsMessages(work, data, block)'
  BY <1>1, <1>5 DEF HoldsMessages
<1>7. InputTable' /\ OutputTable' /\ WorkerTable'
  BY <1>1, TablesKept DEF Objects
<1> QED
  BY <1>1, <1>3, <1>4, <1>6, <1>7 DEF Objects, WorkInProgress

\* An output is complete when its queue is.
LEMMA FinishOutputKeeps ==
  ASSUME OneQueueAtATime, Objects, FinishOutput
  PROVE  Objects'
<1> DEFINE x == [id |-> work.id, size |-> work.size, len |-> work.len,
                 data |-> data, block |-> block]
<1>1. /\ phase = "output" /\ outputs' = Append(outputs, x) /\ phase' = "options"
      /\ UNCHANGED <<inputs, workers, qi, outside, queues>>
  BY DEF FinishOutput
<1>2. /\ work \in [id : Ids, size : Nat, len : 1 .. MaxQLen]
      /\ \A n \in DOMAIN outputs : outputs[n].id # work.id
      /\ HoldsMessages(work, data, block)
  BY <1>1 DEF Objects, WorkInProgress
<1>3. data \in Nat /\ block \in Nat
  BY FreeListAssumption DEF OneQueueAtATime, Building, TypeOK
<1>4. x \in OutputObjects
  BY <1>2, <1>3 DEF OutputObjects
<1>5. x.id = work.id /\ HoldsMessages(x, x.data, x.block)
  BY <1>2 DEF HoldsMessages
<1> HIDE DEF x
<1>6. outputs \in Seq(OutputObjects) /\ Distinct(outputs)
  BY DEF Objects, OutputTable
<1>7. /\ outputs' \in Seq(OutputObjects) /\ Distinct(outputs)'
      /\ DOMAIN outputs' = DOMAIN outputs \cup {Len(outputs) + 1}
      /\ outputs'[Len(outputs) + 1] = x
      /\ \A n \in DOMAIN outputs : outputs'[n] = outputs[n]
  BY <1>1, <1>2, <1>4, <1>5, <1>6, AppendDistinct DEF Distinct
<1>8. OutputTable'
  <2>1. \A n \in DOMAIN outputs' :
          HoldsMessages(outputs'[n], outputs'[n].data, outputs'[n].block)
    BY <1>5, <1>7 DEF Objects, OutputTable
  <2> QED
    BY <1>7, <2>1 DEF OutputTable, HoldsMessages
<1>9. WorkerTable'
  BY <1>1, <1>7, WorkersKept DEF Objects
<1>10. InputTable'
  BY <1>1 DEF Objects, InputTable
<1> QED
  BY <1>1, <1>8, <1>9, <1>10 DEF Objects, WorkInProgress

\* The checks of addWorker are still true when the worker is added.
LEMMA AddWorkerKeeps ==
  ASSUME Objects, NEW o \in WorkerOptions, AddWorker(o), ~End("failed"), ~End("aborted")
  PROVE  Objects'
<1> DEFINE x == [id    |-> Short(o.id),
                 spec  |-> o.spec,
                 numqs |-> NumQs(GroupsRead(o.spec)),
                 oid   |-> IF o.out = None THEN IdNull ELSE Field(o.out.oid),
                 owid  |-> IF o.out = None THEN IdNull ELSE Field(o.out.owid),
                 oqid  |-> IF o.out = None THEN IdNull ELSE Field(o.out.qid)]
<1>1. /\ ~WorkerRejected(o) /\ ParseQSpec(o.spec).outcome # "crashed"
      /\ phase' = "queues" /\ work' = x
      /\ UNCHANGED <<inputs, outputs, workers, qi, outside, queues>>
  BY DEF AddWorker
<1>2. /\ o.id \in Int /\ ~Defined(workers, o.id)
      /\ o.out # None => QidValid(Field(o.out.qid))
  BY <1>1, OptionsAssumption DEF WorkerRejected, Number
<1>3. x.id \in Ids
  BY <1>2, ShortRange
<1>4. {x.oid, x.owid, x.oqid} \subseteq Ids
  <2>1. IdNull \in Ids
    BY ConfigureAssumption DEF IdNull, Ids
  <2>2. CASE o.out = None
    BY <2>1, <2>2
  <2>3. CASE o.out # None
    <3>1. Number(o.out.oid) /\ Number(o.out.owid) /\ Number(o.out.qid)
      BY <2>3, OptionsAssumption
    <3> QED
      BY <2>3, <3>1, FieldRange
  <2> QED
    BY <2>2, <2>3
<1>5. x.spec \in Specs
  BY DEF Specs
<1>6. \A n \in DOMAIN workers : workers[n].id # x.id
  BY <1>2 DEF Defined
<1>7. x.oid # IdNull => QidValid(x.oqid)
  BY <1>2
<1> HIDE DEF x
<1>8. WorkInProgress'
  <2>1. (work.oid # IdNull => QidValid(work.oqid))'
    BY <1>1, <1>7 DEF QidValid, IdNull
  <2> QED
    BY <1>1, <1>3, <1>4, <1>5, <1>6, <2>1 DEF WorkInProgress
<1>9. InputTable' /\ OutputTable' /\ WorkerTable'
  BY <1>1, TablesKept DEF Objects
<1> QED
  BY <1>1, <1>8, <1>9 DEF Objects

\* The steps of worker_new but the last
LEMMA BuildingKeeps ==
  ASSUME OneQueueAtATime, Objects, phase = "queues", phase' = "queues",
         UNCHANGED <<inputs, outputs, workers, work>>,
         qi' \in Ids, outside' \in BOOLEAN, queues' \in Seq(Groups)
  PROVE  Objects'
<1>1. InputTable' /\ OutputTable' /\ WorkerTable'
  BY TablesKept DEF Objects
<1>2. (work.oid # IdNull => QidValid(work.oqid))'
  BY DEF Objects, WorkInProgress, QidValid, IdNull
<1>3. WorkInProgress'
  BY <1>2 DEF Objects, WorkInProgress
<1> QED
  BY <1>1, <1>3 DEF Objects

\* worker_new stores one queue after the other in the worker's array.
LEMMA StoreQueueKeeps ==
  ASSUME OneQueueAtATime, Objects, StoreQueue
  PROVE  Objects'
<1>1. /\ phase = "queues" /\ phase' = "queues" /\ qi' = Short(qi + 1)
      /\ UNCHANGED <<inputs, outputs, workers, work>>
      /\ \/ queues' = Append(queues, Head(todo)) /\ outside' = outside
         \/ outside' = TRUE /\ queues' = queues
  BY DEF StoreQueue
<1>2. qi' \in Ids
  BY <1>1, ShortRange, ConfigureAssumption DEF Objects, Ids
<1>3. pc # "idle"
  BY DEF StoreQueue, Leave
<1>4. Head(todo) \in Groups
  BY <1>1, <1>3, HeadTailProperties DEF OneQueueAtATime
<1>5. outside' \in BOOLEAN /\ queues' \in Seq(Groups)
  <2>1. queues \in Seq(Groups) /\ outside \in BOOLEAN
    BY DEF Objects
  <2>2. Append(queues, Head(todo)) \in Seq(Groups)
    BY <1>4, <2>1, AppendProperties
  <2>3. queues' \in Seq(Groups)
    BY <1>1, <2>1, <2>2
  <2> QED
    BY <1>1, <2>1, <2>3
<1> QED
  BY <1>1, <1>2, <1>5, BuildingKeeps

\* worker_init has found the output, or there is none.
LEMMA FinishWorkerKeeps ==
  ASSUME Objects, FinishWorker, ~End("failed"), ~End("aborted")
  PROVE  Objects'
<1> DEFINE x == [id |-> work.id, numqs |-> work.numqs, queues |-> queues, spec |-> work.spec,
                 oid |-> work.oid, owid |-> work.owid, oqid |-> work.oqid,
                 output |-> IF work.oid = IdNull THEN None ELSE Find(outputs, work.oid)]
<1>1. /\ phase = "queues" /\ work.numqs = qi
      /\ work.oid # IdNull => Find(outputs, work.oid) # None /\ work.owid # IdNull
      /\ workers' = Append(workers, x)
      /\ phase' = "options" /\ qi' = 0 /\ queues' = << >>
      /\ UNCHANGED <<inputs, outputs, outside>>
  BY DEF FinishWorker
<1>2. /\ {work.id, work.oid, work.owid, work.oqid} \subseteq Ids
      /\ work.spec \in Specs
      /\ \A n \in DOMAIN workers : workers[n].id # work.id
      /\ work.oid # IdNull => QidValid(work.oqid)
      /\ qi \in Ids /\ queues \in Seq(Groups)
  BY <1>1 DEF Objects, WorkInProgress
<1>3. work.oid # IdNull => Find(outputs, work.oid) \in DOMAIN outputs
                             /\ outputs[Find(outputs, work.oid)].id = work.oid
  BY <1>1 DEF Find
<1>4. DOMAIN outputs \subseteq Nat
  BY LenProperties DEF Objects, OutputTable
<1>5. x \in WorkerObjects
  BY <1>1, <1>2, <1>3, <1>4 DEF WorkerObjects
<1>6. Resolved(x)
  BY <1>1, <1>2, <1>3 DEF Resolved
<1>7. x.id = work.id
  OBVIOUS
<1> HIDE DEF x
<1>8. workers \in Seq(WorkerObjects) /\ Distinct(workers)
  BY DEF Objects, WorkerTable
<1>9. /\ workers' \in Seq(WorkerObjects) /\ Distinct(workers)'
      /\ DOMAIN workers' = DOMAIN workers \cup {Len(workers) + 1}
      /\ workers'[Len(workers) + 1] = x
      /\ \A n \in DOMAIN workers : workers'[n] = workers[n]
  BY <1>1, <1>2, <1>5, <1>7, <1>8, AppendDistinct DEF Distinct
<1>10. ASSUME NEW n \in DOMAIN workers' PROVE Resolved(workers[n])'
  <2>1. PICK w : w = workers'[n]
    OBVIOUS
  <2>2. Resolved(w)
    BY <1>6, <1>9, <2>1 DEF Objects, WorkerTable
  <2>3. Resolved(w)'
    BY <1>1, <2>2, ResolvedKept
  <2> QED
    BY <2>1, <2>3 DEF Resolved
<1>11. WorkerTable'
  BY <1>9, <1>10 DEF WorkerTable
<1>12. InputTable' /\ OutputTable'
  BY <1>1, InputsKept, OutputsKept DEF Objects
<1>13. 0 \in Ids /\ << >> \in Seq(Groups)
  BY ConfigureAssumption, EmptySeq DEF Ids
<1> QED
  BY <1>1, <1>11, <1>12, <1>13 DEF Objects, WorkInProgress

\* A step that touches none of the tables and no object keeps Objects.
LEMMA NothingMoves ==
  ASSUME Objects,
         UNCHANGED <<phase, inputs, outputs, workers, work, qi, outside, queues, data, block>>
  PROVE  Objects'
<1>1. InputTable' /\ OutputTable' /\ WorkerTable'
  BY TablesKept DEF Objects
<1>2. (phase = "queues" /\ work.oid # IdNull => QidValid(work.oqid))'
  BY DEF Objects, WorkInProgress, QidValid, IdNull
<1>3. phase = "output" => HoldsMessages(work, data, block)'
  BY DEF Objects, WorkInProgress, HoldsMessages
<1>4. WorkInProgress'
  BY <1>2, <1>3 DEF Objects, WorkInProgress
<1> QED
  BY <1>1, <1>4 DEF Objects

\* Every step of processArgs keeps the objects well-formed.
LEMMA ObjectsStep ==
  OneQueueAtATime /\ Objects /\ [ConfigNext]_<<args, vars>> => Objects'
<1> SUFFICES ASSUME OneQueueAtATime, Objects, [ConfigNext]_<<args, vars>> PROVE Objects'
  OBVIOUS
<1>1. ASSUME NEW how \in {"failed", "aborted", "ready"}, End(how) PROVE Objects'
  BY <1>1, EndKeepsObjects
<1>2. CASE Usage \/ EndOptions \/ AllocateFails
  <2>1. End("failed") \/ End("ready") \/ End("aborted")
    BY <1>2 DEF Usage, EndOptions, AllocateFails
  <2> QED
    BY <1>1, <2>1
<1>3. ASSUME NEW o \in InputOptions, AddInput(o) PROVE Objects'
  <2>1. phase = "options"
    BY <1>3 DEF AddInput
  <2> QED
    BY <1>1, <1>3, <2>1, AddInputKeeps
<1>4. ASSUME NEW o \in OutputOptions, AddOutput(o) PROVE Objects'
  BY <1>1, <1>4, AddOutputKeeps
<1>5. ASSUME NEW o \in WorkerOptions, AddWorker(o) PROVE Objects'
  BY <1>1, <1>5, AddWorkerKeeps
<1>6. CASE FinishOutput
  BY <1>6, FinishOutputKeeps
<1>7. CASE InitQueue
  <2>1. UNCHANGED <<phase, inputs, outputs, workers, work, qi, outside, queues, data, block>>
    BY <1>7 DEF InitQueue, args, Next, FirstNode, MiddleNode, FinalNode
  <2> QED
    BY <2>1, NothingMoves
<1>8. CASE BuildQueue
  <2>1. CASE End("aborted")
    BY <1>1, <2>1
  <2>2. CASE ~End("aborted")
    <3>1. phase = "queues" /\ UNCHANGED args
      BY <1>8, <2>2 DEF BuildQueue
    <3>2. /\ phase' = "queues" /\ UNCHANGED <<inputs, outputs, workers, work>>
          /\ qi' \in Ids /\ outside' \in BOOLEAN /\ queues' \in Seq(Groups)
      BY <3>1 DEF args, Objects
    <3> QED
      BY <3>1, <3>2, BuildingKeeps
  <2> QED
    BY <2>1, <2>2
<1>9. CASE StoreQueue
  BY <1>9, StoreQueueKeeps
<1>10. CASE NextGroup
  <2>1. /\ phase = "queues" /\ phase' = "queues" /\ UNCHANGED <<inputs, outputs, workers, work>>
        /\ qi' \in Ids /\ outside' \in BOOLEAN /\ queues' \in Seq(Groups)
    BY <1>10 DEF NextGroup, Objects
  <2> QED
    BY <2>1, BuildingKeeps
<1>11. CASE FinishWorker
  BY <1>1, <1>11, FinishWorkerKeeps
<1>12. CASE UNCHANGED <<args, vars>>
  BY <1>12, NothingMoves DEF args, vars
<1> QED
  BY <1>2, <1>3, <1>4, <1>5, <1>6, <1>7, <1>8, <1>9, <1>10, <1>11, <1>12 DEF ConfigNext

\* The inductive invariant of the tables: what was checked of an option is
\* true of the object that is built from it, until it is added and after.
THEOREM ObjectsInvariant == ConfigSpec => []Objects
<1>1. ConfigInit => Objects
  BY ObjectsInit
<1> QED
  BY <1>1, OneQueueInvariant, ObjectsStep, PTL DEF ConfigSpec

\* OutputsResolved: a worker in the table has the output its option names.
\* worker_init looks it up, and outputs are only ever added.
THEOREM OutputsAreFound == ConfigSpec => []OutputsResolved
<1>1. Objects => OutputsResolved
  BY DEF Objects, WorkerTable, Resolved, OutputsResolved
<1> QED
  BY <1>1, ObjectsInvariant, PTL

\* OutputEntriesHoldMessages: output_new makes room for a header and a message
\* in every entry, and for all entries in the block, unless a size overflows.
THEOREM MessagesFit == ConfigSpec => []OutputEntriesHoldMessages
<1>1. Objects => OutputEntriesHoldMessages
  BY DEF Objects, OutputTable, HoldsMessages, OutputEntriesHoldMessages
<1> QED
  BY <1>1, ObjectsInvariant, PTL

-----------------------------------------------------------------------------
(***************************************************************************)
(* Queues in place.  While worker_new runs, what it has stored is in order *)
(* and what it has still to do is the rest (StoringInOrder); when it is    *)
(* through, that is a full array.                                          *)
(***************************************************************************)

\* Nothing was stored outside of an array whose counts do not overflow.
OutsideOnlyByOverflow ==
  outside =>
    \/ work # None /\ phase # "output" /\ Overflows(GroupsRead(work.spec))
    \/ \E n \in DOMAIN workers : Overflows(GroupsRead(workers[n].spec))

\* The queues of one worker
Complete(w, groups) ==
  ~Overflows(groups) =>
    /\ Len(w.queues) = w.numqs /\ w.numqs = SumOfCounts(groups)
    /\ \A g \in DOMAIN groups : \A k \in 1 .. groups[g].count :
         InPlace(w.queues, groups, g, k)

WorkersComplete ==
  \A n \in DOMAIN workers : Complete(workers[n], GroupsRead(workers[n].spec))

Placing == StoringInOrder /\ OutsideOnlyByOverflow /\ WorkersComplete

\* The property is what is known of the objects that are done.
LEMMA PlacingImplies == Placing => QueuesInPlace
BY DEF Placing, OutsideOnlyByOverflow, WorkersComplete, Complete, QueuesInPlace

\* A step outside of worker_new, or inside of queue_init, keeps what is stored.
LEMMA NothingStored ==
  ASSUME Placing, pc' # "idle" => pc # "idle" \/ MoreQueues \/ phase # "queues",
         UNCHANGED args
  PROVE  Placing'
<1>1. StoringInOrder'
  <2>1. MoreQueues' <=> MoreQueues
    BY DEF args, MoreQueues
  <2>2. ASSUME NEW groups, NEW g PROVE Reached(groups, g)' <=> Reached(groups, g)
    BY DEF args, Reached
  <2> QED
    BY <2>1, <2>2 DEF args, Placing, StoringInOrder
<1>2. OutsideOnlyByOverflow' /\ WorkersComplete'
  BY DEF args, Placing, OutsideOnlyByOverflow, WorkersComplete
<1> QED
  BY <1>1, <1>2 DEF Placing

\* What is over has nothing under construction that could go on.
LEMMA EndKeepsPlacing ==
  ASSUME Placing, NEW how \in {"failed", "aborted", "ready"}, End(how)
  PROVE  Placing'
BY DEF End, Placing, StoringInOrder, OutsideOnlyByOverflow, WorkersComplete

\* Between two options nothing is under construction.
LEMMA NewOptionPlaces ==
  ASSUME Placing, phase = "options", UNCHANGED <<workers, outside, todo, qdj, qi, queues>>,
         phase' \in {"options", "output"}, phase' = "options" => work' = None
  PROVE  Placing'
BY DEF Placing, StoringInOrder, OutsideOnlyByOverflow, WorkersComplete

\* addWorker: worker_new starts with all groups before it.
LEMMA AddWorkerPlaces ==
  ASSUME OneQueueAtATime, Placing, NEW o \in WorkerOptions, AddWorker(o),
         ~End("failed"), ~End("aborted")
  PROVE  Placing'
<1> DEFINE x == [id    |-> Short(o.id),
                 spec  |-> o.spec,
                 numqs |-> NumQs(GroupsRead(o.spec)),
                 oid   |-> IF o.out = None THEN IdNull ELSE Field(o.out.oid),
                 owid  |-> IF o.out = None THEN IdNull ELSE Field(o.out.owid),
                 oqid  |-> IF o.out = None THEN IdNull ELSE Field(o.out.qid)]
<1>1. /\ ~WorkerRejected(o) /\ phase = "options"
      /\ phase' = "queues" /\ work' = x /\ todo' = GroupsRead(o.spec)
      /\ UNCHANGED <<workers, qdj, qi, outside, queues, pc>>
  BY DEF AddWorker, vars
<1>2. /\ pc = "idle" /\ qdj = 0 /\ qi = 0 /\ queues = << >> /\ work = None
  BY <1>1 DEF OneQueueAtATime, Placing, StoringInOrder
<1>3. PICK groups : groups = GroupsRead(o.spec)
  OBVIOUS
<1>4. o.spec \in Specs /\ groups \in Seq(Groups)
  BY <1>3, GroupsReadType DEF Specs
<1>5. x \in WorkersBegun
  <2>1. {x.oid, x.owid, x.oqid} \subseteq Ids
    <3>1. IdNull \in Ids
      BY ConfigureAssumption DEF IdNull, Ids
    <3>2. CASE o.out = None
      BY <3>1, <3>2
    <3>3. CASE o.out # None
      <4>1. Number(o.out.oid) /\ Number(o.out.owid) /\ Number(o.out.qid)
        BY <3>3, OptionsAssumption
      <4> QED
        BY <3>3, <4>1, FieldRange
    <3> QED
      BY <3>2, <3>3
  <2>2. x.id \in Ids
    BY <1>1, ShortRange, OptionsAssumption DEF WorkerRejected, Number
  <2>3. x.numqs \in Ids
    BY <1>3, <1>4, NumQsIs
  <2> QED
    BY <1>4, <2>1, <2>2, <2>3 DEF WorkersBegun
<1>6. x.spec = o.spec /\ x.numqs = NumQs(groups)
  BY <1>3
<1> HIDE DEF x
<1>7. Reached(groups, Len(groups) - Len(groups))'
  <2>1. Len(groups) \in Nat /\ Len(groups) - Len(groups) = 0 /\ 0 \in 0 .. Len(groups)
    BY <1>4, LenProperties
  <2>2. Len(queues') = 0 /\ qi' = 0 /\ qdj' = 0 /\ todo' = groups
    BY <1>1, <1>2, <1>3
  <2>3. ~Overflows(groups) => Filled(queues', groups, 0, 0)
    BY <1>4, <2>2, QueuesUpToIs DEF Filled
  <2>4. ~Overflows(groups) => (todo' # << >> => 0 <= Head(todo').count)
    <3>1. SUFFICES ASSUME ~Overflows(groups), groups # << >> PROVE 0 <= Head(groups).count
      BY <2>2
    <3>2. Len(groups) >= 1 /\ Head(groups) = groups[1]
      BY <1>4, <3>1, HeadTailProperties, EmptySeq, LenProperties
    <3> QED
      BY <1>4, <3>1, <3>2, SumsGrow, ConfigureAssumption
  <2> QED
    BY <2>1, <2>2, <2>3, <2>4 DEF Reached
<1>8. StoringInOrder'
  BY <1>1, <1>2, <1>3, <1>5, <1>6, <1>7 DEF StoringInOrder
<1>9. OutsideOnlyByOverflow' /\ WorkersComplete'
  BY <1>1, <1>2 DEF Placing, OutsideOnlyByOverflow, WorkersComplete
<1> QED
  BY <1>8, <1>9 DEF Placing

\* What is still to be done of a specification, when there is more of it
LEMMA ReachedGroup ==
  ASSUME NEW groups \in Seq(Groups), NEW g, Reached(groups, g), todo \in Seq(Groups),
         todo # << >>
  PROVE  /\ g + 1 \in 1 .. Len(groups) /\ Head(todo) = groups[g + 1]
         /\ Len(todo) \in Nat \ {0} /\ g \in Nat
<1>1. Len(todo) \in Nat \ {0} /\ Head(todo) = todo[1]
  BY HeadTailProperties, EmptySeq, LenProperties
<1>2. Len(groups) \in Nat
  BY LenProperties
<1> QED
  BY <1>1, <1>2 DEF Reached

\* worker_new: a queue is stored behind the others, in the array.
LEMMA StoreQueuePlaces ==
  ASSUME OneQueueAtATime, Objects, Placing, StoreQueue
  PROVE  Placing'
<1>1. /\ phase = "queues" /\ pc # "idle" /\ pc' = "idle"
      /\ qi' = Short(qi + 1) /\ qdj' = Short(qdj + 1)
      /\ UNCHANGED <<phase, workers, work, todo>>
      /\ IF qi \in 0 .. work.numqs - 1
           THEN queues' = Append(queues, Head(todo)) /\ outside' = outside
           ELSE outside' = TRUE /\ queues' = queues
  BY DEF StoreQueue, Leave
<1>2. PICK groups : groups = GroupsRead(work.spec)
  OBVIOUS
<1>3. PICK g : g = Len(groups) - Len(todo)
  OBVIOUS
<1>4. /\ work \in WorkersBegun /\ work.numqs = NumQs(groups) /\ Reached(groups, g)
      /\ MoreQueues /\ work # None
  BY <1>1, <1>2, <1>3, NoneAssumption DEF Placing, StoringInOrder
<1>5. /\ groups \in Seq(Groups) /\ todo \in Seq(Groups) /\ todo # << >>
      /\ queues \in Seq(Groups)
  <2>1. work.spec \in Specs
    BY <1>4 DEF WorkersBegun
  <2> QED
    BY <1>1, <1>2, <2>1, GroupsReadType DEF OneQueueAtATime, Objects
<1>6. PICK q : q = Head(todo)
  OBVIOUS
<1>7. /\ g + 1 \in 1 .. Len(groups) /\ q = groups[g + 1] /\ q \in Groups
      /\ Len(todo) \in Nat \ {0} /\ g \in Nat /\ g \in 0 .. Len(groups)
  <2>1. Head(todo) \in Groups
    BY <1>5, HeadTailProperties
  <2>2. g \in 0 .. Len(groups)
    BY <1>4 DEF Reached
  <2> QED
    BY <1>4, <1>5, <1>6, <2>1, <2>2, ReachedGroup
<1>8. ASSUME ~Overflows(groups)
      PROVE  /\ Filled(queues, groups, g, qdj) /\ qi = Len(queues) /\ qdj \in Nat
             /\ qdj < q.count /\ q.count \in 0 .. IdMax
             /\ QueuesUpTo(groups)[g] \in Nat
             /\ qi = QueuesUpTo(groups)[g] + qdj
             /\ qi \in 0 .. work.numqs - 1 /\ qi \in 0 .. IdMax - 1
  <2>1. /\ Filled(queues, groups, g, qdj) /\ qi = Len(queues) /\ qdj \in Nat
    BY <1>4, <1>8 DEF Reached
  <2>2. /\ q.count \in 0 .. IdMax
        /\ QueuesUpTo(groups)[g] + q.count <= SumOfCounts(groups)
        /\ QueuesUpTo(groups)[g] \in 0 .. SumOfCounts(groups)
        /\ SumOfCounts(groups) \in 0 .. IdMax
    <3>1. (g + 1) - 1 = g
      BY <1>7
    <3> QED
      BY <1>5, <1>7, <1>8, <3>1, SumsGrow
  <2>3. Short(q.count) = q.count
    BY <2>2, ShortRange, ConfigureAssumption DEF Ids
  <2>4. qdj < q.count
    BY <1>4, <1>6, <2>3 DEF MoreQueues
  <2>5. work.numqs = SumOfCounts(groups)
    BY <1>4, <1>5, <1>8, NumQsIs
  <2>6. qi = QueuesUpTo(groups)[g] + qdj
    BY <2>1 DEF Filled
  <2>7. /\ QueuesUpTo(groups)[g] \in Nat
        /\ qi \in 0 .. work.numqs - 1 /\ qi \in 0 .. IdMax - 1
    <3>1. qdj \in Nat
      BY <2>1
    <3> QED
      BY <2>2, <2>4, <2>5, <2>6, <3>1, ConfigureAssumption
  <2> QED
    BY <2>1, <2>2, <2>4, <2>6, <2>7
<1>9. ASSUME ~Overflows(groups)
      PROVE  /\ queues' = Append(queues, q) /\ outside' = outside
             /\ qi' = qi + 1 /\ qdj' = qdj + 1
  <2>1. qi + 1 \in Ids /\ qdj + 1 \in Ids /\ qi + 1 \in Int /\ qdj + 1 \in Int
    BY <1>8, <1>9, ConfigureAssumption DEF Ids
  <2> QED
    BY <1>1, <1>6, <1>8, <1>9, <2>1, ShortRange
<1>10. ASSUME ~Overflows(groups)
       PROVE  /\ Filled(queues', groups, g, qdj') /\ qi' = Len(queues') /\ qdj' \in Nat
              /\ qdj' <= q.count
  <2>1. /\ Len(queues') = Len(queues) + 1 /\ queues'[Len(queues) + 1] = q
        /\ \A n \in 1 .. Len(queues) : queues'[n] = queues[n]
    BY <1>5, <1>7, <1>9, <1>10, AppendProperties
  <2>2. Len(queues) = QueuesUpTo(groups)[g] + qdj /\ qdj \in Nat /\ Len(queues) \in Nat
    BY <1>5, <1>8, <1>10 DEF Filled
  <2>3. ASSUME NEW h \in 1 .. g, NEW k \in 1 .. groups[h].count
        PROVE  InPlace(queues', groups, h, k)
    <3>1. InPlace(queues, groups, h, k)
      BY <1>8, <1>10 DEF Filled
    <3>2. h \in 1 .. Len(groups) /\ h - 1 \in 0 .. Len(groups) /\ h \in 0 .. Len(groups)
      BY <1>7
    <3>3. /\ QueuesUpTo(groups)[h - 1] \in Nat /\ groups[h].count \in Nat
          /\ QueuesUpTo(groups)[h] = QueuesUpTo(groups)[h - 1] + groups[h].count
      <4>1. SumOfCounts(groups) \in Int
        BY <1>5, <1>10, SumsGrow
      <4> QED
        BY <1>5, <1>10, <3>2, <4>1, SumsGrow, QueuesUpToIs, ConfigureAssumption
    <3>4. QueuesUpTo(groups)[h] <= QueuesUpTo(groups)[g]
      BY <1>5, <1>7, <1>10, <3>2, SumsGrow
    <3>5. QueuesUpTo(groups)[h - 1] + k \in 1 .. Len(queues)
      BY <1>8, <1>10, <2>2, <3>3, <3>4
    <3> QED
      BY <2>1, <3>1, <3>5 DEF InPlace
  <2>4. ASSUME NEW k \in 1 .. qdj + 1
        PROVE  InPlace(queues', groups, g + 1, k)
    <3>1. (g + 1) - 1 = g
      BY <1>7
    <3>2. CASE k = qdj + 1
      <4>1. QueuesUpTo(groups)[g] + k = Len(queues) + 1
        BY <1>8, <1>10, <2>2, <3>2
      <4> QED
        BY <1>7, <2>1, <3>1, <4>1 DEF InPlace
    <3>3. CASE k # qdj + 1
      <4>1. k \in 1 .. qdj
        BY <2>2, <3>3
      <4>2. InPlace(queues, groups, g + 1, k)
        BY <1>8, <1>10, <4>1 DEF Filled
      <4>3. QueuesUpTo(groups)[g] + k \in 1 .. Len(queues)
        BY <1>8, <1>10, <2>2, <4>1
      <4> QED
        BY <2>1, <3>1, <4>2, <4>3 DEF InPlace
    <3> QED
      BY <3>2, <3>3
  <2>5. Len(queues') = QueuesUpTo(groups)[g] + (qdj + 1)
    <3>1. QueuesUpTo(groups)[g] \in Nat
      BY <1>8, <1>10
    <3> QED
      BY <2>1, <2>2, <3>1
  <2>6. Filled(queues', groups, g, qdj + 1)
    BY <2>3, <2>4, <2>5 DEF Filled
  <2> QED
    BY <1>7, <1>8, <1>9, <1>10, <2>1, <2>6 DEF Groups
<1>11. Reached(groups, g)'
  BY <1>1, <1>3, <1>4, <1>5, <1>6, <1>10 DEF Reached
<1>12. StoringInOrder'
  BY <1>1, <1>2, <1>3, <1>4, <1>11 DEF StoringInOrder
<1>13. OutsideOnlyByOverflow'
  <2>1. CASE Overflows(groups)
    BY <1>1, <1>2, <1>4, <2>1 DEF OutsideOnlyByOverflow
  <2>2. CASE ~Overflows(groups)
    BY <1>1, <1>2, <1>9, <2>2 DEF Placing, OutsideOnlyByOverflow
  <2> QED
    BY <2>1, <2>2
<1>14. WorkersComplete'
  BY <1>1 DEF Placing, WorkersComplete
<1> QED
  BY <1>12, <1>13, <1>14 DEF Placing

\* worker_new: a group is done when all its queues are stored.
LEMMA NextGroupPlaces ==
  ASSUME OneQueueAtATime, Placing, NextGroup
  PROVE  Placing'
<1>1. /\ phase = "queues" /\ pc = "idle" /\ todo # << >> /\ ~MoreQueues
      /\ todo' = Tail(todo) /\ qdj' = 0
      /\ UNCHANGED <<phase, workers, work, qi, queues, outside, pc>>
  BY DEF NextGroup, vars
<1>2. PICK groups : groups = GroupsRead(work.spec)
  OBVIOUS
<1>3. PICK g : g = Len(groups) - Len(todo)
  OBVIOUS
<1>4. work \in WorkersBegun /\ work.numqs = NumQs(groups) /\ Reached(groups, g)
  BY <1>1, <1>2, <1>3 DEF Placing, StoringInOrder
<1>5. groups \in Seq(Groups) /\ todo \in Seq(Groups) /\ todo # << >>
  <2>1. work.spec \in Specs
    BY <1>4 DEF WorkersBegun
  <2> QED
    BY <1>1, <1>2, <2>1, GroupsReadType DEF OneQueueAtATime
<1>6. PICK q : q = Head(todo)
  OBVIOUS
<1>7. /\ g + 1 \in 1 .. Len(groups) /\ q = groups[g + 1]
      /\ Len(todo) \in Nat \ {0} /\ g \in Nat
  BY <1>4, <1>5, <1>6, ReachedGroup
<1>8. /\ Len(todo') = Len(todo) - 1
      /\ \A h \in 1 .. Len(todo') : todo'[h] = todo[h + 1]
      /\ todo' \in Seq(Groups)
  BY <1>1, <1>5, HeadTailProperties
<1>9. g + 1 = Len(groups) - Len(todo')
  <2>1. Len(groups) \in Nat
    BY <1>5, LenProperties
  <2> QED
    BY <1>3, <1>7, <1>8, <2>1
<1>10. \A h \in 1 .. Len(todo') : todo'[h] = groups[(g + 1) + h]
  <2> SUFFICES ASSUME NEW h \in 1 .. Len(todo') PROVE todo'[h] = groups[(g + 1) + h]
    OBVIOUS
  <2>1. h + 1 \in 1 .. Len(todo) /\ g + (h + 1) = (g + 1) + h
    <3>1. Len(todo) \in Nat /\ g \in Nat /\ Len(todo') = Len(todo) - 1
      BY <1>7, <1>8
    <3> QED
      BY <3>1
  <2>2. todo[h + 1] = groups[g + (h + 1)]
    BY <1>4, <2>1 DEF Reached
  <2> QED
    BY <1>8, <2>1, <2>2
<1>11. ASSUME ~Overflows(groups)
       PROVE  Filled(queues, groups, g + 1, 0) /\ qi = Len(queues)
  <2>1. /\ Filled(queues, groups, g, qdj) /\ qi = Len(queues)
        /\ qdj \in Nat /\ qdj <= q.count
    BY <1>4, <1>5, <1>6, <1>11 DEF Reached
  <2>2. q.count \in 0 .. IdMax
    BY <1>5, <1>7, <1>11, SumsGrow
  <2>3. Short(q.count) = q.count
    BY <2>2, ShortRange, ConfigureAssumption DEF Ids
  <2>4. qdj = q.count
    BY <1>1, <1>6, <2>1, <2>2, <2>3, ConfigureAssumption DEF MoreQueues
  <2>5. QueuesUpTo(groups)[g + 1] = QueuesUpTo(groups)[g] + qdj
    <3>1. (g + 1) - 1 = g
      BY <1>7
    <3> QED
      BY <1>5, <1>7, <2>4, <3>1, QueuesUpToIs
  <2>6. QueuesUpTo(groups)[g + 1] \in Int
    BY <1>5, <1>7, QueuesUpToIs
  <2>7. \A h \in 1 .. g + 1 : \A k \in 1 .. groups[h].count : InPlace(queues, groups, h, k)
    <3>1. \A h \in 1 .. g + 1 : h \in 1 .. g \/ h = g + 1
      BY <1>7
    <3> QED
      BY <1>7, <2>1, <2>4, <3>1 DEF Filled
  <2>8. Len(queues) = QueuesUpTo(groups)[g + 1] + 0
    BY <2>1, <2>5, <2>6 DEF Filled
  <2> QED
    BY <2>1, <2>7, <2>8 DEF Filled
<1>12. ASSUME ~Overflows(groups), todo' # << >> PROVE 0 <= Head(todo').count
  <2>1. Len(todo') >= 1 /\ Head(todo') = todo'[1]
    BY <1>8, <1>12, HeadTailProperties, EmptySeq, LenProperties
  <2>2. Head(todo') = groups[(g + 1) + 1] /\ (g + 1) + 1 \in 1 .. Len(groups)
    <3>1. Len(groups) \in Nat /\ Len(todo') \in Nat
      BY <1>5, <1>8, LenProperties
    <3> QED
      BY <1>7, <1>9, <1>10, <2>1, <3>1
  <2> QED
    BY <1>5, <1>12, <2>2, SumsGrow, ConfigureAssumption
<1>13. Reached(groups, g + 1)'
  <2>1. g + 1 \in 0 .. Len(groups)
    BY <1>7
  <2> QED
    BY <1>1, <1>9, <1>10, <1>11, <1>12, <2>1 DEF Reached
<1>14. StoringInOrder'
  BY <1>1, <1>2, <1>4, <1>9, <1>13 DEF StoringInOrder
<1>15. OutsideOnlyByOverflow' /\ WorkersComplete'
  BY <1>1 DEF Placing, OutsideOnlyByOverflow, WorkersComplete
<1> QED
  BY <1>14, <1>15 DEF Placing

\* The array is full when worker_init gets it.
LEMMA FinishWorkerPlaces ==
  ASSUME OneQueueAtATime, Objects, Placing, FinishWorker, ~End("failed"), ~End("aborted")
  PROVE  Placing'
<1> DEFINE x == [id |-> work.id, numqs |-> work.numqs, queues |-> queues, spec |-> work.spec,
                 oid |-> work.oid, owid |-> work.owid, oqid |-> work.oqid,
                 output |-> IF work.oid = IdNull THEN None ELSE Find(outputs, work.oid)]
<1>1. /\ phase = "queues" /\ pc = "idle" /\ todo = << >> /\ work.numqs = qi
      /\ workers' = Append(workers, x)
      /\ phase' = "options" /\ work' = None /\ qi' = 0 /\ queues' = << >>
      /\ UNCHANGED <<todo, qdj, outside>>
  BY DEF FinishWorker
<1>2. PICK groups : groups = GroupsRead(work.spec)
  OBVIOUS
<1>3. PICK g : g = Len(groups) - Len(todo)
  OBVIOUS
<1>4. work \in WorkersBegun /\ work.numqs = NumQs(groups) /\ Reached(groups, g)
  BY <1>1, <1>2, <1>3 DEF Placing, StoringInOrder
<1>5. groups \in Seq(Groups)
  BY <1>2, <1>4, GroupsReadType DEF WorkersBegun
<1>6. g = Len(groups) /\ Len(groups) \in Nat /\ DOMAIN groups = 1 .. Len(groups)
  BY <1>1, <1>3, <1>5, EmptySeq, LenProperties
<1>7. x.spec = work.spec /\ x.queues = queues /\ x.numqs = work.numqs
  OBVIOUS
<1> HIDE DEF x
<1>8. Complete(x, groups)
  <2> SUFFICES ASSUME ~Overflows(groups) PROVE Complete(x, groups)
    BY DEF Complete
  <2>1. Filled(queues, groups, Len(groups), qdj) /\ qi = Len(queues)
    BY <1>4, <1>6 DEF Reached
  <2>2. work.numqs = SumOfCounts(groups)
    BY <1>4, <1>5, NumQsIs
  <2> QED
    BY <1>1, <1>6, <1>7, <2>1, <2>2 DEF Complete, Filled
<1>9. GroupsRead(x.spec) = groups
  BY <1>2, <1>7
<1>10. qdj = 0
  BY <1>1, <1>4 DEF Reached
<1>11. /\ DOMAIN workers' = DOMAIN workers \cup {Len(workers) + 1}
       /\ workers'[Len(workers) + 1] = x
       /\ \A n \in DOMAIN workers : workers'[n] = workers[n]
  <2>1. workers \in Seq(WorkerObjects \cup {x})
    <3>1. workers \in Seq(WorkerObjects)
      BY DEF Objects, WorkerTable
    <3> QED
      BY <3>1, LenProperties
  <2> QED
    BY <1>1, <2>1, AppendProperties, LenProperties
<1>12. OutsideOnlyByOverflow'
  <2> SUFFICES ASSUME outside
               PROVE  \E n \in DOMAIN workers' : Overflows(GroupsRead(workers'[n].spec))
    BY <1>1 DEF OutsideOnlyByOverflow
  <2>1. CASE Overflows(groups)
    BY <1>9, <1>11, <2>1
  <2>2. CASE ~Overflows(groups)
    <3>1. PICK n \in DOMAIN workers : Overflows(GroupsRead(workers[n].spec))
      BY <1>2, <2>2 DEF Placing, OutsideOnlyByOverflow
    <3> QED
      BY <1>11, <3>1
  <2> QED
    BY <2>1, <2>2
<1>13. WorkersComplete'
  <2> SUFFICES ASSUME NEW n \in DOMAIN workers'
               PROVE  Complete(workers'[n], GroupsRead(workers'[n].spec))
    BY DEF WorkersComplete
  <2>1. CASE n = Len(workers) + 1
    BY <1>8, <1>9, <1>11, <2>1
  <2>2. CASE n \in DOMAIN workers
    BY <1>11, <2>2 DEF Placing, WorkersComplete
  <2> QED
    BY <1>11, <2>1, <2>2
<1>14. StoringInOrder'
  BY <1>1, <1>10 DEF StoringInOrder
<1> QED
  BY <1>12, <1>13, <1>14 DEF Placing

\* Every step of processArgs and worker_new keeps the queues in place.
LEMMA PlacingStep ==
  OneQueueAtATime /\ Objects /\ Placing /\ [ConfigNext]_<<args, vars>> => Placing'
<1> SUFFICES ASSUME OneQueueAtATime, Objects, Placing, [ConfigNext]_<<args, vars>>
             PROVE  Placing'
  OBVIOUS
<1>1. ASSUME NEW how \in {"failed", "aborted", "ready"}, End(how) PROVE Placing'
  BY <1>1, EndKeepsPlacing
<1>2. CASE Usage \/ EndOptions \/ AllocateFails
  <2>1. End("failed") \/ End("ready") \/ End("aborted")
    BY <1>2 DEF Usage, EndOptions, AllocateFails
  <2> QED
    BY <1>1, <2>1
<1>3. ASSUME NEW o \in InputOptions, AddInput(o) PROVE Placing'
  <2>1. CASE End("failed")
    BY <1>1, <2>1
  <2>2. CASE ~End("failed")
    <3>1. /\ phase = "options" /\ phase' = "options" /\ work' = work
          /\ UNCHANGED <<workers, outside, todo, qdj, qi, queues>>
      BY <1>3, <2>2 DEF AddInput
    <3>2. work = None
      BY <3>1 DEF Placing, StoringInOrder
    <3> QED
      BY <3>1, <3>2, NewOptionPlaces
  <2> QED
    BY <2>1, <2>2
<1>4. ASSUME NEW o \in OutputOptions, AddOutput(o) PROVE Placing'
  <2>1. CASE End("failed") \/ End("aborted")
    BY <1>1, <2>1
  <2>2. CASE ~(End("failed") \/ End("aborted"))
    <3>1. /\ phase = "options" /\ phase' = "output"
          /\ UNCHANGED <<workers, outside, todo, qdj, qi, queues>>
      BY <1>4, <2>2 DEF AddOutput
    <3> QED
      BY <3>1, NewOptionPlaces
  <2> QED
    BY <2>1, <2>2
<1>5. ASSUME NEW o \in WorkerOptions, AddWorker(o) PROVE Placing'
  <2>1. CASE End("failed") \/ End("aborted")
    BY <1>1, <2>1
  <2>2. CASE ~(End("failed") \/ End("aborted"))
    BY <1>5, <2>2, AddWorkerPlaces
  <2> QED
    BY <2>1, <2>2
<1>6. CASE FinishOutput
  <2>1. /\ phase = "output" /\ phase' = "options" /\ work' = None
        /\ UNCHANGED <<workers, outside, todo, qdj, qi, queues>>
    BY <1>6 DEF FinishOutput
  <2> QED
    BY <2>1 DEF Placing, StoringInOrder, OutsideOnlyByOverflow, WorkersComplete
<1>7. CASE InitQueue
  <2>1. UNCHANGED args /\ pc # "idle"
    BY <1>7 DEF InitQueue, Next, FirstNode, MiddleNode, FinalNode
  <2> QED
    BY <2>1, NothingStored
<1>8. CASE BuildQueue
  <2>1. CASE End("aborted")
    BY <1>1, <2>1
  <2>2. CASE ~End("aborted")
    <3>1. MoreQueues /\ UNCHANGED args
      BY <1>8, <2>2 DEF BuildQueue
    <3> QED
      BY <3>1, NothingStored
  <2> QED
    BY <2>1, <2>2
<1>9. CASE StoreQueue
  BY <1>9, StoreQueuePlaces
<1>10. CASE NextGroup
  BY <1>10, NextGroupPlaces
<1>11. CASE FinishWorker
  <2>1. CASE End("failed") \/ End("aborted")
    BY <1>1, <2>1
  <2>2. CASE ~(End("failed") \/ End("aborted"))
    BY <1>11, <2>2, FinishWorkerPlaces
  <2> QED
    BY <2>1, <2>2
<1>12. CASE UNCHANGED <<args, vars>>
  <2>1. UNCHANGED args /\ pc' = pc
    BY <1>12 DEF vars
  <2> QED
    BY <2>1, NothingStored
<1> QED
  BY <1>2, <1>3, <1>4, <1>5, <1>6, <1>7, <1>8, <1>9, <1>10, <1>11, <1>12 DEF ConfigNext

\* QueuesInPlace: unless the counts of its groups overflow, the queues of a
\* worker are stored inside its array, fill it, and lie in the order of the
\* groups: what StoringInOrder says while worker_new goes through them.
THEOREM QueuesAreInPlace == ConfigSpec => []QueuesInPlace
<1>1. ConfigInit => Placing
  <2>1. DOMAIN << >> = {}
    BY EmptySeq
  <2> QED
    BY <2>1 DEF ConfigInit, NoWork, Placing, StoringInOrder, OutsideOnlyByOverflow,
       WorkersComplete
<1>2. ConfigSpec => []Placing
  BY <1>1, OneQueueInvariant, ObjectsInvariant, PlacingStep, PTL DEF ConfigSpec
<1> QED
  BY <1>2, PlacingImplies, PTL

-----------------------------------------------------------------------------
(***************************************************************************)
(* The ids of inputs are numbers of 16 bits that nobody checks: they stay  *)
(* different as long as there are no more than 2^15 inputs.                *)
(***************************************************************************)

\* The n-th input has the id n - 1.
LEMMA InputIdsStep ==
  FewInputs /\ Objects /\ InputIds /\ [ConfigNext]_<<args, vars>> => InputIds'
<1> SUFFICES ASSUME FewInputs, Objects, InputIds, [ConfigNext]_<<args, vars>> PROVE InputIds'
  OBVIOUS
<1>1. ASSUME NEW o \in InputOptions, AddInput(o), ~End("failed") PROVE InputIds'
  <2> DEFINE x == [id |-> Short(Len(inputs)), port |-> o.port]
  <2>1. inputs' = Append(inputs, x) /\ Len(inputs) < MaxInputs
    BY <1>1 DEF AddInput
  <2>2. inputs \in Seq(InputObjects) /\ Len(inputs) \in Nat /\ DOMAIN inputs = 1 .. Len(inputs)
    BY LenProperties DEF Objects, InputTable
  <2>3. Len(inputs) \in Ids
    BY <2>1, <2>2, ConfigureAssumption DEF FewInputs, Ids
  <2>4. x.id = Len(inputs) /\ x \in InputObjects
    BY <2>2, <2>3, ShortRange DEF InputObjects
  <2> HIDE DEF x
  <2>5. /\ inputs' \in Seq(InputObjects) /\ Len(inputs') = Len(inputs) + 1
        /\ inputs'[Len(inputs) + 1] = x
        /\ \A n \in 1 .. Len(inputs) : inputs'[n] = inputs[n]
    BY <2>1, <2>2, <2>4, AppendProperties
  <2>6. DOMAIN inputs' = 1 .. Len(inputs) + 1
    BY <2>5, LenProperties
  <2> QED
    BY <2>2, <2>4, <2>5, <2>6 DEF InputIds
<1>2. CASE inputs' = inputs
  BY <1>2 DEF InputIds
<1>3. ASSUME NEW how, End(how) PROVE inputs' = inputs
  BY <1>3 DEF End
<1>4. CASE \E o \in InputOptions : AddInput(o)
  BY <1>1, <1>2, <1>3, <1>4
<1>5. CASE ~(\E o \in InputOptions : AddInput(o))
  <2>1. inputs' = inputs
    BY <1>3, <1>5 DEF ConfigNext, Usage, EndOptions, AddOutput, AddWorker, FinishOutput,
       InitQueue, AllocateFails, BuildQueue, StoreQueue, NextGroup, FinishWorker, args
  <2> QED
    BY <1>2, <2>1
<1> QED
  BY <1>4, <1>5

\* The ids of the inputs are their places, if there are few enough of them.
LEMMA InputIdsInvariant == FewInputs => (ConfigSpec => []InputIds)
<1> SUFFICES ASSUME FewInputs PROVE ConfigSpec => []InputIds
  OBVIOUS
<1>1. ConfigInit => InputIds
  <2>1. DOMAIN << >> = {}
    BY EmptySeq
  <2> QED
    BY <2>1 DEF ConfigInit, InputIds
<1> QED
  BY <1>1, ObjectsInvariant, InputIdsStep, PTL DEF ConfigSpec

\* IdsAreUnique: no two inputs, no two outputs and no two workers have the same
\* id of 16 bits; that of a worker or an output was looked for in its table.
THEOREM UniqueIds == FewInputs => (ConfigSpec => []IdsAreUnique)
<1> SUFFICES ASSUME FewInputs PROVE ConfigSpec => []IdsAreUnique
  OBVIOUS
<1>1. Objects /\ InputIds => IdsAreUnique
  <2> SUFFICES ASSUME Objects, InputIds PROVE IdsAreUnique
    OBVIOUS
  <2>1. DOMAIN inputs \subseteq Nat
    BY LenProperties DEF Objects, InputTable
  <2>2. Distinct(inputs)
    BY <2>1 DEF InputIds, Distinct
  <2>3. Distinct(outputs) /\ Distinct(workers)
    BY DEF Objects, OutputTable, WorkerTable
  <2> QED
    BY <2>2, <2>3 DEF IdsAreUnique, Distinct
<1> QED
  BY <1>1, ObjectsInvariant, InputIdsInvariant, PTL

\* ConfigTypeOK: every id and every count of queues is a number of 16 bits.
THEOREM ConfigTypeCorrect == FewInputs => (ConfigSpec => []ConfigTypeOK)
<1> SUFFICES ASSUME FewInputs PROVE ConfigSpec => []ConfigTypeOK
  OBVIOUS
<1>1. OneQueueAtATime /\ Objects /\ InputIds => ConfigTypeOK
  <2> SUFFICES ASSUME OneQueueAtATime, Objects, InputIds PROVE ConfigTypeOK
    OBVIOUS
  <2>1. TypeOK
    BY DEF OneQueueAtATime, Building
  <2>2. \A n \in DOMAIN inputs : inputs[n].id \in 0 .. MaxInputs - 1
    <3>1. Len(inputs) \in Nat /\ DOMAIN inputs = 1 .. Len(inputs) /\ Len(inputs) <= MaxInputs
      BY LenProperties DEF Objects, InputTable
    <3> QED
      BY <3>1, ConfigureAssumption DEF InputIds
  <2>3. \A n \in DOMAIN outputs : outputs[n].id \in Ids
    <3>1. \A n \in DOMAIN outputs : outputs[n] \in OutputObjects
      BY LenProperties DEF Objects, OutputTable
    <3> QED
      BY <3>1 DEF OutputObjects
  <2>4. \A n \in DOMAIN workers : {workers[n].id, workers[n].numqs, workers[n].owid} \subseteq Ids
    <3>1. \A n \in DOMAIN workers : workers[n] \in WorkerObjects
      BY LenProperties DEF Objects, WorkerTable
    <3> QED
      BY <3>1 DEF WorkerObjects
  <2> QED
    BY <2>1, <2>2, <2>3, <2>4 DEF Objects, ConfigTypeOK
<1> QED
  BY <1>1, OneQueueInvariant, ObjectsInvariant, InputIdsInvariant, PTL
=============================================================================
