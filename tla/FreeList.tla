------------------------------ MODULE FreeList ------------------------------
(***************************************************************************)
(* queue_init (queue.c) on memory as it is: a block of words fresh from    *)
(* malloc, in which it builds the list of empty entries.  An entry is      *)
(* "next", "len" and its data, so the entries are Stride words apart; but  *)
(* queue_init finds the last one as &(this->entries[qlen-1]), which counts *)
(* in units of the two header words only.                                  *)
(*                                                                         *)
(* A word holds a pointer, a length or data.  NULL and the length 0 are    *)
(* the same word, 0.  What the callers allocate for the entries, "block",  *)
(* is all they need here; Configure has the callers.                       *)
(***************************************************************************)
EXTENDS Integers

CONSTANTS
  MaxQLen,    \* bound: entries of a queue
  MaxData,    \* bound: words of data in an entry (maxentrysize)
  Garbage     \* what memory that is not zero holds: no address, no length

ASSUME FreeListAssumption ==
  /\ MaxQLen \in Nat \ {0}
  /\ MaxData \in Nat
  /\ Garbage \in Int /\ Garbage < 0

NULL   == 0
Header == 2                                  \* sizeof(struct queue_entry)
Memory == 1 .. MaxQLen * (Header + MaxData) + Header

VARIABLES
  qlen,     \* this->qlen
  data,     \* this->maxentrysize
  block,    \* the words allocated for the entries
  fresh,    \* what malloc left in the block
  mem,      \* the block and the words after it
  empty,    \* this->empty
  full,     \* this->full
  i,        \* the loop variable
  pc

vars == <<qlen, data, block, fresh, mem, empty, full, i, pc>>

Stride        == Header + data               \* queue_entrysize
Entry(k)      == 1 + Stride * k              \* queue_getentryi
NextOf(e)     == e                           \* &(e->next)
LenOf(e)      == e + 1                       \* &(e->len)
Needed        == Stride * qlen               \* what the entries take

\* Mutant: one past the end
LastNode_OnePast == 1 + Header * qlen

LastNode == 1 + Header * (qlen - 1)          \* &(this->entries[qlen-1])

\* Mutant: off by one
LoopEnd_All == qlen

LoopEnd == qlen - 1

-----------------------------------------------------------------------------
Init ==
  /\ qlen  \in 1 .. MaxQLen
  /\ data  \in 0 .. MaxData
  /\ block = Needed
  /\ fresh \in {0, Garbage}
  /\ mem   = [a \in Memory |-> fresh]
  /\ empty = fresh
  /\ full  = fresh
  /\ i     = 1
  /\ pc    = "first"

\* The first entry, linked to the second if there is one
FirstNode ==
  /\ pc = "first"
  /\ mem'   = [mem EXCEPT ![LenOf(Entry(0))]  = 0,
                          ![NextOf(Entry(0))] = IF qlen >= 2 THEN Entry(1) ELSE @]
  /\ empty' = Entry(0)
  /\ pc'    = "middle"
  /\ UNCHANGED <<qlen, data, block, fresh, full, i>>

\* for (i = 1; i < qlen-1; i++)
MiddleNode ==
  /\ pc = "middle" /\ i < LoopEnd
  /\ mem' = [mem EXCEPT ![LenOf(Entry(i))] = 0, ![NextOf(Entry(i))] = Entry(i + 1)]
  /\ i'   = i + 1
  /\ UNCHANGED <<qlen, data, block, fresh, empty, full, pc>>

\* Mutant: the full list starts at the last node
FinalNode_FullIsLast ==
  /\ pc = "middle" /\ i >= LoopEnd
  /\ mem'  = [mem EXCEPT ![LenOf(LastNode)] = 0, ![NextOf(LastNode)] = NULL]
  /\ full' = LastNode
  /\ pc'   = "done"
  /\ UNCHANGED <<qlen, data, block, fresh, empty, i>>

\* Mutant: a queue of one entry needs no last node
FinalNode_NotFirst ==
  /\ pc = "middle" /\ i >= LoopEnd
  /\ mem'  = IF qlen = 1 THEN mem
             ELSE [mem EXCEPT ![LenOf(LastNode)] = 0, ![NextOf(LastNode)] = NULL]
  /\ full' = NULL
  /\ pc'   = "done"
  /\ UNCHANGED <<qlen, data, block, fresh, empty, i>>

\* "take care of last node", and the full list
FinalNode ==
  /\ pc = "middle" /\ i >= LoopEnd
  /\ mem'  = [mem EXCEPT ![LenOf(LastNode)] = 0, ![NextOf(LastNode)] = NULL]
  /\ full' = NULL
  /\ pc'   = "done"
  /\ UNCHANGED <<qlen, data, block, fresh, empty, i>>

Next == FirstNode \/ MiddleNode \/ FinalNode

Spec == Init /\ [][Next]_vars

-----------------------------------------------------------------------------
TypeOK ==
  /\ qlen  \in 1 .. MaxQLen
  /\ data  \in 0 .. MaxData
  /\ block \in Nat
  /\ fresh \in {0, Garbage}
  /\ mem   \in [Memory -> Memory \cup {0, Garbage}]
  /\ empty \in {Entry(0), fresh}
  /\ full  \in {NULL, fresh}
  /\ i     \in 1 .. MaxQLen
  /\ pc    \in {"idle", "first", "middle", "done"}

\* The list that starts at this->empty is entries 0 to n-1 in their order.
EmptyListIs(n) ==
  /\ empty = Entry(0)
  /\ \A k \in 0 .. n - 1 :
       mem[NextOf(Entry(k))] = IF k < n - 1 THEN Entry(k + 1) ELSE NULL

\* queue_init puts every entry of the queue on the empty list.
FreeListComplete == pc = "done" => EmptyListIs(qlen)

\* On memory that was zero the empty list may come out short, when the write
\* to the "last node" hits the next pointer of another entry, but it is a
\* list: entries of the queue, in order, ended by NULL.
ZeroedListIsPrefix ==
  pc = "done" /\ fresh = 0 => \E n \in 1 .. qlen : EmptyListIs(n)

\* A queue of one entry, or whose entries have no data, is complete whatever
\* the memory held: there the two ways to find the last entry agree.
CompleteWhenStridesAgree ==
  pc = "done" /\ (qlen = 1 \/ data = 0) => EmptyListIs(qlen)

\* Whichever address the "last node" has, queue_init writes nothing outside
\* the block its callers allocate, if that has room for the entries.
WritesInsideBlock ==
  [][block >= Needed /\ pc \in {"first", "middle"} =>
       \A a \in Memory : a > block => mem'[a] = mem[a]]_vars
=============================================================================
