----------------------------- MODULE EntryPool -----------------------------
(***************************************************************************)
(* What a queue promises its threads, without lists, pointers or           *)
(* compare-and-swap: every entry has one owner at any time, and moves      *)
(*                                                                         *)
(*   empty -> a filler -> full -> the drainer -> empty                     *)
(*                                                                         *)
(* or is lost in the hands of a filler (an input thread whose connection   *)
(* dies in the middle of a message).  A thread holds at most one entry.    *)
(***************************************************************************)
CONSTANTS
  Entries,
  Fillers,    \* the threads that get empty entries and put back full ones
  Drainer     \* the thread that gets full entries and puts back empty ones

VARIABLE owner

vars == <<owner>>

Free(t) == \A e \in Entries : owner[e] # t

Move(e, from, to) == owner[e] = from /\ owner' = [owner EXCEPT ![e] = to]

Init == owner = [e \in Entries |-> "empty"]

GetEmpty(p, e) == Free(p) /\ Move(e, "empty", p)
PutFull(p, e)  == Move(e, p, "full")
Lose(p, e)     == Move(e, p, "lost")
GetFull(e)     == Free(Drainer) /\ Move(e, "full", Drainer)
PutEmpty(e)    == Move(e, Drainer, "empty")

Next ==
  \E e \in Entries :
    \/ \E p \in Fillers : GetEmpty(p, e) \/ PutFull(p, e) \/ Lose(p, e)
    \/ GetFull(e)
    \/ PutEmpty(e)

Spec == Init /\ [][Next]_vars
=============================================================================
