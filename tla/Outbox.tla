------------------------------- MODULE Outbox -------------------------------
(***************************************************************************)
(* What an output promises its worker, without entries, lists, semaphore   *)
(* or threads: a message that is put is pending until it is sent, or       *)
(* dropped because the peer is gone, and has only one of these fates, only *)
(* once.  The order is not promised: the full list is a stack.             *)
(***************************************************************************)
EXTENDS Sequences

CONSTANT Messages

VARIABLES pending, wire, dropped, gone

vars == <<pending, wire, dropped, gone>>

\* A message that was never put
Fresh(m) ==
  /\ m \notin pending \cup dropped
  /\ \A i \in DOMAIN wire : wire[i] # m

Init ==
  /\ pending = {}
  /\ wire    = << >>
  /\ dropped = {}
  /\ gone    = FALSE

Put(m) ==
  /\ Fresh(m)
  /\ pending' = pending \cup {m}
  /\ UNCHANGED <<wire, dropped, gone>>

Send(m) ==
  /\ m \in pending
  /\ ~gone
  /\ pending' = pending \ {m}
  /\ wire' = Append(wire, m)
  /\ UNCHANGED <<dropped, gone>>

Drop(m) ==
  /\ m \in pending
  /\ gone
  /\ pending' = pending \ {m}
  /\ dropped' = dropped \cup {m}
  /\ UNCHANGED <<wire, gone>>

PeerGoes ==
  /\ ~gone
  /\ gone' = TRUE
  /\ UNCHANGED <<pending, wire, dropped>>

Next ==
  \/ \E m \in Messages : Put(m) \/ Send(m) \/ Drop(m)
  \/ PeerGoes

Spec == Init /\ [][Next]_vars
=============================================================================
