--------------------------- MODULE MCWorkerQueues ---------------------------
(***************************************************************************)
(* Instances of WorkerQueues for TLC.                                      *)
(***************************************************************************)
EXTENDS WorkerQueues, TLC

CONSTANTS i1, i2

MCQueues == 0 .. NumQs - 1

\* One input thread feeds every queue of the worker (one -i option).
OneInput == (i1 :> Queues)

\* Two input threads with queues of their own.
OwnQueues == (i1 :> {0, 2} @@ i2 :> {1})

\* qidx: any queue; or one that both inputs' entries end up on, and a wild value.
InRange == Queues
OneOrWild == {1, OutOfRange}
=============================================================================
