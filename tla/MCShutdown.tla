----------------------------- MODULE MCShutdown -----------------------------
(***************************************************************************)
(* Instances of Shutdown for TLC.                                          *)
(***************************************************************************)
EXTENDS Shutdown, TLC

CONSTANTS i1, i2, w1, o1

\* The worker has the output.
Chain == (w1 :> o1)

InOrder == [k \in Kinds |-> CASE k = "inputs"  -> <<i1, i2>>
                             [] k = "outputs" -> <<o1>>
                             [] OTHER         -> <<w1>>]
=============================================================================
