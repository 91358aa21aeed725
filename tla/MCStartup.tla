----------------------------- MODULE MCStartup -----------------------------
(***************************************************************************)
(* Instances of Startup for TLC.                                           *)
(***************************************************************************)
EXTENDS Startup, TLC

CONSTANTS w1, w2, o1

\* The first worker has an output, the second has none.
Chain == (w1 :> o1 @@ w2 :> None)
Plain == (w1 :> None)
=============================================================================
