--------------------------- MODULE MCOutputQueue ---------------------------
(***************************************************************************)
(* Instances of OutputQueue for TLC.                                       *)
(***************************************************************************)
EXTENDS OutputQueue

MCQueues == {OQ}
=============================================================================
