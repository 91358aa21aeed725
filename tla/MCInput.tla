------------------------------ MODULE MCInput ------------------------------
(***************************************************************************)
(* Instances of Input for TLC.                                             *)
(***************************************************************************)
EXTENDS Input, TLC

CONSTANTS c1, c2

TwoAndOne == (c1 :> 2 @@ c2 :> 1)
OneEach   == (c1 :> 1 @@ c2 :> 1)
Two       == (c1 :> 2)
=============================================================================
