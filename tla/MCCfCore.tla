------------------------------- MODULE MCCfCore -------------------------------
(* A long of two bits, enough for signed and unsigned orders to differ; a stack of
   six half words: an interrupt within an interrupt, or a call and two pushes. *)
EXTENDS CfCore

MCBits == 1 :> 1 @@ 2 :> 1 @@ 4 :> 2
=============================================================================
