---------------------------- MODULE MCCometPrune ----------------------------
(* Instances of CometPrune in base 3, so that heights from 3 on have two   *)
(* digits (3 is written 10).                                               *)
EXTENDS CometPrune

(* A node that began with a state sync at height 2 and was killed between  *)
(* the commit of the application and the state.                            *)
MCStarts == {[first |-> 2, height |-> 4, last |-> 3, latest |-> 4]}

(* A young chain and the default number of blocks to keep, which is larger. *)
YoungStarts == {[first |-> 1, height |-> h, last |-> h, latest |-> h] : h \in 3..5}
=============================================================================
