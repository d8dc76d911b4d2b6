------------------------------- MODULE GoLinesMC -------------------------------
(* Values for the model checking of GoLines. *)
EXTENDS GoLines

MCByte == 1..6
===============================================================================
