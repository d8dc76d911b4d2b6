------------------------------ MODULE ScriptUdpMC ------------------------------
(* Values for the model checking of ScriptUdp. *)
EXTENDS ScriptUdp

MCClients == 0..3
MCByte == 1..2
MCText == <<1, 2>>
===============================================================================
