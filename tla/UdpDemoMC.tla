------------------------------- MODULE UdpDemoMC -------------------------------
(* Values for the model checking of UdpDemo. *)
EXTENDS UdpDemo

MCByte == {1}
MCText == <<1>>
===============================================================================
