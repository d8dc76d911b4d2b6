------------------------------- MODULE TcpDemoMC -------------------------------
(* Values for the model checking of TcpDemo. *)
EXTENDS TcpDemo

MCByte == 1..3
MCRequest == <<1, 2, 3>>
MCPackets == <<<<1>>, <<2>>, <<3>>>>
MCUnrequested == <<3, 2, 1>>

\* The local client finds the server last in its list, others at any address.
MCServerAddrs ==
  [c \in Clients |-> IF c = LocalClient THEN {NumAddrs} ELSE 1..NumAddrs]

\* Shorter texts, for the runs that check liveness.
MCShortRequest == <<1, 2>>
MCShortPackets == <<<<1>>, <<2>>>>
MCShortUnrequested == <<3>>
===============================================================================
