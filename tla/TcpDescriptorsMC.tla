---------------------------- MODULE TcpDescriptorsMC ---------------------------
(* Values for the model checking of TcpDescriptors. *)
EXTENDS TcpDescriptors

MCByte == 1..2
MCRequest == <<1, 2>>
MCPackets == <<<<1>>>>
MCUnrequested == <<2>>

\* The local client is refused at the first address as long as nobody listens,
\* and may then get its connection there or at the second one.
MCServerAddrs == [c \in Clients |-> 1..NumAddrs]
===============================================================================
