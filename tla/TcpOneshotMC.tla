------------------------------ MODULE TcpOneshotMC -----------------------------
(* Values for the model checking of TcpOneshot. *)
EXTENDS TcpOneshot

MCByte == 1..2
MCText == <<1, 2, 1>>
MCShortText == <<1, 2>>

\* The local client finds the server last in its list, the other one first.
MCServerAddrs ==
  [c \in Clients |-> IF c = LocalClient THEN {NumAddrs} ELSE {1}]

\* A stack without a zero.
MCStack == {[i \in 1..BufSize |-> 2]}
===============================================================================
