------------------------------ MODULE UdpNetwork -------------------------------
(***************************************************************************)
(* Datagram sockets as the UDP demo uses them.  External: nothing in src/  *)
(* implements them.  A datagram on its way may be lost, delivered twice or *)
(* overtaken; one that reaches a port nobody is bound to is dropped, and   *)
(* Windows reports that to its sender's next recv as a reset connection.   *)
(* Any call may fail for reasons of its own.                               *)
(***************************************************************************)
EXTENDS Integers, Sequences, ProgramConfig, ReceptionBuffer

CONSTANTS MaxFaults,     \* bound on failing calls
          MaxLost,       \* bound on lost datagrams
          MaxDups        \* bound on datagrams delivered twice

ASSUME NetworkAssumption == MaxFaults \in Nat /\ MaxLost \in Nat /\ MaxDups \in Nat

VARIABLES net,       \* datagrams on their way
          sq, cq,    \* what the server's and the clients' sockets have queued
          server,    \* state of the server's socket
          csock,     \* state of the clients' sockets
          refused,   \* clients one of whose datagrams found no server
          asked,     \* clients that have sent a datagram (history)
          gone,      \* processes that have ended
          faults, lost, dups

netVars == <<net, sq, cq, server, csock, refused, asked, gone, faults, lost, dups>>

Payloads == Seq(Byte \cup {NUL})
Datagrams == [kind : {"request", "reply"}, client : Clients, data : Payloads]
SocketStates == {"none", "created", "bound", "closed"}

NetworkTypeOK ==
  /\ net \subseteq Datagrams
  /\ sq \in Seq(Datagrams)
  /\ cq \in [Clients -> Seq(Datagrams)]
  /\ server \in SocketStates
  /\ csock \in [Clients -> SocketStates]
  /\ refused \subseteq Clients /\ asked \subseteq Clients
  /\ gone \subseteq Clients
  /\ faults \in Nat /\ lost \in Nat /\ dups \in Nat

NetworkInit ==
  /\ net = {} /\ sq = <<>> /\ cq = [c \in Clients |-> <<>>]
  /\ server = "none" /\ csock = [c \in Clients |-> "none"]
  /\ refused = {} /\ asked = {} /\ gone = {}
  /\ faults = 0 /\ lost = 0 /\ dups = 0

-------------------------------------------------------------------------------
(* Calls *)

CallFails ==
  /\ faults < MaxFaults
  /\ faults' = faults + 1
  /\ UNCHANGED <<net, sq, cq, server, csock, refused, asked, gone, lost, dups>>

ServerSocketBecomes(state) ==
  /\ server' = state
  /\ UNCHANGED <<net, sq, cq, csock, refused, asked, gone, faults, lost, dups>>

ClientSocketBecomes(c, state) ==
  /\ csock' = [csock EXCEPT ![c] = state]
  /\ UNCHANGED <<net, sq, cq, server, refused, asked, gone, faults, lost, dups>>

\* The first sendto binds the socket to a port of the system's choice.
SendRequest(c, data) ==
  /\ csock[c] \in {"created", "bound"}
  /\ net' = net \cup {[kind |-> "request", client |-> c, data |-> data]}
  /\ csock' = [csock EXCEPT ![c] = "bound"]
  /\ asked' = asked \cup {c}
  /\ UNCHANGED <<sq, cq, server, refused, gone, faults, lost, dups>>

SendRequestFails(c) ==
  \/ csock[c] = "none" /\ UNCHANGED netVars
  \/ csock[c] # "none" /\ CallFails

SendReply(c, data) ==
  /\ server = "bound"
  /\ net' = net \cup {[kind |-> "reply", client |-> c, data |-> data]}
  /\ UNCHANGED <<sq, cq, server, csock, refused, asked, gone, faults, lost, dups>>

RecvRequest(m) ==
  /\ server = "bound" /\ sq # <<>>
  /\ m = Head(sq)
  /\ sq' = Tail(sq)
  /\ UNCHANGED <<net, cq, server, csock, refused, asked, gone, faults, lost, dups>>

RecvReply(c, m) ==
  /\ csock[c] = "bound" /\ cq[c] # <<>>
  /\ m = Head(cq[c])
  /\ cq' = [cq EXCEPT ![c] = Tail(@)]
  /\ UNCHANGED <<net, sq, server, csock, refused, asked, gone, faults, lost, dups>>

\* A recv on a socket that was never bound waits on a Unix and fails on Windows.
RecvReplyFails(c) ==
  \/ CallFails
  \/ csock[c] = "none" /\ UNCHANGED netVars
  \/ cfg[c].build = "windows" /\ csock[c] = "created" /\ UNCHANGED netVars
  \/ /\ cfg[c].build = "windows" /\ c \in refused
     /\ refused' = refused \ {c}
     /\ UNCHANGED <<net, sq, cq, server, csock, asked, gone, faults, lost, dups>>

CloseServerSocket ==
  /\ server' = IF server = "none" THEN "none" ELSE "closed"
  /\ sq' = <<>>
  /\ UNCHANGED <<net, cq, csock, refused, asked, gone, faults, lost, dups>>

CloseClientSocket(c) ==
  /\ csock' = [csock EXCEPT ![c] = IF @ = "none" THEN "none" ELSE "closed"]
  /\ cq' = [cq EXCEPT ![c] = <<>>]
  /\ UNCHANGED <<net, sq, server, refused, asked, gone, faults, lost, dups>>

\* The system closes the sockets of a process that ends; the caller says
\* whether a failing call ended it.
EndProcess(c) ==
  /\ gone' = gone \cup {c}
  /\ csock' = [csock EXCEPT ![c] = "closed"]
  /\ cq' = [cq EXCEPT ![c] = <<>>]
  /\ IF c = LocalClient THEN server' = "closed" /\ sq' = <<>> ELSE UNCHANGED <<server, sq>>
  /\ UNCHANGED <<net, refused, asked, lost, dups>>

-------------------------------------------------------------------------------
(* The network's own steps *)

Arrive(m) ==
  \/ /\ m.kind = "request" /\ server = "bound"
     /\ sq' = Append(sq, m)
     /\ UNCHANGED <<cq, refused>>
  \/ /\ m.kind = "request" /\ server # "bound"
     /\ refused' = refused \cup {m.client}
     /\ UNCHANGED <<sq, cq>>
  \/ /\ m.kind = "reply"
     /\ cq' = IF csock[m.client] = "bound" THEN [cq EXCEPT ![m.client] = Append(@, m)] ELSE cq
     /\ UNCHANGED <<sq, refused>>

Deliver(m) ==
  /\ Arrive(m)
  /\ net' = net \ {m}
  /\ UNCHANGED <<server, csock, asked, gone, faults, lost, dups>>

Duplicate(m) ==
  /\ dups < MaxDups
  /\ dups' = dups + 1
  /\ Arrive(m)
  /\ UNCHANGED <<net, server, csock, asked, gone, faults, lost>>

Lose(m) ==
  /\ lost < MaxLost
  /\ lost' = lost + 1
  /\ net' = net \ {m}
  /\ UNCHANGED <<sq, cq, server, csock, refused, asked, gone, faults, dups>>
===============================================================================
