------------------------------- MODULE TcpKernel -------------------------------
(***************************************************************************)
(* The socket layer as the demo uses it: one listening socket, one         *)
(* connection per client, blocking calls.  External: nothing in src/       *)
(* implements it.  It has the POSIX outcomes the code must be ready for:   *)
(*                                                                         *)
(*   - recv returns any non-empty part of the bytes not yet received, 0    *)
(*     once the peer's FIN is reached, and -1 after a reset;               *)
(*   - closing a socket that has unread bytes resets the connection        *)
(*     instead of ending it in order;                                      *)
(*   - sending on a connection whose peer is gone is answered by a reset,  *)
(*     and sending after that reset raises SIGPIPE on a Unix, which ends   *)
(*     the whole process;                                                  *)
(*   - every call may fail for reasons of its own (at most MaxFaults).     *)
(*                                                                         *)
(* A stream is the history of the bytes sent and the number received; bytes *)
(* in flight are covered by the free choice of what a recv returns.        *)
(***************************************************************************)
EXTENDS Integers, Sequences, TestBed, ReceptionBuffer

CONSTANT MaxFaults      \* bound on spontaneous failures of calls

ASSUME KernelAssumption == MaxFaults \in Nat

VARIABLES listener,     \* state of the server's listening socket
          backlog,      \* clients connected and not yet accepted
          sock,         \* state of either end of the connection of a client
          sent,         \* all bytes sent from an end
          read,         \* how many bytes of its peer an end has received
          fin,          \* has an end shut down or closed its sending side?
          rst,          \* progress of a reset sent to an end
          killed,       \* the processes ended by SIGPIPE
          faults        \* calls that failed spontaneously so far

kernelVars == <<listener, backlog, sock, sent, read, fin, rst, killed, faults>>

Cli(c) == <<c, "client">>
Srv(c) == <<c, "server">>
Endpoints == Clients \X {"client", "server"}
Peer(x) == IF x[2] = "client" THEN Srv(x[1]) ELSE Cli(x[1])

ListenerStates == {"none", "created", "bound", "listening", "closed"}
SockStates == {"none", "queued", "open", "closed"}
RstStates == {"none", "flying", "arrived", "reported"}

KernelTypeOK ==
  /\ listener \in ListenerStates
  /\ backlog \in Seq(Clients)
  /\ sock \in [Endpoints -> SockStates]
  /\ sent \in [Endpoints -> Seq(Byte)]
  /\ read \in [Endpoints -> Nat]
  /\ fin \in [Endpoints -> BOOLEAN]
  /\ rst \in [Endpoints -> RstStates]
  /\ killed \subseteq Clients
  /\ faults \in Nat

KernelInit ==
  /\ listener = "none"
  /\ backlog = <<>>
  /\ sock = [x \in Endpoints |-> "none"]
  /\ sent = [x \in Endpoints |-> <<>>]
  /\ read = [x \in Endpoints |-> 0]
  /\ fin = [x \in Endpoints |-> FALSE]
  /\ rst = [x \in Endpoints |-> "none"]
  /\ killed = {}
  /\ faults = 0

Unread(x) == Len(sent[Peer(x)]) - read[x]
Chunk(x, n) == [i \in 1..n |-> sent[Peer(x)][read[x] + i]]
AtEnd(x) == (Unread(x) = 0 /\ fin[Peer(x)]) \/ rst[x] = "reported"

-------------------------------------------------------------------------------
(* Calls. *)

\* INVALID_SOCKET is no endpoint; calls on it, and on a closed socket, fail.
Valid(x) == x \in Endpoints /\ sock[x] = "open"
InvalidCall(x) == ~Valid(x) /\ UNCHANGED kernelVars

\* A call fails and leaves the socket as it was.
CallFails ==
  /\ faults < MaxFaults
  /\ faults' = faults + 1
  /\ UNCHANGED <<listener, backlog, sock, sent, read, fin, rst, killed>>

\* socket, bind and listen on the server's side.
ListenerBecomes(state) ==
  /\ listener' = state
  /\ UNCHANGED <<backlog, sock, sent, read, fin, rst, killed, faults>>

ConnectCall(c) ==
  /\ listener = "listening"
  /\ backlog' = Append(backlog, c)
  /\ sock' = [sock EXCEPT ![Cli(c)] = "open", ![Srv(c)] = "queued"]
  /\ UNCHANGED <<listener, sent, read, fin, rst, killed, faults>>

AcceptCall(c) ==
  /\ backlog # <<>>
  /\ c = Head(backlog)
  /\ backlog' = Tail(backlog)
  /\ sock' = [sock EXCEPT ![Srv(c)] = "open"]
  /\ UNCHANGED <<listener, sent, read, fin, rst, killed, faults>>

\* Closing the listening socket resets the clients still in the backlog.
CloseListenerCall ==
  /\ listener' = IF listener = "none" THEN "none" ELSE "closed"
  /\ backlog' = <<>>
  /\ sock' = [x \in Endpoints |-> IF sock[x] = "queued" THEN "closed" ELSE sock[x]]
  /\ rst' = [x \in Endpoints |-> IF sock[Peer(x)] = "queued" THEN "flying" ELSE rst[x]]
  /\ UNCHANGED <<sent, read, fin, killed, faults>>

SendOk(x, bytes) ==
  /\ Valid(x)
  /\ rst[x] \in {"none", "flying"}
  /\ sent' = [sent EXCEPT ![x] = @ \o bytes]
  /\ rst' = IF sock[Peer(x)] = "closed" THEN [rst EXCEPT ![x] = "flying"] ELSE rst
  /\ UNCHANGED <<listener, backlog, sock, read, fin, killed, faults>>

BrokenPipe(x) ==
  Valid(x) /\ (rst[x] = "reported" \/ (rst[x] = "arrived" /\ fin[Peer(x)]))

ReportReset(x) ==
  /\ rst' = [rst EXCEPT ![x] = "reported"]
  /\ UNCHANGED <<listener, backlog, sock, sent, read, fin, killed, faults>>

\* ECONNRESET, EPIPE where no signal is raised, or another error.
SendFails(x, sigpipe) ==
  \/ CallFails \/ InvalidCall(x)
  \/ Valid(x) /\ rst[x] = "arrived" /\ ~BrokenPipe(x) /\ ReportReset(x)
  \/ BrokenPipe(x) /\ ~sigpipe /\ ReportReset(x)

SendKills(x, process, sigpipe) ==
  /\ BrokenPipe(x) /\ sigpipe
  /\ killed' = killed \cup {process}
  /\ UNCHANGED <<listener, backlog, sock, sent, read, fin, rst, faults>>

RecvData(x, n) ==
  /\ Valid(x)
  /\ n <= Unread(x)
  /\ rst[x] # "reported"
  /\ read' = [read EXCEPT ![x] = @ + n]
  /\ UNCHANGED <<listener, backlog, sock, sent, fin, rst, killed, faults>>

RecvEof(x) == Valid(x) /\ AtEnd(x) /\ UNCHANGED kernelVars

RecvFails(x) ==
  CallFails \/ InvalidCall(x) \/ (Valid(x) /\ rst[x] = "arrived" /\ ReportReset(x))

\* shutdown(socket, SHUT_WR)
ShutdownOk(x) ==
  /\ Valid(x)
  /\ rst[x] \in {"none", "flying"}
  /\ fin' = [fin EXCEPT ![x] = TRUE]
  /\ UNCHANGED <<listener, backlog, sock, sent, read, rst, killed, faults>>

ShutdownFails(x) ==
  \/ CallFails \/ InvalidCall(x)
  \/ Valid(x) /\ rst[x] \in {"arrived", "reported"} /\ UNCHANGED kernelVars

\* Closing in order sends a FIN.  With bytes unread (or still on their way)
\* it sends a reset; whether a FIN went out before it depends on the timing.
CloseOpen(x) ==
  /\ Valid(x)
  /\ sock' = [sock EXCEPT ![x] = "closed"]
  /\ \/ /\ Unread(x) = 0
        /\ fin' = [fin EXCEPT ![x] = TRUE]
        /\ rst' = rst
     \/ /\ Unread(x) > 0
        /\ \E b \in {fin[x], TRUE} : fin' = [fin EXCEPT ![x] = b]
        /\ rst' = [rst EXCEPT ![Peer(x)] = IF @ = "none" THEN "flying" ELSE @]
  /\ UNCHANGED <<listener, backlog, sent, read, killed, faults>>

\* closesocket/close on an invalid or a closed descriptor does nothing here.
CloseCall(x) == CloseOpen(x) \/ InvalidCall(x)

-------------------------------------------------------------------------------
(* The network's own step. *)

DeliverRst(x) ==
  /\ rst[x] = "flying"
  /\ sock[x] = "open"
  /\ rst' = [rst EXCEPT ![x] = "arrived"]
  /\ UNCHANGED <<listener, backlog, sock, sent, read, fin, killed, faults>>
===============================================================================
