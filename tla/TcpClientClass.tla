----------------------------- MODULE TcpClientClass -----------------------------
(***************************************************************************)
(* The client threads: clientApplication and the TcpClientClass object.    *)
(* The client LocalClient is a thread of the server's process; every other *)
(* client is a process of the same program configured CLIENT_ONLY.         *)
(***************************************************************************)
EXTENDS TcpKernel, DemoConfig

CONSTANTS NumAddrs,      \* addresses getaddrinfo returns for the server
          ServerAddrs,   \* those of a client's list at which the server listens
          Request,       \* the text performSimpleSendOp sends
          Packets        \* the texts mode 3 sends, in order

ASSUME ClientAssumption ==
  /\ NumAddrs \in Nat /\ NumAddrs > 0
  /\ ServerAddrs \in [Clients -> SUBSET (1..NumAddrs)]
  /\ Request \in Seq(Byte)
  /\ Packets \in Seq(Seq(Byte)) /\ Packets # <<>>

VARIABLES cpc,       \* where the thread of a client is
          attempt,   \* index of the address it tries
          packet,    \* index of the text it sends next
          cbuf,      \* its reception_buffer
          shown,     \* all received text it printed
          verdict,   \* how it reported the end of the exchange
          cret       \* value returned by performOperation

clientVars == <<cpc, attempt, packet, cbuf, shown, verdict, cret>>

ClientPcs == {"idle", "start", "resolve", "connect", "send", "shutdown",
              "recv", "close", "dtor", "done"}
Verdicts == {"none", "unable", "eof", "error"}

\* What a client sends before it shuts its side down.
Outgoing(c) == IF Mode(c) = 3 THEN Packets ELSE <<Request>>

ClientTypeOK ==
  /\ cpc \in [Clients -> ClientPcs]
  /\ attempt \in [Clients -> 1..NumAddrs]
  /\ packet \in [Clients -> 1..Len(Packets) + 1]
  /\ cbuf \in [Clients -> Buffers]
  /\ shown \in [Clients -> Seq(Byte)]
  /\ verdict \in [Clients -> Verdicts]
  /\ cret \in [Clients -> {-1, 0, 1}]

ClientInit ==
  /\ cpc = [c \in Clients |-> "idle"]
  /\ attempt = [c \in Clients |-> 1]
  /\ packet = [c \in Clients |-> 1]
  /\ cbuf = [c \in Clients |-> EmptyBuffer]
  /\ shown = [c \in Clients |-> <<>>]
  /\ verdict = [c \in Clients |-> "none"]
  /\ cret = [c \in Clients |-> 0]

ClientAt(c, pc) == cpc[c] = pc /\ c \notin killed

ClientGoto(c, pc) ==
  /\ cpc' = [cpc EXCEPT ![c] = pc]
  /\ UNCHANGED <<attempt, packet, cbuf, shown, verdict, cret>>

\* performOperation returns code after reporting the verdict v.
ClientReturn(c, code, v) ==
  /\ cpc' = [cpc EXCEPT ![c] = "dtor"]
  /\ cret' = [cret EXCEPT ![c] = code]
  /\ verdict' = [verdict EXCEPT ![c] = v]
  /\ UNCHANGED <<attempt, packet, cbuf, shown>>

-------------------------------------------------------------------------------
(* clientApplication and setup *)

ClientApplication(c) ==
  /\ ClientAt(c, "start")
  /\ ClientGoto(c, IF cfg[c].type = "SERVER_ONLY" THEN "done" ELSE "resolve")
  /\ UNCHANGED kernelVars

\* performSendOperation: mode 2 sends nothing, mode 4 does nothing at all.
FirstStep(c) == CASE Mode(c) = 2 -> "shutdown"
                  [] Mode(c) = 4 -> "dtor"
                  [] OTHER -> "send"

\* No connection was made.  The test for it works where socket_t is signed;
\* on Windows the client goes on with INVALID_SOCKET.
NotConnected(c) == IF SocketErrorSeen THEN ClientReturn(c, 1, "unable")
                                      ELSE ClientGoto(c, FirstStep(c))

\* An error of getaddrinfo is lost in a shadowed variable; the list of
\* addresses stays empty, so no connection is attempted.
SetupResolve(c) ==
  /\ ClientAt(c, "resolve")
  /\ \/ ClientGoto(c, "connect") /\ UNCHANGED kernelVars
     \/ NotConnected(c) /\ CallFails

\* Where it goes unnoticed, the connect on the invalid socket is refused.
SetupSocketFails(c) ==
  /\ ClientAt(c, "connect")
  /\ SocketErrorSeen /\ CallFails
  /\ ClientReturn(c, 1, "unable")

\* The server has bound the first address of its own list, which may stand
\* anywhere in the list of the client.
SetupConnect(c) ==
  /\ ClientAt(c, "connect")
  /\ attempt[c] \in ServerAddrs[c]
  /\ ConnectCall(c)
  /\ ClientGoto(c, FirstStep(c))

\* The next address is tried.  What becomes of the refused socket is in
\* TcpDescriptors.
SetupRefused(c) ==
  /\ ClientAt(c, "connect")
  /\ \/ (attempt[c] \notin ServerAddrs[c] \/ listener # "listening") /\ UNCHANGED kernelVars
     \/ CallFails
  /\ \/ /\ attempt[c] < NumAddrs
        /\ attempt' = [attempt EXCEPT ![c] = @ + 1]
        /\ UNCHANGED <<cpc, packet, cbuf, shown, verdict, cret>>
     \/ attempt[c] = NumAddrs /\ NotConnected(c)

-------------------------------------------------------------------------------
(* performSimpleSendOp, sendPackets, shutdown *)

ClientSend(c) ==
  /\ ClientAt(c, "send")
  /\ SendOk(Cli(c), Outgoing(c)[packet[c]])
  /\ packet' = [packet EXCEPT ![c] = @ + 1]
  /\ cpc' = [cpc EXCEPT ![c] = IF packet[c] = Len(Outgoing(c)) THEN "shutdown" ELSE "send"]
  /\ UNCHANGED <<attempt, cbuf, shown, verdict, cret>>

\* Mode 1 gives up; mode 3 drops the rest of the queue and goes on; mode 5
\* ignores the result and misses the shutdown as well.
ClientSendFails(c) ==
  /\ ClientAt(c, "send")
  /\ SendFails(Cli(c), SigPipe)
  /\ \/ Mode(c) = 1 /\ ClientReturn(c, 1, "none")
     \/ Mode(c) = 3 /\ ClientGoto(c, "shutdown")
     \/ Mode(c) = 5 /\ ClientGoto(c, "recv")

ClientSigPipe(c) ==
  /\ ClientAt(c, "send")
  /\ SendKills(Cli(c), c, SigPipe)
  /\ UNCHANGED clientVars

\* Slip: the client does not wait for what the server still has to send.
ShutdownAndLeave(c) ==
  /\ ClientAt(c, "shutdown")
  /\ \/ ShutdownOk(Cli(c)) /\ ClientReturn(c, 0, "none")
     \/ ShutdownFails(Cli(c)) /\ ClientReturn(c, -1, "none")

\* Slip: the client waits for the server without shutting its side down.
WaitWithoutShutdown(c) ==
  /\ ClientAt(c, "shutdown")
  /\ ClientGoto(c, "recv")
  /\ UNCHANGED kernelVars

\* The result of shutdown is returned in modes 1 and 2, ignored in 3 and 5.
ClientShutdown(c) ==
  /\ ClientAt(c, "shutdown")
  /\ \/ ShutdownOk(Cli(c)) /\ ClientGoto(c, "recv")
     \/ ShutdownFails(Cli(c)) /\ Mode(c) \in {3, 5} /\ ClientGoto(c, "recv")
     \/ ShutdownFails(Cli(c)) /\ Mode(c) \in {1, 2} /\ ClientReturn(c, -1, "none")

-------------------------------------------------------------------------------
(* tcpReadUntilServerFinishedOperation, the receive loop of mode 5 and the   *)
(* destructor *)

ClientRecv(c, n) ==
  /\ ClientAt(c, "recv")
  /\ RecvData(Cli(c), n)
  /\ cbuf' = [cbuf EXCEPT ![c] = Terminate(Overwrite(@, Chunk(Cli(c), n)), n)]
  /\ shown' = [shown EXCEPT ![c] = @ \o CString(cbuf'[c])]
  /\ UNCHANGED <<cpc, attempt, packet, verdict, cret>>

\* Slip: a recv that returns -1 is taken for the end of the stream.
ErrorTakenForEof(c) ==
  /\ ClientAt(c, "recv")
  /\ RecvEof(Cli(c)) \/ RecvFails(Cli(c))
  /\ IF Mode(c) = 5 THEN ClientGoto(c, "close") ELSE ClientReturn(c, 0, "eof")

\* An error of recv is logged and 0 is returned all the same.
ClientRecvEnds(c) ==
  /\ ClientAt(c, "recv")
  /\ \/ RecvEof(Cli(c)) /\ Mode(c) # 5 /\ ClientReturn(c, 0, "eof")
     \/ RecvFails(Cli(c)) /\ Mode(c) # 5 /\ ClientReturn(c, 0, "error")
     \/ (RecvEof(Cli(c)) \/ RecvFails(Cli(c))) /\ Mode(c) = 5 /\ ClientGoto(c, "close")

ClientClose(c) ==
  /\ ClientAt(c, "close")
  /\ CloseCall(Cli(c))
  /\ ClientGoto(c, "dtor")

ClientDtor(c) ==
  /\ ClientAt(c, "dtor")
  /\ CloseCall(Cli(c))
  /\ ClientGoto(c, "done")

ClientStep(c) ==
  \/ ClientApplication(c) \/ SetupResolve(c) \/ SetupSocketFails(c)
  \/ SetupConnect(c) \/ SetupRefused(c)
  \/ ClientSend(c) \/ ClientSendFails(c) \/ ClientSigPipe(c) \/ ClientShutdown(c)
  \/ \E n \in RecvSizes : ClientRecv(c, n)
  \/ ClientRecvEnds(c) \/ ClientClose(c) \/ ClientDtor(c)
===============================================================================
