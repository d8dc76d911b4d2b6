---------------------------- MODULE TcpOneshotClient ---------------------------
(***************************************************************************)
(* The echo client without classes: tcpClientOneshot of C++ mode 0,        *)
(* tcp_client_oneshot of the C program and tcp_client of the Python one.   *)
(* They send one text, shut their side down and receive: until the peer    *)
(* ends in C and C++, once in Python.                                      *)
(***************************************************************************)
EXTENDS TcpOneshotIO

CONSTANTS NumAddrs,    \* addresses getaddrinfo returns for the server
          ServerAddrs, \* those of a client's list at which the server listens
          Text         \* "this is a test"

ASSUME ClientAssumption == /\ NumAddrs \in Nat /\ NumAddrs > 0
                           /\ ServerAddrs \in [Clients -> SUBSET (1..NumAddrs)]
                           /\ Text \in Seq(Byte) /\ Text # <<>> /\ Len(Text) < BufSize

VARIABLES cpc,       \* where the thread of a client is
          attempt,   \* index of the address it tries
          verdict    \* how it reported the end of the exchange

clientVars == <<cpc, attempt, verdict>>

ClientPcs == {"idle", "start", "resolve", "connect", "send", "shutdown",
              "recv", "close", "done"}
Verdicts == {"none", "unable", "eof", "reply", "error"}

ClientTypeOK == /\ cpc \in [Clients -> ClientPcs]
                /\ attempt \in [Clients -> 1..NumAddrs]
                /\ verdict \in [Clients -> Verdicts]

ClientInit == /\ cpc = [c \in Clients |-> "idle"]
              /\ attempt = [c \in Clients |-> 1]
              /\ verdict = [c \in Clients |-> "none"]

ClientAt(c, pc) == cpc[c] = pc /\ c \notin killed

ClientGoto(c, pc) == cpc' = [cpc EXCEPT ![c] = pc] /\ UNCHANGED <<attempt, verdict>>

\* The exchange ends with the verdict v.
ClientEnds(c, pc, v) ==
  /\ cpc' = [cpc EXCEPT ![c] = pc]
  /\ verdict' = [verdict EXCEPT ![c] = v]
  /\ UNCHANGED attempt

-------------------------------------------------------------------------------
(* Connecting *)

ClientApplication(c) ==
  /\ ClientAt(c, "start")
  /\ ClientGoto(c, IF RunsClient(c) THEN "resolve" ELSE "done")
  /\ UNCHANGED <<kernelVars, ioVars>>

ClientResolve(c) ==
  /\ ClientAt(c, "resolve")
  /\ \/ ClientGoto(c, "connect") /\ UNCHANGED kernelVars
     \/ Program(c) # "python" /\ CallFails /\ ClientEnds(c, "done", "unable")
  /\ UNCHANGED ioVars

\* Where it goes unnoticed, the connect on the invalid socket is refused.
ClientSocketFails(c) ==
  /\ ClientAt(c, "connect")
  /\ NoticesInvalid(c) /\ CallFails
  /\ ClientEnds(c, "done", "unable")
  /\ UNCHANGED ioVars

\* Python is given the one address; the others walk through a list.
TriesServer(c) == Program(c) = "python" \/ attempt[c] \in ServerAddrs[c]

ClientConnect(c) ==
  /\ ClientAt(c, "connect")
  /\ TriesServer(c)
  /\ ConnectCall(c)
  /\ ClientGoto(c, "send")
  /\ UNCHANGED ioVars

\* The socket is closed and the next address tried; Python has one only.
ClientRefused(c) ==
  /\ ClientAt(c, "connect")
  /\ \/ (~TriesServer(c) \/ listener # "listening") /\ UNCHANGED kernelVars
     \/ CallFails
  /\ IF attempt[c] < NumAddrs /\ Program(c) # "python"
     THEN attempt' = [attempt EXCEPT ![c] = @ + 1] /\ UNCHANGED <<cpc, verdict>>
     ELSE ClientEnds(c, "done", "unable")
  /\ UNCHANGED ioVars

-------------------------------------------------------------------------------
(* The exchange *)

ClientSend(c) ==
  /\ ClientAt(c, "send")
  /\ \/ SendOk(Cli(c), Text) /\ ClientGoto(c, "shutdown")
     \/ SendFailsIn(c, Cli(c)) /\ ClientEnds(c, "close", "error")
  /\ UNCHANGED ioVars

ClientSigPipe(c) ==
  /\ ClientAt(c, "send")
  /\ SendKills(Cli(c), c, SigPipeIn(c))
  /\ UNCHANGED <<clientVars, ioVars>>

\* Slip: the client waits for the server without shutting its side down.
WaitWithoutShutdown(c) ==
  /\ ClientAt(c, "shutdown")
  /\ ClientGoto(c, "recv")
  /\ UNCHANGED <<kernelVars, ioVars>>

ClientShutdown(c) ==
  /\ ClientAt(c, "shutdown")
  /\ \/ ShutdownOk(Cli(c)) /\ ClientGoto(c, "recv")
     \/ ShutdownFails(Cli(c)) /\ ClientEnds(c, "close", "error")
  /\ UNCHANGED ioVars

\* Slip: every client receives once only, as the Python one does.
ReceivesOnce(c, n) ==
  ClientAt(c, "recv") /\ RecvAndPrint(Cli(c), n) /\ ClientEnds(c, "close", "eof")

\* "Receive until the peer closes the connection"; Python receives once.
ClientRecv(c, n) ==
  /\ ClientAt(c, "recv")
  /\ RecvAndPrint(Cli(c), n)
  /\ IF Program(c) = "python" THEN ClientEnds(c, "close", "reply") ELSE UNCHANGED clientVars

ClientRecvEnds(c) ==
  /\ ClientAt(c, "recv")
  /\ \/ RecvEof(Cli(c)) /\ ClientEnds(c, "close", "eof")
     \/ RecvFails(Cli(c)) /\ ClientEnds(c, "close", "error")
  /\ UNCHANGED ioVars

ClientClose(c) ==
  ClientAt(c, "close") /\ CloseCall(Cli(c)) /\ ClientGoto(c, "done") /\ UNCHANGED ioVars

ClientStep(c) ==
  \/ ClientApplication(c) \/ ClientResolve(c) \/ ClientSocketFails(c)
  \/ ClientConnect(c) \/ ClientRefused(c)
  \/ ClientSend(c) \/ ClientSigPipe(c) \/ ClientShutdown(c)
  \/ \E n \in WholeBuffer : ClientRecv(c, n)
  \/ ClientRecvEnds(c) \/ ClientClose(c)
===============================================================================
