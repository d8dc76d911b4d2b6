-------------------------------- MODULE GoLines --------------------------------
(***************************************************************************)
(* The Go demo: every program runs a server and, in main, a client that    *)
(* sends what its user types and waits for a line after each message.      *)
(* Both sides make a new buffered reader for every line they read, so that *)
(* what a reader had read ahead is lost with it; and the client adds a     *)
(* newline to a text that already ends with one, so that every message is  *)
(* two lines.  The server observed is the one of LocalClient; another      *)
(* program on the machine cannot listen and is only a client.              *)
(***************************************************************************)
EXTENDS TcpKernel, SequencesExt

CONSTANTS MaxLines,    \* bound on the messages of a user before STOP
          NoClient

\* The characters told apart: a text has two, so that a part of it can be lost.
NewLine == 1
TimeStamp == 2
Letters(k) == <<2 * k + 1, 2 * k + 2>>
STOP == MaxLines + 1

ASSUME LinesAssumption == /\ MaxLines \in Nat /\ MaxLines > 0
                          /\ NoClient \notin Clients
                          /\ NewLine..(2 * STOP + 2) \subseteq Byte

VARIABLES spc, cpc,    \* where the server and the clients are
          conn,        \* the client accepted
          part,        \* what the reader at an end holds, in search of a newline
          said,        \* number of a user's last message, STOP for the last
          printed,     \* the lines printed after "Server >> "
          heard        \* clients that got a line from the server

goVars == <<spc, cpc, conn, part, said, printed, heard>>
vars == <<goVars, kernelVars>>

GoTypeOK ==
  /\ KernelTypeOK
  /\ spc \in {"start", "accept", "read", "write", "return", "done"}
  /\ cpc \in [Clients -> {"idle", "dial", "prompt", "wait", "done"}]
  /\ conn \in Clients \cup {NoClient}
  /\ part \in [Endpoints -> Seq(Byte \ {NewLine})]
  /\ said \in [Clients -> 0..STOP]
  /\ printed \in Seq(Seq(Byte \ {NewLine}))
  /\ heard \subseteq Clients

Init == /\ KernelInit
        /\ spc = "start"
        /\ cpc = [c \in Clients |-> IF c = LocalClient THEN "dial" ELSE "idle"]
        /\ conn = NoClient
        /\ part = [x \in Endpoints |-> <<>>]
        /\ said = [c \in Clients |-> 0]
        /\ printed = <<>> /\ heard = {}

-------------------------------------------------------------------------------
(* bufio.NewReader(conn).ReadString('\n') *)

\* One read of the connection that brings no newline; the reader needs another.
ReadsOn(x, n) ==
  /\ RecvData(x, n)
  /\ ~Contains(Chunk(x, n), NewLine)
  /\ part' = [part EXCEPT ![x] = @ \o Chunk(x, n)]

EndOfLine(x, n) == SelectInSeq(Chunk(x, n), LAMBDA b : b = NewLine)

\* Slip: all that was read is the line, without its newlines.
AllButNewLines(x, n) == part[x] \o SelectSeq(Chunk(x, n), LAMBDA b : b # NewLine)

\* Slip: what came before in other packets is forgotten.
ForgetsPackets(x, n) == SubSeq(Chunk(x, n), 1, EndOfLine(x, n) - 1)

LineRead(x, n) == part[x] \o SubSeq(Chunk(x, n), 1, EndOfLine(x, n) - 1)

\* Slip: one reader is kept for all lines, and its rest taken for the start of
\* the next.
KeepsReader(x, n) ==
  /\ RecvData(x, n)
  /\ Contains(Chunk(x, n), NewLine)
  /\ part' = [part EXCEPT ![x] = SubSeq(Chunk(x, n), EndOfLine(x, n) + 1, n)]

\* The line is complete; what follows it in the reader's buffer is lost.
ReadString(x, n) ==
  /\ RecvData(x, n)
  /\ Contains(Chunk(x, n), NewLine)
  /\ part' = [part EXCEPT ![x] = <<>>]

ReadError(x) ==
  /\ RecvEof(x) \/ RecvFails(x)
  /\ part' = [part EXCEPT ![x] = <<>>]

-------------------------------------------------------------------------------
(* Server *)

\* The return of main ends the process and the goroutine in it.
ServerGoto(pc, next) == spc = pc /\ cpc[LocalClient] # "done" /\ spc' = next

ServerListen ==
  /\ \/ ServerGoto("start", "accept") /\ ListenerBecomes("listening")
     \/ ServerGoto("start", "done") /\ CallFails
  /\ UNCHANGED <<conn, part, printed>>

ServerAccept ==
  /\ \/ ServerGoto("accept", "read") /\ \E c \in Clients : AcceptCall(c) /\ conn' = c
     \/ ServerGoto("accept", "return") /\ CallFails /\ UNCHANGED conn
  /\ UNCHANGED <<part, printed>>

\* Slip: an empty line is not answered.
SkipsEmpty(line) ==
  \/ line = Letters(STOP) /\ ServerGoto("read", "return") /\ UNCHANGED printed
  \/ line = <<>> /\ ServerGoto("read", "read") /\ UNCHANGED printed
  \/ /\ line \notin {Letters(STOP), <<>>}
     /\ ServerGoto("read", "write") /\ printed' = Append(printed, line)

ServerHandles(line) ==
  \/ line = Letters(STOP) /\ ServerGoto("read", "return") /\ UNCHANGED printed
  \/ line # Letters(STOP) /\ ServerGoto("read", "write") /\ printed' = Append(printed, line)

ServerRead ==
  /\ \/ \E n \in 1..Unread(Srv(conn)) :
          \/ ReadsOn(Srv(conn), n) /\ ServerGoto("read", "read") /\ UNCHANGED printed
          \/ ReadString(Srv(conn), n) /\ ServerHandles(LineRead(Srv(conn), n))
     \/ ReadError(Srv(conn)) /\ ServerGoto("read", "return") /\ UNCHANGED printed
  /\ UNCHANGED conn

\* Go has no SIGPIPE on sockets, and the server ignores errors of Write.
ServerWrite ==
  /\ ServerGoto("write", "read")
  /\ SendOk(Srv(conn), <<TimeStamp, NewLine>>) \/ SendFails(Srv(conn), FALSE)
  /\ UNCHANGED <<conn, part, printed>>

\* Only the listener's close is deferred.
ServerReturns ==
  /\ ServerGoto("return", "done")
  /\ CloseListenerCall
  /\ UNCHANGED <<conn, part, printed>>

ServerThread ==
  /\ ServerListen \/ ServerAccept \/ (conn # NoClient /\ (ServerRead \/ ServerWrite))
       \/ ServerReturns
  /\ UNCHANGED <<cpc, said, heard>>

\* The connection the server left open is closed when it is collected.
Collect ==
  /\ spc = "done" /\ conn # NoClient
  /\ CloseOpen(Srv(conn))
  /\ UNCHANGED goVars

-------------------------------------------------------------------------------
(* Clients *)

ClientGoto(c, pc, next) == cpc[c] = pc /\ cpc' = [cpc EXCEPT ![c] = next]

\* A client that cannot connect is the end of its program.
ClientDial(c) ==
  /\ \/ ClientGoto(c, "dial", "prompt") /\ ConnectCall(c)
     \/ /\ ClientGoto(c, "dial", "done")
        /\ (listener # "listening" /\ UNCHANGED kernelVars) \/ CallFails
  /\ UNCHANGED <<part, said, heard>>

\* The user types a message or STOP; an error of the write is ignored.
ClientPrompt(c) ==
  /\ ClientGoto(c, "prompt", "wait")
  /\ \E k \in {said[c] + 1, STOP} :
       /\ said' = [said EXCEPT ![c] = k]
       /\ SendOk(Cli(c), Letters(k) \o <<NewLine, NewLine>>) \/ SendFails(Cli(c), FALSE)
  /\ UNCHANGED <<part, heard>>

AfterLine(c) == IF said[c] = STOP THEN "done" ELSE "prompt"

\* The error of the read is dropped, and its message is empty.
ClientReadFails(c) == /\ ClientGoto(c, "wait", AfterLine(c))
                      /\ ReadError(Cli(c))
                      /\ UNCHANGED heard

ClientRead(c) ==
  /\ \/ \E n \in 1..Unread(Cli(c)) :
          \/ ReadsOn(Cli(c), n) /\ ClientGoto(c, "wait", "wait") /\ UNCHANGED heard
          \/ /\ ReadString(Cli(c), n)
             /\ ClientGoto(c, "wait", AfterLine(c)) /\ heard' = heard \cup {c}
     \/ ClientReadFails(c)
  /\ UNCHANGED said

ClientThread(c) ==
  /\ ClientDial(c) \/ ClientPrompt(c) \/ ClientRead(c)
  /\ UNCHANGED <<spc, conn, printed>>

\* Somebody starts another program; its server finds the port in use.
StartRemote(c) == /\ ClientGoto(c, "idle", "dial")
                  /\ UNCHANGED <<spc, conn, part, said, printed, heard, kernelVars>>

\* The system closes what a process leaves open.
Reap(c) ==
  /\ cpc[c] = "done"
  /\ \/ CloseOpen(Cli(c))
     \/ c = LocalClient /\ listener = "listening" /\ CloseListenerCall
     \/ c = LocalClient /\ conn # NoClient /\ CloseOpen(Srv(conn))
  /\ UNCHANGED goVars

Network == (\E x \in Endpoints : DeliverRst(x)) /\ UNCHANGED goVars

-------------------------------------------------------------------------------
Next == \/ ServerThread \/ Collect \/ Network
        \/ \E c \in Clients : ClientThread(c) \/ StartRemote(c) \/ Reap(c)

Spec == Init /\ [][Next]_vars

\* Goroutines are scheduled, the runtime collects garbage at least every two
\* minutes, and a user at the prompt types something in the end, STOP at last.
\* No call has to fail.
FairSpec == /\ Spec
            /\ WF_vars(ServerThread /\ UNCHANGED faults)
            /\ WF_vars(Collect)
            /\ WF_vars(Network)
            /\ \A c \in Clients : /\ WF_vars(ClientThread(c) /\ UNCHANGED faults)
                                  /\ WF_vars(Reap(c))

-------------------------------------------------------------------------------
(* Safety *)

\* Messages may be lost with a reader, in whole or at the front; but what the
\* server prints is the end of one message and never parts of two, and no
\* message comes twice or after a later one.
PrintsTails ==
  /\ \A i \in DOMAIN printed :
       \E k \in 1..STOP : IsSuffix(printed[i], Letters(k)) /\ printed[i] # Letters(STOP)
  /\ \A i, j \in DOMAIN printed :
       (i < j /\ printed[i] # <<>> /\ printed[j] # <<>>) => Last(printed[i]) < Last(printed[j])

\* Whoever hears from the server is the client it accepted, and the first
\* message that left it was printed whole.  It is the user's first message,
\* unless its write and then the read that waited for the answer both failed.
FirstMessageArrives ==
  heard # {} => /\ heard = {conn}
                /\ \E k \in 1..MaxLines : printed[1] = Letters(k) /\ (k = 1 \/ faults > 1)

-------------------------------------------------------------------------------
(* Liveness *)

\* Whoever is connected, served or not, gets out of the program in the end. The
\* client served never waits in vain, whatever lines were lost before: its
\* message, or the empty line of an earlier one, is answered, or the server
\* has stopped and its connection is collected.  Only a write that failed, an
\* error both sides ignore, leaves them waiting for each other.
UsersLeave == \A c \in Clients : cpc[c] = "prompt" ~> (cpc[c] = "done" \/ faults > 0)
===============================================================================
