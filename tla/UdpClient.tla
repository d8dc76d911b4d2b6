------------------------------- MODULE UdpClient -------------------------------
(***************************************************************************)
(* The clients of the UDP demo: UdpClientClass, udpClientOneshot and       *)
(* udp_client_oneshot.  Each sends one datagram and receives one.          *)
(***************************************************************************)
EXTENDS UdpNetwork

CONSTANT Text        \* "This is a UDP test"

ASSUME ProgramsAssumption == ProgramsUsed \subseteq {"classes", "procedural", "c"}

ASSUME TextAssumption == Text \in Seq(Byte) /\ Text # <<>> /\ Len(Text) + 1 < BufSize

VARIABLES cpc,       \* where a client is
          addrs,     \* the address list of getaddrinfo
          shown,     \* text printed as received
          verdict,   \* "none", or how the recv ended: "reply" or "error"
          undef      \* clients that did something undefined

clientVars == <<cpc, addrs, shown, verdict, undef>>

ClientPcs == {"idle", "start", "resolve", "socket", "send", "recv", "close", "done"}
AddrStates == {"none", "held", "freed"}

ClientTypeOK == /\ cpc \in [Clients -> ClientPcs]
                /\ addrs \in [Clients -> AddrStates]
                /\ shown \in [Clients -> Seq(Byte)]
                /\ verdict \in [Clients -> {"none", "reply", "error"}]
                /\ undef \subseteq Clients

ClientInit == /\ cpc = [c \in Clients |-> "idle"]
              /\ addrs = [c \in Clients |-> "none"]
              /\ shown = [c \in Clients |-> <<>>]
              /\ verdict = [c \in Clients |-> "none"]
              /\ undef = {}

ClientAt(c, pc) == cpc[c] = pc /\ c \notin gone
ClientGoto(c, pc) ==
  cpc' = [cpc EXCEPT ![c] = pc] /\ UNCHANGED <<addrs, shown, verdict, undef>>

\* The C program sends sizeof(string), the terminator included.
Request(c) == IF Program(c) = "c" THEN Append(Text, NUL) ELSE Text

\* freeaddrinfo; of a null pointer it does nothing, of a freed list anything.
FreeAddrs(c) == /\ addrs' = [addrs EXCEPT ![c] = IF @ = "none" THEN "none" ELSE "freed"]
                /\ undef' = IF addrs[c] = "freed" THEN undef \cup {c} ELSE undef

-------------------------------------------------------------------------------
ClientApplication(c) ==
  /\ ClientAt(c, "start")
  /\ ClientGoto(c, IF RunsClient(c) THEN "resolve" ELSE "done")
  /\ UNCHANGED netVars

ClientResolve(c) ==
  /\ ClientAt(c, "resolve")
  /\ \/ /\ cpc' = [cpc EXCEPT ![c] = "socket"]
        /\ addrs' = [addrs EXCEPT ![c] = "held"]
        /\ UNCHANGED <<shown, verdict, undef, netVars>>
     \/ CallFails /\ ClientGoto(c, Leaving(c))

\* All of them free the list when they notice a failing socket call; the
\* destructor of the class will free it again.
ClientSocket(c) ==
  /\ ClientAt(c, "socket")
  /\ \/ ClientSocketBecomes(c, "created") /\ ClientGoto(c, "send")
     \/ /\ CallFails /\ SocketErrorSeen(c)
        /\ cpc' = [cpc EXCEPT ![c] = Leaving(c)]
        /\ FreeAddrs(c)
        /\ UNCHANGED <<shown, verdict>>
     \/ CallFails /\ ~SocketErrorSeen(c) /\ ClientGoto(c, "send")

\* Slip: the list is freed where it is used last, and by the destructor.
SendFreesAddrs(c) ==
  /\ ClientAt(c, "send")
  /\ SendRequest(c, Request(c))
  /\ cpc' = [cpc EXCEPT ![c] = "recv"]
  /\ FreeAddrs(c)
  /\ UNCHANGED <<shown, verdict>>

ClientSend(c) ==
  /\ ClientAt(c, "send")
  /\ SendRequest(c, Request(c))
  /\ ClientGoto(c, "recv")

\* The class logs the error and waits for a reply all the same.
ClientSendFails(c) ==
  /\ ClientAt(c, "send")
  /\ SendRequestFails(c)
  /\ ClientGoto(c, IF Program(c) = "classes" THEN "recv" ELSE Leaving(c))

\* The buffer of the C function is on its stack and has any contents.
OldBuffers(c) == IF Program(c) = "c" THEN Buffers ELSE {EmptyBuffer}

ClientRecv(c, m) ==
  /\ ClientAt(c, "recv")
  /\ RecvReply(c, m)
  /\ \E old \in OldBuffers(c) :
        shown' = [shown EXCEPT ![c] = CString(Terminate(Overwrite(old, m.data), Len(m.data)))]
  /\ verdict' = [verdict EXCEPT ![c] = "reply"]
  /\ cpc' = [cpc EXCEPT ![c] = Leaving(c)]
  /\ UNCHANGED <<addrs, undef>>

\* The class writes a terminator to index -1 and goes on.
ClientRecvFails(c) ==
  /\ ClientAt(c, "recv")
  /\ RecvReplyFails(c)
  /\ undef' = IF Program(c) = "classes" THEN undef \cup {c} ELSE undef
  /\ verdict' = [verdict EXCEPT ![c] = "error"]
  /\ cpc' = [cpc EXCEPT ![c] = Leaving(c)]
  /\ UNCHANGED <<addrs, shown>>

\* The destructor closes the socket and frees the list, the C functions only
\* close the socket.
ClientClose(c) ==
  /\ ClientAt(c, "close")
  /\ CloseClientSocket(c)
  /\ cpc' = [cpc EXCEPT ![c] = "done"]
  /\ IF Program(c) = "classes" THEN FreeAddrs(c) ELSE UNCHANGED <<addrs, undef>>
  /\ UNCHANGED <<shown, verdict>>

ClientStep(c) ==
  \/ ClientApplication(c) \/ ClientResolve(c) \/ ClientSocket(c)
  \/ ClientSend(c) \/ ClientSendFails(c)
  \/ (cq[c] # <<>> /\ ClientRecv(c, Head(cq[c])))
  \/ ClientRecvFails(c) \/ ClientClose(c)
===============================================================================
