---------------------------- MODULE TcpKernelProofs ----------------------------
(* What every call of the socket layer preserves, for all its callers. *)
EXTENDS TcpKernel, TLAPS

\* No end has received more than its peer sent.
ReadBound == \A x \in Endpoints : read[x] <= Len(sent[Peer(x)])

KernelInv == KernelTypeOK /\ ReadBound

\* Streams only grow.
Extends(old, new) ==
  /\ Len(old) <= Len(new)
  /\ \A i \in 1..Len(old) : new[i] = old[i]

StreamsGrow == \A x \in Endpoints : Extends(sent[x], sent'[x]) /\ read[x] <= read'[x]

-------------------------------------------------------------------------------
\* An initial part of a stream.
LEMMA InitialPart ==
  ASSUME NEW old \in Seq(Byte), NEW new \in Seq(Byte), Extends(old, new)
  PROVE  SubSeq(new, 1, Len(old)) = old
<1> DEFINE part == SubSeq(new, 1, Len(old))
<1>1. Len(old) \in Nat /\ Len(new) \in Nat /\ Len(old) <= Len(new)
  BY DEF Extends
<1>2. \A i \in 1..Len(old) : new[i] \in Byte
  BY <1>1
<1>3. /\ part \in Seq(Byte)
      /\ Len(part) = Len(old)
      /\ \A i \in 1..Len(old) : part[i] = new[i]
  <2>1. /\ SubSeq(new, 1, Len(old)) \in Seq(Byte)
        /\ Len(SubSeq(new, 1, Len(old))) = IF 1 <= Len(old) THEN Len(old) - 1 + 1 ELSE 0
        /\ \A i \in 1..Len(old) - 1 + 1 : SubSeq(new, 1, Len(old))[i] = new[1 + i - 1]
    BY <1>1, <1>2
  <2> QED BY <1>1, <2>1
<1> HIDE DEF part
<1>4. \A i \in 1..Len(part) : part[i] = old[i]
  BY <1>3 DEF Extends
<1> QED BY <1>3, <1>4 DEF part

LEMMA EndpointFacts ==
  /\ \A c \in Clients : Cli(c) \in Endpoints /\ Srv(c) \in Endpoints
  /\ \A c \in Clients : Peer(Cli(c)) = Srv(c) /\ Peer(Srv(c)) = Cli(c)
  /\ \A c, d : Cli(c) # Srv(d)
  /\ \A c, d : Cli(c) = Cli(d) => c = d
  /\ \A c, d : Srv(c) = Srv(d) => c = d
  /\ \A x \in Endpoints : Peer(x) \in Endpoints /\ Peer(Peer(x)) = x /\ Peer(x) # x
BY DEF Cli, Srv, Endpoints, Peer

LEMMA KernelInitInv == KernelInit => KernelInv
BY EndpointFacts, KernelAssumption
   DEF KernelInit, KernelInv, KernelTypeOK, ReadBound, ListenerStates, SockStates, RstStates

\* A step that changes neither the streams nor what was read of them keeps
\* the bound on reads.
LEMMA SameStreams ==
  ASSUME KernelInv, UNCHANGED <<sent, read>>
  PROVE  ReadBound' /\ StreamsGrow
BY EndpointFacts DEF KernelInv, KernelTypeOK, ReadBound, StreamsGrow, Extends

LEMMA UnchangedInv == KernelInv /\ UNCHANGED kernelVars => KernelInv' /\ StreamsGrow
BY SameStreams DEF KernelInv, KernelTypeOK, kernelVars

LEMMA CallFailsInv == KernelInv /\ CallFails => KernelInv' /\ StreamsGrow
BY SameStreams DEF KernelInv, KernelTypeOK, CallFails

LEMMA ListenerBecomesInv ==
  ASSUME KernelInv, NEW state \in ListenerStates, ListenerBecomes(state)
  PROVE  KernelInv' /\ StreamsGrow
BY SameStreams DEF KernelInv, KernelTypeOK, ListenerBecomes

LEMMA ConnectInv ==
  ASSUME KernelInv, NEW c \in Clients, ConnectCall(c)
  PROVE  KernelInv' /\ StreamsGrow
<1>1. sock' \in [Endpoints -> SockStates]
  BY EndpointFacts DEF KernelInv, KernelTypeOK, ConnectCall, SockStates
<1>2. backlog' \in Seq(Clients)
  BY DEF KernelInv, KernelTypeOK, ConnectCall
<1> QED
  BY <1>1, <1>2, SameStreams DEF KernelInv, KernelTypeOK, ConnectCall

LEMMA AcceptInv ==
  ASSUME KernelInv, NEW c \in Clients, AcceptCall(c)
  PROVE  KernelInv' /\ StreamsGrow
<1>1. sock' \in [Endpoints -> SockStates]
  BY EndpointFacts DEF KernelInv, KernelTypeOK, AcceptCall, SockStates
<1>2. backlog' \in Seq(Clients)
  BY DEF KernelInv, KernelTypeOK, AcceptCall
<1> QED
  BY <1>1, <1>2, SameStreams DEF KernelInv, KernelTypeOK, AcceptCall

LEMMA CloseListenerInv ==
  ASSUME KernelInv, CloseListenerCall
  PROVE  KernelInv' /\ StreamsGrow
BY SameStreams, EndpointFacts
   DEF KernelInv, KernelTypeOK, CloseListenerCall, SockStates, ListenerStates, RstStates

\* Only the accepted connection of a client can be used from the server.
LEMMA ValidServer ==
  ASSUME NEW c, Valid(Srv(c))
  PROVE  c \in Clients /\ Srv(c) \in Endpoints
BY DEF Valid, Srv, Endpoints

LEMMA ReportResetInv ==
  ASSUME KernelInv, NEW x \in Endpoints, ReportReset(x)
  PROVE  KernelInv' /\ StreamsGrow
BY SameStreams DEF KernelInv, KernelTypeOK, ReportReset, RstStates

LEMMA SendFailsInv ==
  ASSUME KernelInv, NEW x, NEW sigpipe, SendFails(x, sigpipe)
  PROVE  KernelInv' /\ StreamsGrow
BY CallFailsInv, ReportResetInv, UnchangedInv DEF SendFails, InvalidCall, BrokenPipe, Valid

LEMMA SendKillsInv ==
  ASSUME KernelInv, NEW x \in Endpoints, NEW p \in Clients, NEW sigpipe, SendKills(x, p, sigpipe)
  PROVE  KernelInv' /\ StreamsGrow
BY SameStreams DEF KernelInv, KernelTypeOK, SendKills

LEMMA RecvEofInv ==
  ASSUME KernelInv, NEW x, RecvEof(x)
  PROVE  KernelInv' /\ StreamsGrow
BY UnchangedInv DEF RecvEof

LEMMA RecvFailsInv ==
  ASSUME KernelInv, NEW x, RecvFails(x)
  PROVE  KernelInv' /\ StreamsGrow
BY CallFailsInv, ReportResetInv, UnchangedInv DEF RecvFails, InvalidCall, Valid

LEMMA ShutdownOkInv ==
  ASSUME KernelInv, NEW x, ShutdownOk(x)
  PROVE  KernelInv' /\ StreamsGrow
BY SameStreams DEF KernelInv, KernelTypeOK, ShutdownOk

LEMMA ShutdownFailsInv ==
  ASSUME KernelInv, NEW x, ShutdownFails(x)
  PROVE  KernelInv' /\ StreamsGrow
BY CallFailsInv, UnchangedInv DEF ShutdownFails, InvalidCall

LEMMA CloseInv ==
  ASSUME KernelInv, NEW x, CloseCall(x)
  PROVE  KernelInv' /\ StreamsGrow
<1>1. CASE CloseOpen(x)
  <2>0. x \in Endpoints
    BY <1>1 DEF CloseOpen, Valid
  <2>1. UNCHANGED <<listener, backlog, sent, read, killed, faults>>
    BY <1>1 DEF CloseOpen
  <2>2. sock' \in [Endpoints -> SockStates]
    BY <1>1 DEF CloseOpen, KernelInv, KernelTypeOK, SockStates
  <2>3. fin' \in [Endpoints -> BOOLEAN]
    BY <1>1 DEF CloseOpen, KernelInv, KernelTypeOK
  <2>4. rst' \in [Endpoints -> RstStates]
    <3>1. rst \in [Endpoints -> RstStates] /\ Peer(x) \in Endpoints
      BY <2>0, EndpointFacts DEF KernelInv, KernelTypeOK
    <3>2. PICK r \in RstStates : rst' = rst \/ rst' = [rst EXCEPT ![Peer(x)] = r]
      <4>1. rst' = rst \/ rst' = [rst EXCEPT ![Peer(x)] =
                                     IF rst[Peer(x)] = "none" THEN "flying" ELSE rst[Peer(x)]]
        BY <1>1 DEF CloseOpen
      <4>2. "flying" \in RstStates /\ rst[Peer(x)] \in RstStates
        BY <3>1 DEF RstStates
      <4> QED BY <4>1, <4>2
    <3> QED BY <3>1, <3>2
  <2> QED BY <2>1, <2>2, <2>3, <2>4, SameStreams DEF KernelInv, KernelTypeOK
<1> QED BY <1>1, UnchangedInv DEF CloseCall, InvalidCall

LEMMA DeliverRstInv ==
  ASSUME KernelInv, NEW x \in Endpoints, DeliverRst(x)
  PROVE  KernelInv' /\ StreamsGrow
BY SameStreams DEF KernelInv, KernelTypeOK, DeliverRst, RstStates

-------------------------------------------------------------------------------
(* The two calls that move bytes. *)

\* A send appends, and nothing else about the streams changes.
LEMMA SendOkInv ==
  ASSUME KernelInv, NEW x \in Endpoints, NEW bytes \in Seq(Byte), SendOk(x, bytes)
  PROVE  /\ KernelInv' /\ StreamsGrow
         /\ sent'[x] = sent[x] \o bytes
         /\ \A y \in Endpoints \ {x} : sent'[y] = sent[y]
<1>1. /\ sent'[x] = sent[x] \o bytes
      /\ \A y \in Endpoints \ {x} : sent'[y] = sent[y]
      /\ sent' \in [Endpoints -> Seq(Byte)]
  BY DEF SendOk, KernelInv, KernelTypeOK
<1>2. KernelTypeOK'
  BY <1>1 DEF SendOk, KernelInv, KernelTypeOK, RstStates
<1>3. \A y \in Endpoints : Extends(sent[y], sent'[y])
  <2> SUFFICES ASSUME NEW y \in Endpoints PROVE Extends(sent[y], sent'[y])
    OBVIOUS
  <2>1. sent[y] \in Seq(Byte)
    BY DEF KernelInv, KernelTypeOK
  <2>2. CASE y = x
    BY <1>1, <2>1, <2>2 DEF Extends
  <2>3. CASE y # x
    BY <1>1, <2>1, <2>3 DEF Extends
  <2> QED BY <2>2, <2>3
<1>4. read' = read /\ read \in [Endpoints -> Nat]
  BY DEF SendOk, KernelInv, KernelTypeOK
<1>5. StreamsGrow
  BY <1>3, <1>4 DEF StreamsGrow
<1>6. ReadBound'
  <2> SUFFICES ASSUME NEW y \in Endpoints PROVE read'[y] <= Len(sent'[Peer(y)])
    BY DEF ReadBound
  <2>1. Peer(y) \in Endpoints /\ sent[Peer(y)] \in Seq(Byte) /\ sent'[Peer(y)] \in Seq(Byte)
    BY <1>1, EndpointFacts DEF KernelInv, KernelTypeOK
  <2>2. read[y] <= Len(sent[Peer(y)]) /\ Len(sent[Peer(y)]) <= Len(sent'[Peer(y)])
    BY <1>3, <2>1 DEF KernelInv, ReadBound, Extends
  <2> QED BY <1>4, <2>1, <2>2
<1> QED BY <1>1, <1>2, <1>5, <1>6 DEF KernelInv

\* A recv of n bytes returns the next n bytes of the peer's stream.
LEMMA RecvDataInv ==
  ASSUME KernelInv, NEW x \in Endpoints, NEW n \in Nat, RecvData(x, n)
  PROVE  /\ KernelInv' /\ StreamsGrow
         /\ UNCHANGED sent
         /\ read' = [read EXCEPT ![x] = read[x] + n]
         /\ read[x] + n <= Len(sent[Peer(x)])
         /\ Chunk(x, n) \in [1..n -> Byte]
         /\ \A i \in 1..n : Chunk(x, n)[i] = sent[Peer(x)][read[x] + i]
<1>1. /\ read[x] \in Nat
      /\ sent[Peer(x)] \in Seq(Byte)
      /\ sent' = sent
      /\ read' = [read EXCEPT ![x] = read[x] + n]
      /\ read[x] + n <= Len(sent[Peer(x)])
  BY EndpointFacts DEF KernelInv, KernelTypeOK, RecvData, Unread
<1>2. KernelTypeOK'
  BY <1>1 DEF KernelInv, KernelTypeOK, RecvData
<1>3. ReadBound'
  <2> SUFFICES ASSUME NEW y \in Endpoints PROVE read'[y] <= Len(sent'[Peer(y)])
    BY DEF ReadBound
  <2>1. read[y] <= Len(sent[Peer(y)])
    BY DEF KernelInv, ReadBound
  <2> QED BY <1>1, <2>1 DEF KernelInv, KernelTypeOK
<1>4. StreamsGrow
  BY <1>1, EndpointFacts DEF StreamsGrow, Extends, KernelInv, KernelTypeOK
<1>5. \A i \in 1..n : sent[Peer(x)][read[x] + i] \in Byte
  BY <1>1
<1>6. /\ Chunk(x, n) \in [1..n -> Byte]
      /\ \A i \in 1..n : Chunk(x, n)[i] = sent[Peer(x)][read[x] + i]
  BY <1>5 DEF Chunk
<1> QED BY <1>1, <1>2, <1>3, <1>4, <1>6 DEF KernelInv
===============================================================================
