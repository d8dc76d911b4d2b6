# tcpip-demo: a verification project

The repository holds small TCP and UDP client/server demos in C++, C, Python,
Java, Go and (empty) Rust. This project models all of them that do something: the
TCP and UDP classes of the C++ demo with its five modes of operation, the demo
without classes (C++ mode 0, the C program, Python) for both protocols, the UDP half
of Java, and the line protocol of Go. It checks and proves what the two threads of
a program, their peers in other processes and the socket layer or the network
between them do together. All paths below are relative to the repository.

## 1. Inventory

| Part | State | Operations | Interacts with |
|---|---|---|---|
| `src/tcpip-cpp/main.cpp`, `definitions.h`, `core/server.cpp`, `core/client.cpp` | the configuration; two threads | `startupCode`, starting the server thread, 1 ms later the client thread, joining both; the choice of class by type, mode and protocol | starts and joins both sides |
| `core/TcpipBase`, `core/tcpipCommon` | `reception_buffer`, address and port, `socket_t` | buffer allocation, `closeSocket`, error codes | base of all four classes |
| `core/tcp/TcpServerClass` | listening socket, client socket, fd sets, buffer | `setup`, `acceptConnection`, `perforMode1Echo`, `performMode2`, `performMode3`, `performMode5`, destructor | one client through the socket layer |
| `core/tcp/TcpClientClass` | connection socket, packet queue, buffer | `setup` (address loop), `performSendOperation`, `performRecvOperation`, destructor | the server through the socket layer |
| `core/udp/*` | one socket, the sender's address, buffer | set up, one datagram each way | the peer, over a network that may lose, double and reorder |
| `oneshot_demo/*` (C++), `src/tcpip-c` | local variables of one function per role | mode 0: one exchange, with its own error paths for Unix and Windows | the same |
| `utility.cpp` | a configuration under construction | the command line dialogue | fills the configuration |
| `src/tcpip-python` | a global retry counter | TCP: one `recv`; UDP: retry after a reset | sockets |
| `src/tcpip-java` | a buffer per service | UDP echo; an unfinished TCP half | sockets |
| `src/tcpip-go` | a reader per line | a line protocol | sockets |
| `src/tcpip-rust`, spdlog, build and IDE files | | empty program, external logger, build | |

What is hard in this code:

* *interleaving*: the client may connect before the server listens; another
  process may be accepted instead of the local client; a client may sit in the
  backlog when the listening socket is closed; closes, resets and `SIGPIPE` race
  with sends on both sides;
* *unreliable, divided delivery*: TCP splits a text anywhere, UDP loses it;
* *stale state*: the reused buffer, the fd sets that `select` overwrites,
  descriptors closed twice whose number the other thread may have been given,
  `retval` variables that are tested and not assigned or assigned and shadowed,
  comparisons of an unsigned `SOCKET` with 0, readers thrown away with what they
  had read ahead (Go), texts printed without a terminator;
* *partial failure*: every call may fail and each function returns from the
  middle;
* *retry*: the Python UDP client asks again while its earlier request may still
  be on its way;
* *waiting*: both sides receive until the peer shuts down, main joins both.

What makes each part correct:

* server: the accepted client, and nobody else, gets what the mode promises; it
  takes everything before it shuts down; it gets done with any client; it leaves
  no listening socket and no connection open;
* client: what it prints is what was sent to it; "Server closed connection" means
  the exchange was complete; a rejected client notices; it always ends, its
  connection closed (the sockets of refused addresses stay open: a leak of the code,
  which is bounded);
* whole program: both threads are joined; no process dies of a signal; closing a
  descriptor takes no listening socket and no connection from the other thread.

The hazards, each at its line and with the properties that watch it, are in
`PROJECT.json`.

## 2. Modules

```
             TestBed                          (the programs of a test bed)
            /       \
   DemoConfig       ProgramConfig             (how each is configured)

TestBed  ReceptionBuffer
      \    /
    TcpKernel                                 (sockets of TCP, external)
       |
       +-- DemoConfig -- TcpServerClass, TcpClientClass
       |                       \         /
       |                        TcpDemo  .... ServerContract (INSTANCE)
       |                       /       \
       |              TcpDemoMC   TcpDescriptors -- TcpDescriptorsMC
       |
       +-- ProgramConfig -- TcpOneshotIO -- TcpOneshotServer, TcpOneshotClient
       |                                            \         /
       |                                          TcpOneshot  .... ServerContract, mode 1
       |                                              |
       |                                         TcpOneshotMC
       +-- GoLines -- GoLinesMC

ProgramConfig  ReceptionBuffer
        \      /
       UdpNetwork                             (datagrams, external)
        /      \
        |       ScriptUdp -- ScriptUdpMC .... EchoOnce (INSTANCE)
UdpServer, UdpClient
        \       /
         UdpDemo -- UdpDemoMC ............... EchoOnce (INSTANCE)
```

The layers below:

* **TestBed** - `LocalClient` stands for the observed program (its server and its
  own client thread); the other clients are programs started elsewhere.
* **DemoConfig** - the configuration of the class demo: type, mode and build. Remote
  programs run as `CLIENT_ONLY` in a mode of their own. The build (`"unix"`,
  `"windows"`) decides about `SIGPIPE` and about whether `socket < 0` can ever be
  true.
* **ProgramConfig** - where the programs differ: each is the classes, the procedural
  functions, the C program, Python or Java, on a Unix or on Windows. `RunsServer`
  and `RunsClient` say which of them start which side; they contain the wrong tests
  of `core/server.cpp:17` and its correct counterparts.
* **ReceptionBuffer** - what `recv`, `buffer[retval] = '\0'` and printing as a C
  string do to the vector of `BUFFER_SIZES` bytes; TLA+ index i + 1 for index i.
* **TcpKernel** - the socket layer, external, with the outcomes the code has to
  be ready for: recv returns any non-empty part of what is unread, 0 at the FIN,
  -1 after a reset; closing with unread bytes resets; sending to a closed peer is
  answered by a reset and the send after that raises `SIGPIPE` on a Unix; any
  call may fail on its own, at most `MaxFaults` times. A stream is the history of
  the bytes sent and the number received.
* **UdpNetwork** - datagram sockets and the network, external: the datagrams on
  their way are a set, so they overtake each other; one may be lost or delivered
  twice; one that finds nobody bound is dropped, and on Windows the sender's next
  recv reports it. `EndProcess` is what the system closes with a process.

The TCP classes:

* **TcpServerClass** - `serverApplication` and the server object, one action per
  blocking call. `spc` is the place in the code, `conn` is `clientSocket`,
  `retval`, `buffer` and `rfds` are the variables of those names, `sret` is what
  `performOperation` returned. Every `return 1` is `ReturnError`, after which the
  two closes of the destructor follow.
* **TcpClientClass** - the same of the client, one instance per program:
  `attempt` is the position in the list of `getaddrinfo` of the address being tried,
  `ServerAddrs` the positions at which a program's list has the server, `packet` the position in the queue, `cbuf`
  the buffer, `shown` all text printed, `verdict` what was reported in the end.
* **TcpDemo** - main, the threads, remote programs, what the system does after a
  process was killed (`Reap`), the network's own step, the properties, and the
  refinement mapping to `ServerContract`.
* **ServerContract** - what a server promises, without sockets, buffers and
  threads: it serves at most one client, takes its bytes in order, replies as the
  mode says, and either finishes in order or fails.
* **TcpDescriptors** - TcpDemo with the descriptor numbers of its process: `fds` is
  the table of the system, which hands out the lowest free number, `listenSocket`,
  `clientSocket` and `connectSocket` are the members, which keep a number after it
  is closed. `close` takes what a number stands for by then; `hit` remembers the
  listening sockets and connections closed by somebody they did not belong to. A
  socket of the client exists between `socket` and `connect` here, and stays open
  when the address refuses, whether or not the next one accepts.

The demos without classes:

* **TcpOneshotIO** - what these programs do with the bytes of a recv: they receive
  into the whole buffer and print it without a terminator (`log` is the text
  printed last, `overrun` the ends that read past their buffer), the C program from
  a stack that may hold anything (`StackContents`), Python from a bytes object.
* **TcpOneshotServer**, **TcpOneshotClient** - `tcpServerOneshot` and
  `tcpClientOneshot` with their bodies for both platforms, `tcp_server_oneshot` and
  `tcp_client_oneshot` of the C program, `tcp_server` and `tcp_client` of Python:
  one skeleton each, whose branches are the differences. Errors that go unnoticed
  (`NoticesInvalid`), the missing shutdown and the single recv of Python and the
  order of its `close` are among them.
* **TcpOneshot** - main (`start_demo` in C, `main` in Python), with the failing
  thread creation of each, remote programs, properties, and the mapping to mode 1
  of the same `ServerContract`.
* **UdpServer**, **UdpClient** - the UDP classes, `udpServerOneshot`,
  `udp_server_oneshot` and their clients, again as one skeleton. `spc` is the
  place, `sender` the address received, `nbytes` is `bytes_to_send` (`retval` in
  the functions), `sbuf` the buffer; `addrs` is who owns the list of
  `getaddrinfo`, `undef` the clients that wrote in front of their buffer or freed
  the list twice. After an error the class goes to its destructor, the C function
  to `cleanup_sockets`, the procedural function nowhere (`Leaving`). The C program
  sends its terminator along and receives into a buffer on its stack (`OldBuffers`).
* **UdpDemo** - main, the threads, remote programs, `Crash` (a process may be ended
  any time after something undefined, or go on), the properties and the mapping.
* **EchoOnce** - what a UDP demo promises: of those who asked at most one is
  answered, at most once, and hears its text.

The other languages:

* **ScriptUdp** - UDP in Python and Java. `try` is Python's global `ERR_IDX`: after
  a `ConnectionResetError` the client closes its socket and calls itself, so every
  attempt has a socket of its own, which play the clients of `EchoOnce`. Java binds
  in a constructor, before a thread runs, answers with its whole buffer, and its
  server thread ends the process after an exception.
* **GoLines** - TCP in Go. `part` is what a reader holds in search of a newline; a
  line found drops the rest of the packet with the reader (`ReadString`).
  `Collect` is the garbage collector's close of the connection the server leaves
  open.

Theorems are in modules of their own, beside the module they are about:
**ReceptionBufferProofs** and **TcpKernelProofs** for the layers below,
**TcpDemoProofs** (the steps of either thread, what is delivered, the contract),
**TcpClosingProofs** (how connections end, and the descriptor numbers of
TcpDescriptors), **TcpOneshotProofs**, **UdpDemoProofs**, **ScriptUdpProofs**,
**GoLinesProofs**.

The operators whose comment starts with "Slip:" are wrong versions of the
operator below them: each is a plausible mistake, and every property has one
that breaks it. They are not part of the specification.

## 3. Runs

Each run uses the MC module of its system. `CHECK_DEADLOCK FALSE` is set everywhere
because the programs are meant to end; that they do is a liveness property.

| Run | Question | Result |
|---|---|---|
| `tcp_safety` | All types, modes and builds, a local and a remote client, packets of any size, one failing call of any kind: what is delivered and printed, who is served, that no connection is left open, who dies of `SIGPIPE`, and that the server implements its contract | holds |
| `tcp_liveness` | The same where any one call may fail, modes 1 to 4: a connected client ends, main joins both threads, the server gets done with its client | holds |
| `tcp_descriptors` | The same threads with the descriptor numbers of their process: what the second closes hit, what leaks (also beside a connection made at a later address), and that otherwise numbers change nothing | holds |
| `tcp_oneshot` | C++ mode 0, C and Python paired in every way on both platforms, one failing call: what is echoed and printed, who breaks pipes, that no connection is left open, and that the contract of the class is kept | holds |
| `tcp_oneshot_liveness` | The same programs on a Unix, any one call may fail: a connected client ends, main joins both threads once the server has a client | holds |
| `udp_demo` | A server and two clients, each the class, the procedural or the C program on either platform, one failing call, one loss, one duplicate: who is answered and prints what, what is undefined, whose socket is left open, that the demo implements `EchoOnce`, and whose client ends | holds |
| `script_udp` | Python and Java, one failing call, one loss, one duplicate: which of Python's attempts is answered, that one is and once, and that a client on Windows and the Java program come to an end | holds |
| `go_lines` | The Go server with its own and another program's client, every split of the lines over reads, one failing call: which lines survive the readers thrown away, and that every user gets out | holds |
| `tcp_autoterminate` | "the program will exit automatically" (`demoConfig.h.in:23`) | violated: a client that connects too early leaves the server in accept and main in join |
| `tcp_mode3` | "Receive until the peer shuts down the connection" (`TcpServerClass.cpp:227`) | violated: the loop variable is never assigned |
| `tcp_select` | the same with select (`TcpServerClass.cpp:249`) | violated: after one timeout the sets stay empty |
| `tcp_serveronly` | "run server or client only" (`src/README.md:4`) | violated: `SERVER_ONLY` runs no server |

Two more deviations are in the models without a run of their own. The promise of
`tcp_autoterminate` is broken by UDP as well: a datagram that comes before the
server's bind leaves client, server and main waiting (`AnsweredEnds` and
`ClientGetsDone` are stated about those it does not happen to). On Windows
`connectSocket < 0` is never true, so a client that was refused everywhere goes on
and sends on `INVALID_SOCKET`; `RejectedIsTold` says that it comes to no harm by it.

**Bounds (TCP classes).** Two clients: one is accepted, the other rejected, in either
order. `BufSize` 3 with a text of 3 bytes: a text needs at least two recvs and may
need three, a short packet follows a longer one, and the largest recv fills the
buffer up to the terminator. The queue of mode 3 has three packets, so that a reset
can come before, between and after the sends. Two addresses: the local client's
list has the server in the second place only, so it connects after a refusal or not
at all; the remote one's in both (`MCServerAddrs`). One failure reaches every error path, as each returns; two failures
only lengthen a path already taken. The liveness run uses texts of 2 bytes and
`BufSize` 2 (a recv of one byte at a time), and one address. `tcp_descriptors` has
two addresses, at either of which the server may accept or refuse, and as many
numbers as both threads can hold at once: the first address is refused before the
server listens, and while its socket stays open the second one connects, or is
refused too. Texts of two bytes suffice there, as numbers do not depend on what is
sent.

**Bounds (without classes).** A text of 3 bytes in a buffer of 4 (as in the code, the
text is shorter than the buffer), so that all splits occur and an earlier packet can
be longer than a later one; a stack without any zero, the worst there is. A buffer of
the C++ or Python program is never full, as no program of the repository sends that
much: of the two ways to read past a buffer only that of the C program's stack can
occur. Two addresses: the local client's list has the server in the last place, the
other one's in the first.

**Bounds (UDP).** Two clients compete for the one answer. The text is one byte in a
buffer of three: with the C program's terminator the datagram is as long as the
buffer allows while every program still has room for its own, so the copy, the
terminator and the printing differ between the three programs. One loss, one
duplicate and one failing call suffice to lose, double or break each of the four
datagram steps; a duplicate of the request stays queued at the server, one of the
reply at the client. `script_udp` has all four attempts of the code (`LastTry`).

**Bounds (Go).** Each user types one message and then STOP, or STOP at once. A message
is two lines of the server, so that already one message puts up to four lines in
the way of STOP, over all the splits of a packet; the letters of a text are
two, so that its front can be lost.

**Fairness.** Weak fairness of main, of each thread, of the network's delivery of
a reset and of the system's clean-up: the operating system schedules runnable
threads and TCP delivers. A thread's fairness is `WF_vars(Thread /\ UNCHANGED
faults)`: a call that may fail is never obliged to, so no property holds because
a waiting thread is released by an error. Starting a remote program is not fair
(nobody has to). A thread blocked in recv or accept is not enabled, so fairness
never unblocks it. In the UDP runs the network is weakly fair as well: what is on
its way arrives unless it is lost. A client that is not served waits for ever,
which is what the code does; the liveness properties are therefore about the
client whose request was taken. In Go, `Collect` is fair because the runtime
collects garbage at least every two minutes, and the users type something in the
end and STOP at last.

**Exceptions stated in the properties.** In mode 3 a client goes on to shutdown
and recv after a failed send; the reset has been consumed by then, so a rejected
client of mode 3 may print "Server closed connection" (`RejectedIsTold` exempts
it). Mode 5 is in the safety runs only: its loop may not end (`tcp_select`), and on
Windows a failed accept makes it spin in select. `NoSigPipe` is about
servers of modes 1, 2 and 5; one of mode 3 stops receiving after a packet and one of
mode 4 receives nothing, so that a client that sends on may be killed. `StaleCloseNeedsFailure` says
that no close takes a listening or a connected socket from the other thread
unless a call has failed. A socket between `socket` and `connect` is another matter:
the server's second close may take it from the client without any failure, but only
when nobody listens any more, so that its connect would be refused anyway. After a
failure all of it happens, and the run's `ImplementsTcpDemo` covers the steps up to
then. `ConnectionsClosed` is about listening sockets, connections and the backlog, and
not about the socket of each refused address, which `setup` overwrites
(`TcpClientClass.cpp:168-180`) and leaves open, also when a later address accepts;
`OnlyRefusedLeak` says that nothing else stays open, and counts them: at most one for
each address tried, less the one that accepted. `OnlyPythonBreaksPipes` and `EofAfterWholeEcho` exempt the Python client,
which leaves after the first part of its echo. `PrintsReceived` exempts the C
program from what only its unterminated stack buffer can do. `UndefinedOnlyAfterError`
says when the UDP class runs into undefined behaviour and not that it never does:
after a failed call, or on Windows in the very recv that reports that the request
found no server.
`ServerSocketClosed` exempts the C server whose bind failed
(`udp_server_oneshot.c:69` cleans up without the socket) and the procedural server,
which never closes its socket. `PrintsTails` promises the ends of messages only,
since Go's readers lose the rest.

## 4. Proofs

All theorems hold for any value of the constants that satisfies the named `ASSUME`s
of the modules: constants are of their types, the local program is one of the
programs, the terminator is not a payload byte. Sets of programs, byte sets, texts,
buffer sizes, numbers of addresses and numbers of failures, losses and duplicates
are arbitrary, and so is where in a program's list the server is. Proved are all
invariants and action properties of all passing runs, and all refinements:
of `ServerContract` by both TCP demos, of `EchoOnce` by both UDP demos, of TcpDemo by
the process with descriptor numbers. What each invariant needs to be inductive is
said below.

**The buffer.** `PrintedText`: receiving n bytes into any buffer, terminating and
printing gives exactly these n bytes. It rests on the least terminator being at
n + 1 (`LeastOf`: every nonempty set of naturals has a least member). Without a
terminator (`OverwriteFacts`, `CStringShows`) the text printed is the front of the
buffer up to its first zero, so it starts with the bytes received.

**TcpDemo**

* `TypeCorrect`, `TypeSafety`: `TypeInv` is inductive. Types alone are not: that a
  recv stays within what the peer has sent needs `ReadBound`, that bytes are taken
  from an existing client needs the places where `conn` is one (`Opening`,
  `Holding`), that a packet exists needs the bound on `packet`, and that main's
  spawning cannot restart a thread needs its place related to theirs. Each step of
  a thread keeps the kernel's invariant and its own, `ServerStepInv` and
  `ClientStepInv`; the steps of the socket layer have one lemma each, and all
  streams only grow (`StreamsGrow`).
* `ReplyIntegrityHolds`: the property says what has been sent; it is not inductive
  because it does not say what is in the buffer. `ReplyInv` adds, for each place
  in the code, how the two streams and the buffer relate: between recv and send in
  mode 1 the reply is exactly `retval` bytes behind what was read and the front of
  the buffer holds these bytes. Steps of others preserve it since streams grow and
  never change.
* `LogIsFaithful`: what a client has printed is a prefix of the server's stream as
  long as what it has read; each recv appends the text of `PrintedText`.
* `DrainsBeforeShutdownHolds`: `DrainInv` says where in its code the server has
  received everything: before the shutdown of modes 1, 2 and 5 either the client's
  stream is read up to its FIN or the server has been told of a reset, and then
  the shutdown fails. That this stays so once it is true needs `Silent` (nobody
  sends after its FIN) and `FinLast` (the server's FIN is the last thing it does).
* `ContractImplemented`: each action maps to one of `ServerContract` or a stutter.
  Receiving takes, echoing or replying replies, the shutdown finishes (by `Drain`
  it is only reached when all is taken and, in mode 2, sent), every `return 1` and
  the death of the process fail. The steps of clients ask and end.
* `ConnectionsClosedHolds`: when a thread is done it has left no listening socket, no
  connection and nobody in the backlog. `SocketInv` says at which places the listening socket may
  be open, that a client waits in the backlog only while it is, and that no
  connection but that of `conn` is open.
* `RejectedIsToldHolds`: `QueueInv` and `TellInv` follow the connection of a client
  that was not accepted from the backlog to its reset, and say that no stream of
  the server or FIN can reach it on any path but the one exempted.
* `EofMeansCompleteHolds`: `Orderly` relates the FIN a client has read to an
  orderly end of its server, and that to `Drain` and `ReplyInv`.
* `NoSigPipeHolds`, of the servers of modes 1, 2 and 5: a process is killed by the send after the one that was answered
  by a reset. `PipeInv` says why no thread gets that far without a failed call: a
  server that has been reset (`ServerReset`) was so by a client at a place where
  it does not send any more, a client whose pipe is broken (`ClientPipe`) has
  nothing left to send, and as long as no call has failed (`CalmInv`) nobody
  closes early.

**TcpOneshot**

* `OneshotTypeSafety`: the same argument without packet queues; an accept whose
  failure goes unnoticed leaves the server without a client, but there is one
  wherever bytes are echoed (`ServerInv`).
* `EchoIntegrityHolds`: as `ReplyInv`, for any pairing of programs: between recv and
  send the front of the buffer is what was read last.
* `PrintsReceivedHolds`: of a buffer that started as zeros all bytes but zeros were
  received, which stays true of the leftovers of earlier packets; and there is
  always a zero, since what was sent in all is shorter than the buffer.
* `SocketsClosedHolds`: `SocketInv` says where the listening socket may be open, that
  a client waits in the backlog only while it listens, and that an error code is
  returned from two places only, each with its close before it.
* `EofAfterWholeEchoHolds`: `DrainInv` says that the server's FIN is the last thing
  it does (`FinLast`), that it arrives there without an error only when all of the
  client's stream, FIN included, is read and echoed (`Drain`), and that a client
  told of a reset reports an error and not an end (`ClientEnd`). What the parts of
  the invariant relate is disturbed by the other threads in few ways, which
  `ServerTouches` and `ClientTouches` list.
* `ContractKept`: the refinement of `ServerContract` with mode 1. Where C and C++
  finish with the shutdown, Python finishes when it has received the end of the
  stream, as it closes without a shutdown; `EndFinishes` serves both.
* `OnlyPythonBreaksPipesHolds`: while no call has failed and the client served is
  not Python's (`Calm`), whoever waits in the backlog or is being served is in the
  middle of its exchange, its connection open in both directions and never reset,
  and the server has returned no error (`Quiet`). So the server cannot be at a send
  on a broken connection; and a client at its send has not ended its side, while a
  server that is done without an error has received that end (`Drain`). `PipeInv`
  adds what `Quiet` starts from: that a client not yet connected has no trace in
  the socket layer (`Unconnected`), and that those in the backlog wait there once
  each (`Queue`), since otherwise an accept could take somebody who is not waiting.

**UdpDemo**

* `Invariance`: `IInv` is inductive. `QueueInv` says that whatever is on its way or
  queued anywhere is a request of somebody who asked or the one reply to the
  sender, and the latter only after the server has answered; `ServerInv` that the
  server has a sender only from then on, never takes another, and between receive
  and send holds exactly the sender's text; `ClientInv` that a client printed
  something only if it is the one answered. Neither part is inductive alone: the
  reply is right because of what the server holds, which is right because of what
  was queued. Messages never become invalid (`MessagesKept`), so losses,
  duplicates and the ends of processes need no argument of their own.
* `OwnEchoCorrect` follows, with `PrintedRequest`: whatever was in the buffer and
  whether or not the terminator came along, the text printed is the text sent.
* `Refinement`: every step is a step of `EchoOnce` or leaves its variables alone.
  Receiving at the server takes a request, echoing (or failing to) answers it,
  receiving at the client hears it; under `IInv` no other step changes what is
  taken, answered or heard.
* `UdpTypeCorrect`: the types; the byte count needs `QueueInv`.
* `ServerSocketClosedHolds`: an invariant that relates the places of the server to its
  socket.
* `UndefinedNeedsError` is about steps. As long as no call has failed a client that
  sends has a socket and one that waits has sent from it (`UndefInv`), so a recv that
  fails was told by the network that there is no server; and a list is freed twice
  only after a failed `socket`.

**TcpDescriptors**

* `FdInvariant`: `FdInv` is inductive. The table alone is not: that a thread closes
  its own socket needs `Owned`, which says of each number in use that its owner
  still has it in its member and is at a place where it has not closed it. That
  there is a free number at all (`Lowest` is a `CHOOSE`) is a count: the client has
  opened at most one number per address it tried (`CountInv`), the server two; where an
  address has accepted, its number is not among those the refused ones have left.
  `MirrorInv` relates the table to the sockets of TcpDemo as long as nothing was
  hit, `OnceClosed` says what a number closed once may stand for by the time it is
  closed again.
* `StaleCloseNeedsFailureHolds`: the server closes its listening socket again in the
  destructor. In between the client may have got that number only for a socket it
  cannot connect, as the listener is closed; and the client closes its own again
  only after the server is done with opening, unless a call has failed. Nor is the
  socket it is about to connect taken before the server has closed the listening
  one. This is `OnceClosed`, which holds without a failure and not with one;
  `MirrorInv` then says that nobody listens where such a socket was taken.
* `OnlyRefusedLeakHolds`: `Owned` with both threads at their end leaves sockets that
  were never connected, and `CountInv` says how many.
* `DescriptorsImplement`: every step is a step of TcpDemo, a stutter, or one that hits
  a socket of the other thread. That closing a number closes the socket meant relies
  on TcpDemo's own invariants, which cannot be taken over from `Spec` before the
  refinement is shown; so `FdInv` carries them along (`EndsInv`, whose steps were
  shown above, and `BacklogInv`) until the first hit. `NumbersDoNoHarm` puts the
  two together: without a failed call nothing is hit, hence the behaviours are those
  of TcpDemo, with all that is proved of it.
  `UnhitKeepsPromises` states the weaker case with failed calls: until a hit of a
  listening or connected socket, replies, drained streams and closed connections are
  as in TcpDemo.

The specification is about a Unix (`FdInit`), whose numbers are handed out in order.

**ScriptUdp**

* `ScriptTypeSafety`, `AnswersTheLastTryHolds`: that the try answered is the one the
  client waits with is about all requests there may be at once. `OneRequest` says
  that without duplicates there is at most one, on its way, queued or taken, always
  from the client's present socket, and none once that socket was refused: this is
  why a try after a reset never races with its predecessor. With duplicates it is
  false, and the theorem says so in its premise. `QueueInv` and `ServerInv` are as in
  UdpDemo; `AskedInv` says that a socket not yet used has not asked.
* `ScriptRefinement`: the tries are the clients of `EchoOnce`. The reply of Java is its
  whole buffer (`TextEchoed`) and what the client takes of it the text (`EchoedText`).

**GoLines**

* `GoInvariant`: `Messages` says what a client's stream looks like, at every position,
  and not by an induction over the messages typed: each letter is part of a message
  between newlines, and later messages have larger letters. `HoldsLast` says that a
  reader holds the last bytes read, from `LineStart` on. `PrintsTails` is then
  inductive with `LinesRead`: every line printed ends before `LineStart`, so
  that the next one is of a later message or empty.
* `PrintsTailsHolds` and `GoTypeSafety` are parts of it. A line found ends at the
  first newline, the least of a set of positions.
* `FirstMessageArrivesHolds`: `FirstLine` follows the first message while no reader has
  been thrown away (`Serving`). That nothing but a failed write lets a client go on
  to its next message with nothing sent is `FirstSent`, and that no connection ends
  before the server or its program does is `NothingEnds`. The property used to name
  only the user's first message; that is true with one failing call, which is what
  the run has, and false with two: the write fails, then the read that waits for
  the answer, and the second message is the first to leave. The attempt to prove it
  showed this, and the property now has the exception.

Only model-checked: what must happen eventually (`ConnectedEnds`, `DemoFinishes`,
`ServesToTheEnd`, `OneshotConnectedEnds`, `OneshotFinishes`, `AnsweredEnds`,
`ClientGetsDone`, `JavaFinishes`, `UsersLeave`): liveness under fairness needs
ENABLED, which the provers used here do not handle.

## 5. Not modelled

* Wording of logs, the mode information (`printModeInfo`), the prompt at the end,
  `WSAStartup` and what `WSACleanup` does to a process's sockets, memory of address
  lists in the TCP modules.
* The command line configuration (`utility.cpp`): a dialogue of one thread before
  any other exists. It sets the type and the mode, which the runs enumerate, drops
  the port and address it asks for, and leaves the protocol as it was, which with
  `CLI_MODE` 1 is uninitialised.
* Go: the end of standard input, on which the client loops sending empty lines,
  and a `%` in a text, which `Fprintf` takes for a verb.
* Java's TCP half, which is unfinished and not called.
* Descriptor numbers of other systems than a Unix (Windows does not hand out the
  lowest handle), and of programs with one thread using sockets.
* The UDP test bed has no other programs on its port: no empty datagrams, none from
  strangers and none longer than the buffer. Remote programs run on other hosts and
  are configured with the server's address, so a server they start themselves
  cannot bind it.
* Rust (an empty program), spdlog, build and IDE files.

## 6. What is left

All components with behaviour of their own are modelled, and every safety property
the runs check is proved. Further models would be of what section 5 lists, first of
all descriptor numbers of the programs without classes. Further proofs would be of
liveness, with other provers than the ones used here.
