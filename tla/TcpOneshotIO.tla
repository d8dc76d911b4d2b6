------------------------------ MODULE TcpOneshotIO -----------------------------
(***************************************************************************)
(* What the echo programs without classes do with the bytes of a recv.     *)
(* The C and C++ ones receive into the whole buffer, without leaving room  *)
(* for a terminator or writing one, and print it as a C string; the buffer *)
(* is a vector of zeros in C++ and on the stack in C.  Python prints the   *)
(* bytes object it got.                                                    *)
(***************************************************************************)
EXTENDS TcpKernel, ProgramConfig

CONSTANT StackContents   \* what a buffer on the stack may hold before its first use

ASSUME OneshotAssumption == /\ ProgramsUsed \subseteq {"procedural", "c", "python"}
                            /\ StackContents \subseteq Buffers

VARIABLES buf,      \* reception_buffer, rec_buf: of either end of a connection
          got,      \* result of the last recv, 0 before the first
          log,      \* the text printed last
          overrun   \* ends that printed past the end of their buffer

ioVars == <<buf, got, log, overrun>>

IOTypeOK == /\ buf \in [Endpoints -> Buffers]
            /\ got \in [Endpoints -> 0..BufSize]
            /\ log \in [Endpoints -> Seq(Byte)]
            /\ overrun \subseteq Endpoints

IOInit == /\ buf = [x \in Endpoints |-> EmptyBuffer]
          /\ got = [x \in Endpoints |-> 0]
          /\ log = [x \in Endpoints |-> <<>>]
          /\ overrun = {}

ProgramAt(x) == Program(IF x[2] = "client" THEN x[1] ELSE LocalClient)

\* Until the first recv the buffer of the C program is what the stack holds.
Before(x) == IF ProgramAt(x) = "c" /\ got[x] = 0 THEN StackContents ELSE {buf[x]}

Terminated(b) == \E i \in 1..BufSize : b[i] = NUL

Printed(x, chunk, b) == IF ProgramAt(x) = "python" THEN chunk ELSE CString(b)

\* Slip: a terminator is written, but over the last byte received.
PrintTerminated(x, n) ==
  /\ RecvData(x, n)
  /\ \E old \in Before(x) :
       LET b == Terminate(Overwrite(old, Chunk(x, n)), n - 1) IN
       /\ buf' = [buf EXCEPT ![x] = b]
       /\ log' = [log EXCEPT ![x] = Printed(x, Chunk(x, n), b)]
       /\ overrun' = overrun
  /\ got' = [got EXCEPT ![x] = n]

\* recv and the printout after it; printing an unterminated buffer reads on.
RecvAndPrint(x, n) ==
  /\ RecvData(x, n)
  /\ \E old \in Before(x) :
       LET b == Overwrite(old, Chunk(x, n)) IN
       /\ buf' = [buf EXCEPT ![x] = b]
       /\ log' = [log EXCEPT ![x] = Printed(x, Chunk(x, n), b)]
       /\ overrun' = IF Terminated(b) \/ ProgramAt(x) = "python" THEN overrun
                     ELSE overrun \cup {x}
  /\ got' = [got EXCEPT ![x] = n]

\* Slip: the server sends all its buffer back.
AllOfIt(x) == buf[x]

\* What the server sends back: as many bytes as it received.
Front(x) == [i \in 1..got[x] |-> buf[x][i]]

-------------------------------------------------------------------------------
(* How a program notices errors *)

\* socket and accept are compared with 0 in the Unix body of mode 0, so that
\* their -1 goes unnoticed until a call on it fails.
NoticesInvalid(c) == Program(c) # "procedural" \/ cfg[c].build = "windows"

\* A send on a broken connection raises a signal on a Unix, which Python ignores.
SigPipeIn(c) == cfg[c].build = "unix" /\ Program(c) # "python"

SendFailsIn(c, x) == SendFails(x, SigPipeIn(c))
===============================================================================
