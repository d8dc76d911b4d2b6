---------------------------- MODULE ReceptionBuffer ----------------------------
(***************************************************************************)
(* The reception_buffer every TcpipBase object owns: a vector of BufSize   *)
(* zero bytes that recv overwrites from the front and that is printed as a *)
(* C string.  Index i of the code is index i + 1 here.                     *)
(***************************************************************************)
EXTENDS Integers, Sequences

CONSTANTS Byte,      \* the payload bytes; the demo sends text only
          BufSize,   \* tcpip::BUFFER_SIZES
          NUL        \* the string terminator

ASSUME BufferAssumption == /\ BufSize \in Nat /\ BufSize > 1
                           /\ NUL \notin Byte

Buffers == [1..BufSize -> Byte \cup {NUL}]
EmptyBuffer == [i \in 1..BufSize |-> NUL]

\* Slip: receiving capacity() bytes leaves no room for the terminator.
WholeBuffer == 1..BufSize

\* The sizes a recv of capacity() - 1 bytes may return.
RecvSizes == 1..BufSize - 1

\* What recv does: the rest of the buffer keeps what it had.
Overwrite(buf, chunk) ==
  [i \in 1..BufSize |-> IF i <= Len(chunk) THEN chunk[i] ELSE buf[i]]

\* Slip: nothing ends the text after a short packet.
Unterminated(buf, retval) == buf

\* reception_buffer[retval] = '\0'
Terminate(buf, retval) == [buf EXCEPT ![retval + 1] = NUL]

\* The text printed from a buffer: all up to its first terminator.
CString(buf) ==
  LET n == CHOOSE n \in 0..BufSize :
             /\ \A i \in 1..n : buf[i] # NUL
             /\ n = BufSize \/ buf[n + 1] = NUL
  IN  [i \in 1..n |-> buf[i]]
===============================================================================
