------------------------- MODULE ReceptionBufferProofs -------------------------
(* What the operations on a reception buffer do, for buffers of any size. *)
EXTENDS ReceptionBuffer, WellFoundedInduction, TLAPS

\* recv into a buffer leaves a buffer: no size that recv may return reaches
\* past the vector, and neither does the terminator behind it.
LEMMA BufferType ==
  ASSUME NEW buf \in Buffers, NEW n \in RecvSizes, NEW chunk \in [1..n -> Byte]
  PROVE  /\ chunk \in Seq(Byte) /\ Len(chunk) = n
         /\ Overwrite(buf, chunk) \in Buffers
         /\ \A i \in 1..n : Overwrite(buf, chunk)[i] = chunk[i]
         /\ Terminate(Overwrite(buf, chunk), n) \in Buffers
         /\ \A i \in 1..n : Terminate(Overwrite(buf, chunk), n)[i] = chunk[i]
         /\ Terminate(Overwrite(buf, chunk), n)[n + 1] = NUL
<1>1. n \in Nat /\ n + 1 \in 1..BufSize /\ BufSize \in Nat
  BY BufferAssumption DEF RecvSizes
<1>2. chunk \in Seq(Byte) /\ Len(chunk) = n
  BY <1>1
<1>3. /\ Overwrite(buf, chunk) \in Buffers
      /\ \A i \in 1..n : Overwrite(buf, chunk)[i] = chunk[i]
  BY <1>1, <1>2 DEF Overwrite, Buffers
<1>4. /\ Terminate(Overwrite(buf, chunk), n) \in Buffers
      /\ \A i \in 1..n : Terminate(Overwrite(buf, chunk), n)[i] = chunk[i]
      /\ Terminate(Overwrite(buf, chunk), n)[n + 1] = NUL
  BY <1>1, <1>3 DEF Terminate, Buffers
<1> QED
  BY <1>2, <1>3, <1>4

\* The C string in a terminated buffer is the text received last, whatever
\* longer text the buffer held before.
THEOREM PrintedText ==
  ASSUME NEW buf \in Buffers, NEW n \in RecvSizes, NEW chunk \in [1..n -> Byte]
  PROVE  CString(Terminate(Overwrite(buf, chunk), n)) = chunk
<1> DEFINE b == Terminate(Overwrite(buf, chunk), n)
           Ends(m) == /\ \A i \in 1..m : b[i] # NUL
                      /\ m = BufSize \/ b[m + 1] = NUL
<1> HIDE DEF b
<1>1. n \in 0..BufSize /\ n \in Nat /\ BufSize \in Nat /\ n < BufSize
  BY BufferAssumption DEF RecvSizes
<1>2. /\ \A i \in 1..n : b[i] = chunk[i]
      /\ b[n + 1] = NUL
  BY BufferType DEF b
<1>3. \A i \in 1..n : b[i] # NUL
  BY <1>2, BufferAssumption
<1>4. Ends(n)
  BY <1>2, <1>3
<1>5. ASSUME NEW m \in 0..BufSize, Ends(m) PROVE m = n
  <2>1. CASE m < n
    <3>1. m + 1 \in 1..n /\ m # BufSize
      BY <1>1, <2>1
    <3> QED BY <1>3, <1>5, <3>1
  <2>2. CASE n < m
    <3>1. n + 1 \in 1..m
      BY <1>1, <2>2
    <3> QED BY <1>2, <1>5, <3>1
  <2> QED BY <1>1, <2>1, <2>2
<1>6. (CHOOSE m \in 0..BufSize : Ends(m)) = n
  <2> HIDE DEF Ends
  <2> QED BY <1>1, <1>4, <1>5
<1>7. CString(b) = [i \in 1..n |-> b[i]]
  BY <1>6 DEF CString
<1>8. [i \in 1..n |-> b[i]] = chunk
  BY <1>2
<1> QED
  BY <1>7, <1>8 DEF b

-------------------------------------------------------------------------------
(* The programs without classes receive into the whole buffer, and write   *)
(* no terminator.                                                           *)

\* Sets of natural numbers have a least element.
LEMMA LeastOf ==
  ASSUME NEW T \in SUBSET Nat, T # {}
  PROVE  \E m \in T : \A k \in T : m <= k
<1>1. IsWellFoundedOn({s \in Nat \X Nat : s[1] < s[2]}, Nat)
  BY NatLessThanWellFounded DEF OpToRel
<1>2. PICK m \in T : \A k \in T : ~(<<k, m>> \in {s \in Nat \X Nat : s[1] < s[2]})
  BY <1>1, WFMin
<1>3. ASSUME NEW k \in T PROVE m <= k
  <2>1. ~(<<k, m>> \in {s \in Nat \X Nat : s[1] < s[2]}) /\ k \in Nat /\ m \in Nat
    BY <1>2
  <2>2. ~(k < m)
    BY <2>1
  <2> QED BY <2>1, <2>2
<1> QED
  BY <1>3

\* A C string is the part of its buffer before the first terminator, or all of
\* it where there is none.
LEMMA CStringFacts ==
  ASSUME NEW b \in Buffers
  PROVE  \E n \in 0..BufSize :
            /\ CString(b) = [i \in 1..n |-> b[i]]
            /\ \A i \in 1..n : b[i] # NUL
            /\ n = BufSize \/ b[n + 1] = NUL
<1> DEFINE Ends(n) == /\ \A i \in 1..n : b[i] # NUL
                      /\ n = BufSize \/ b[n + 1] = NUL
           Stops == {n \in 0..BufSize : n = BufSize \/ b[n + 1] = NUL}
<1>1. BufSize \in Nat /\ Stops \in SUBSET Nat /\ BufSize \in Stops
  BY BufferAssumption
<1>2. PICK m \in Stops : \A k \in Stops : m <= k
  BY <1>1, LeastOf
<1>3. ASSUME NEW i \in 1..m PROVE b[i] # NUL
  <2>1. i - 1 \in 0..BufSize /\ i - 1 < m /\ (i - 1) + 1 = i
    BY <1>1, <1>2
  <2>2. i - 1 \notin Stops
    BY <1>1, <1>2, <2>1
  <2> QED BY <2>1, <2>2
<1>4. m \in 0..BufSize /\ Ends(m)
  BY <1>2, <1>3
<1>5. CString(b) = [i \in 1..(CHOOSE n \in 0..BufSize : Ends(n)) |-> b[i]]
  BY DEF CString
<1> HIDE DEF Ends
<1>6. /\ (CHOOSE n \in 0..BufSize : Ends(n)) \in 0..BufSize
      /\ Ends(CHOOSE n \in 0..BufSize : Ends(n))
  BY <1>4
<1> QED
  BY <1>5, <1>6 DEF Ends

\* A recv may fill the whole buffer.
LEMMA OverwriteFacts ==
  ASSUME NEW old \in Buffers, NEW n \in WholeBuffer, NEW chunk \in [1..n -> Byte]
  PROVE  /\ chunk \in Seq(Byte) /\ Len(chunk) = n
         /\ Overwrite(old, chunk) \in Buffers
         /\ \A i \in 1..n : Overwrite(old, chunk)[i] = chunk[i]
         /\ \A i \in n+1..BufSize : Overwrite(old, chunk)[i] = old[i]
<1>1. n \in 1..BufSize /\ n \in Nat /\ BufSize \in Nat
  BY BufferAssumption DEF WholeBuffer
<1>2. chunk \in Seq(Byte) /\ Len(chunk) = n
  BY <1>1
<1> QED
  BY <1>1, <1>2 DEF Overwrite, Buffers

\* The C string is text, and at least as long as the text received.
LEMMA CStringShows ==
  ASSUME NEW old \in Buffers, NEW n \in WholeBuffer, NEW chunk \in [1..n -> Byte]
  PROVE  LET text == CString(Overwrite(old, chunk)) IN
         /\ text \in Seq(Byte) /\ n <= Len(text) /\ Len(text) <= BufSize
         /\ \A i \in 1..n : text[i] = chunk[i]
         /\ \A i \in 1..Len(text) : text[i] = Overwrite(old, chunk)[i] /\ text[i] # NUL
<1> DEFINE b == Overwrite(old, chunk)
<1>1. /\ b \in Buffers
      /\ \A i \in 1..n : b[i] = chunk[i] /\ b[i] # NUL
      /\ n \in 1..BufSize /\ BufSize \in Nat
  BY OverwriteFacts, BufferAssumption DEF WholeBuffer
<1> HIDE DEF b
<1>2. PICK m \in 0..BufSize : /\ CString(b) = [i \in 1..m |-> b[i]]
                              /\ \A i \in 1..m : b[i] # NUL
                              /\ m = BufSize \/ b[m + 1] = NUL
  BY <1>1, CStringFacts
<1>3. n <= m
  <2>1. SUFFICES ASSUME m < n PROVE FALSE
    BY <1>1, <1>2
  <2>2. m + 1 \in 1..n /\ m # BufSize
    BY <1>1, <1>2, <2>1
  <2> QED BY <1>1, <1>2, <2>2
<1>4. \A i \in 1..m : b[i] \in Byte
  BY <1>1, <1>2 DEF Buffers
<1>5. CString(b) \in Seq(Byte) /\ Len(CString(b)) = m
  BY <1>1, <1>2, <1>4
<1> QED
  BY <1>1, <1>2, <1>3, <1>5 DEF b
===============================================================================
