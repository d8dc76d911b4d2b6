----------------------------- MODULE GoLinesProofs -----------------------------
(* Theorems about the Go demo, for any set of programs, any number of       *)
(* messages and of failing calls.                                           *)
EXTENDS GoLines, TcpKernelProofs, WellFoundedInduction

-------------------------------------------------------------------------------
(* What a client writes. *)

\* Message k, between newlines, is at position i of a stream.
TextAt(s, i, k) ==
  /\ i \in 1..Len(s) - 2
  /\ s[i] = 2 * k + 1 /\ s[i + 1] = 2 * k + 2 /\ s[i + 2] = NewLine
  /\ i > 1 => s[i - 1] = NewLine

\* A stream is made of messages up to the one typed last, in their order.
Messages(s, last) ==
  /\ s # <<>> => s[Len(s)] = NewLine /\ \E k \in 1..last : TextAt(s, 1, k)
  /\ \A i \in 1..Len(s) :
       s[i] = NewLine \/ \E k \in 1..last : TextAt(s, i, k) \/ TextAt(s, i - 1, k)
  /\ \A i, j \in 1..Len(s) :
       (i < j /\ s[i] # NewLine /\ s[j] # NewLine) => s[i] < s[j]

ClientWrites ==
  \A c \in Clients : /\ Messages(sent[Cli(c)], said[c])
                     /\ cpc[c] \in {"idle", "dial", "prompt"} => said[c] < STOP

-------------------------------------------------------------------------------
(* What the server holds of it, prints and answers. *)

\* Where in its client's stream the line begins the server is reading.
LineStart(c) == read[Srv(c)] - Len(part[Srv(c)])

\* The reader of the server holds the bytes before its position.
HoldsLast ==
  \A c \in Clients :
    /\ LineStart(c) >= 0
    /\ \A i \in 1..Len(part[Srv(c)]) : part[Srv(c)][i] = sent[Cli(c)][LineStart(c) + i]

\* Without a client nothing is printed; until the first line is printed no
\* reader has been given up.
Serving ==
  /\ spc \in {"start", "accept"} => conn = NoClient
  /\ spc \in {"read", "write"} => conn \in Clients
  /\ printed # <<>> => conn \in Clients
  /\ spc = "write" => printed # <<>>
  /\ (printed = <<>> /\ spc \in {"start", "accept", "read"}) =>
       \A c \in Clients : LineStart(c) = 0

\* Every line printed was before what is still to come.
LinesRead ==
  \A i \in DOMAIN printed :
    printed[i] # <<>> => \E p \in 1..LineStart(conn) : sent[Cli(conn)][p] = Last(printed[i])

\* The first line is the first message that left the client.
FirstLine == printed # <<>> =>
               \E k \in 1..MaxLines : /\ TextAt(sent[Cli(conn)], 1, k)
                                      /\ printed[1] = Letters(k)
                                      /\ k = 1 \/ faults > 1

Answers ==
  /\ \A c \in Clients : sent[Srv(c)] # <<>> => c = conn /\ printed # <<>>
  /\ \A c \in heard : sent[Srv(c)] # <<>>

-------------------------------------------------------------------------------
(* What a client misses. *)

Stopped == spc = "done" \/ cpc[LocalClient] = "done"

\* While the server runs, nothing it does ends a connection.
NothingEnds ==
  /\ \A c \in Clients : cpc[c] \in {"prompt", "wait"} => sock[Cli(c)] = "open"
  /\ ~Stopped => \A c \in Clients : /\ sock[Srv(c)] # "closed"
                                    /\ ~fin[Srv(c)]
                                    /\ rst[Cli(c)] = "none"

\* A message that could not be written leaves its client waiting.
FirstSent ==
  (~Stopped /\ faults < 2) =>
    \A c \in Clients :
      IF sent[Cli(c)] = <<>>
      THEN said[c] > 0 => faults = 1 /\ cpc[c] = "wait"
      ELSE \E k \in {1, STOP} : TextAt(sent[Cli(c)], 1, k)

GoInv == /\ GoTypeOK /\ KernelInv
         /\ ClientWrites
         /\ HoldsLast /\ Serving /\ PrintsTails /\ LinesRead /\ FirstLine /\ Answers
         /\ NothingEnds /\ FirstSent

-------------------------------------------------------------------------------
(* Messages, lines and the operators on them. *)

Written(k) == Letters(k) \o <<NewLine, NewLine>>

LEMMA StopFacts == /\ STOP \in Nat /\ MaxLines \in Nat /\ 1..STOP \subseteq Nat
                   /\ 1 \in 1..MaxLines /\ STOP \in 1..STOP /\ MaxLines < STOP
BY LinesAssumption DEF STOP

LEMMA Concatenation ==
  ASSUME NEW S, NEW s \in Seq(S), NEW t \in Seq(S)
  PROVE  /\ s \o t \in Seq(S) /\ Len(s \o t) = Len(s) + Len(t)
         /\ \A i \in 1..Len(s) : (s \o t)[i] = s[i]
         /\ \A i \in 1..Len(t) : (s \o t)[Len(s) + i] = t[i]
OBVIOUS

LEMMA SameSequence ==
  ASSUME NEW S, NEW s \in Seq(S), NEW t \in Seq(S), Len(s) = Len(t),
         \A i \in 1..Len(s) : s[i] = t[i]
  PROVE  s = t
OBVIOUS

LEMMA WrittenFacts ==
  ASSUME NEW k \in 1..STOP
  PROVE  /\ Written(k) \in Seq(Byte) /\ Len(Written(k)) = 4
         /\ Written(k)[1] = 2 * k + 1 /\ Written(k)[2] = 2 * k + 2
         /\ Written(k)[3] = NewLine /\ Written(k)[4] = NewLine
         /\ <<TimeStamp, NewLine>> \in Seq(Byte)
<1>1. /\ 2 * k + 1 \in NewLine..(2 * STOP + 2)
      /\ 2 * k + 2 \in NewLine..(2 * STOP + 2)
      /\ NewLine \in NewLine..(2 * STOP + 2)
      /\ TimeStamp \in NewLine..(2 * STOP + 2)
  BY StopFacts DEF NewLine, TimeStamp
<1>2. 2 * k + 1 \in Byte /\ 2 * k + 2 \in Byte /\ NewLine \in Byte /\ TimeStamp \in Byte
  BY <1>1, LinesAssumption
<1>3. Letters(k) \in Seq(Byte)
  BY <1>2 DEF Letters
<1>4. Len(Letters(k)) = 2 /\ Letters(k)[1] = 2 * k + 1 /\ Letters(k)[2] = 2 * k + 2
  BY DEF Letters
<1> DEFINE ends == <<NewLine, NewLine>>
<1>5. ends \in Seq(Byte) /\ <<TimeStamp, NewLine>> \in Seq(Byte)
  BY <1>2
<1>6. Len(ends) = 2 /\ ends[1] = NewLine /\ ends[2] = NewLine
  OBVIOUS
<1>7. Written(k) = Letters(k) \o ends
  BY DEF Written
<1> HIDE DEF ends
<1>8. /\ Written(k) \in Seq(Byte)
      /\ Len(Written(k)) = Len(Letters(k)) + Len(ends)
      /\ \A i \in 1..Len(Letters(k)) : Written(k)[i] = Letters(k)[i]
      /\ \A i \in 1..Len(ends) : Written(k)[Len(Letters(k)) + i] = ends[i]
  BY <1>3, <1>5, <1>7, Concatenation
<1>9. /\ Len(Written(k)) = 4
      /\ \A i \in 1..2 : Written(k)[i] = Letters(k)[i] /\ Written(k)[2 + i] = ends[i]
  BY <1>4, <1>6, <1>8
<1>10. /\ Written(k)[1] = Letters(k)[1] /\ Written(k)[2] = Letters(k)[2]
       /\ Written(k)[2 + 1] = ends[1] /\ Written(k)[2 + 2] = ends[2]
  BY <1>9
<1> QED BY <1>4, <1>5, <1>6, <1>8, <1>9, <1>10

LEMMA LettersSuffixes ==
  ASSUME NEW k \in Nat
  PROVE  /\ IsSuffix(<<>>, Letters(k))
         /\ IsSuffix(<<2 * k + 2>>, Letters(k))
         /\ IsSuffix(Letters(k), Letters(k))
<1> DEFINE backwards == <<2 * k + 2, 2 * k + 1>>
           end == <<2 * k + 2>>
<1>1. Reverse(Letters(k)) = backwards
  BY DEF Letters, Reverse
<1>2. Reverse(<<>>) = <<>> /\ Reverse(end) = end
  BY DEF Reverse
<1>3. SubSeq(backwards, 1, 0) = <<>> /\ SubSeq(<<>>, 1, 0) = <<>>
  OBVIOUS
<1>4. SubSeq(backwards, 1, 1) = end /\ SubSeq(end, 1, 1) = end
  <2>1. \A s \in Seq(Nat) : Len(s) > 0 =>
          /\ SubSeq(s, 1, 1) \in Seq(Nat) /\ Len(SubSeq(s, 1, 1)) = 1
          /\ SubSeq(s, 1, 1)[1] = s[1]
    OBVIOUS
  <2>2. /\ end \in Seq(Nat) /\ Len(end) = 1 /\ end[1] = 2 * k + 2
        /\ backwards \in Seq(Nat) /\ Len(backwards) = 2 /\ backwards[1] = 2 * k + 2
    OBVIOUS
  <2> HIDE DEF end, backwards
  <2> QED BY <2>1, <2>2, SameSequence
<1>5. Len(backwards) = 2 /\ Len(end) = 1 /\ Len(<<>>) = 0
  OBVIOUS
<1>6. IsSuffix(<<>>, Letters(k))
  BY <1>1, <1>2, <1>3, <1>5 DEF IsSuffix, IsPrefix
<1>7. IsSuffix(end, Letters(k))
  BY <1>1, <1>2, <1>4, <1>5 DEF IsSuffix, IsPrefix
<1>8. IsSuffix(Letters(k), Letters(k))
  BY <1>1, <1>5 DEF IsSuffix, IsPrefix
<1> QED BY <1>6, <1>7, <1>8

\* A set of numbers has a least one.
LEMMA LeastNumber ==
  ASSUME NEW S \in SUBSET Nat, S # {}
  PROVE  \E m \in S : \A i \in S : m <= i
<1> DEFINE less == {p \in Nat \X Nat : p[1] < p[2]}
<1>1. IsWellFoundedOn(less, Nat)
  BY NatLessThanWellFounded DEF OpToRel
<1>2. \E m \in S : \A i \in S : ~ (<<i, m>> \in less)
  <2> HIDE DEF less
  <2> QED BY <1>1, WFMin
<1>3. \A i, m \in S : i < m => <<i, m>> \in less
  OBVIOUS
<1> HIDE DEF less
<1>4. PICK m \in S : \A i \in S : ~ (<<i, m>> \in less)
  BY <1>2
<1>5. \A i \in S : ~ (i < m)
  BY <1>3, <1>4
<1>6. m \in Nat /\ \A i \in S : i \in Nat
  OBVIOUS
<1>7. \A i \in S : m <= i
  BY <1>5, <1>6
<1> QED BY <1>7

\* The newline found is the first one.
LEMMA EndOfLineFacts ==
  ASSUME NEW x, NEW n \in Nat, Chunk(x, n) \in [1..n -> Byte], Contains(Chunk(x, n), NewLine)
  PROVE  /\ EndOfLine(x, n) \in 1..n
         /\ Chunk(x, n)[EndOfLine(x, n)] = NewLine
         /\ \A i \in 1..EndOfLine(x, n) - 1 : Chunk(x, n)[i] # NewLine
<1> DEFINE ends == {i \in 1..Len(Chunk(x, n)) : Chunk(x, n)[i] = NewLine}
<1>1. Chunk(x, n) \in Seq(Byte) /\ Len(Chunk(x, n)) = n
  OBVIOUS
<1>2. ends \in SUBSET Nat /\ ends # {}
  BY <1>1 DEF Contains
<1>3. \E m \in ends : \A i \in ends : m <= i
  BY <1>2, LeastNumber
<1>4. EndOfLine(x, n) = CHOOSE m \in ends : \A i \in ends : m <= i
  BY <1>2 DEF EndOfLine, SelectInSeq, Min
<1>5. EndOfLine(x, n) \in ends /\ \A i \in ends : EndOfLine(x, n) <= i
  BY <1>3, <1>4
<1>6. \A i \in 1..EndOfLine(x, n) - 1 : i \notin ends /\ i \in 1..n
  BY <1>1, <1>5
<1> QED BY <1>1, <1>5, <1>6

-------------------------------------------------------------------------------
(* Streams of messages. *)

\* A message stays where it is when more is written behind it.
LEMMA TextStays ==
  ASSUME NEW s \in Seq(Byte), NEW t \in Seq(Byte), Extends(s, t),
         NEW i \in Int, NEW k, TextAt(s, i, k)
  PROVE  TextAt(t, i, k)
<1>1. Len(s) \in Nat /\ Len(t) \in Nat /\ Len(s) <= Len(t)
  BY DEF Extends
<1>2. i \in 1..Len(s) - 2 /\ i + 1 \in 1..Len(s) /\ i + 2 \in 1..Len(s)
  BY <1>1 DEF TextAt
<1>3. i > 1 => i - 1 \in 1..Len(s)
  BY <1>1, <1>2
<1>4. i \in 1..Len(t) - 2
  BY <1>1, <1>2
<1> QED BY <1>2, <1>3, <1>4 DEF TextAt, Extends

\* The next message, of a higher number, keeps the shape of a stream.
LEMMA NextMessage ==
  ASSUME NEW s \in Seq(Byte), NEW last \in Nat, Messages(s, last),
         NEW k \in 1..STOP, last < k
  PROVE  /\ Messages(s \o Written(k), k)
         /\ s = <<>> => TextAt(s \o Written(k), 1, k)
<1> DEFINE t == s \o Written(k)
           n == Len(s)
<1>1. Written(k) \in Seq(Byte)
  BY WrittenFacts
<1>2. /\ t \in Seq(Byte) /\ Len(t) = Len(s) + Len(Written(k))
      /\ \A i \in 1..Len(s) : t[i] = s[i]
      /\ \A i \in 1..Len(Written(k)) : t[Len(s) + i] = Written(k)[i]
  BY <1>1, Concatenation
<1>3. n \in Nat
  OBVIOUS
<1>4. k \in Nat
  BY StopFacts
<1> HIDE DEF t
<1>5. /\ Len(t) = n + 4
      /\ \A i \in 1..n : t[i] = s[i]
      /\ t[n + 1] = 2 * k + 1 /\ t[n + 2] = 2 * k + 2
      /\ t[n + 3] = NewLine /\ t[n + 4] = NewLine
  <2>1. /\ Len(Written(k)) = 4
        /\ Written(k)[1] = 2 * k + 1 /\ Written(k)[2] = 2 * k + 2
        /\ Written(k)[3] = NewLine /\ Written(k)[4] = NewLine
    BY WrittenFacts
  <2>2. \A i \in {1, 2, 3, 4} : t[n + i] = Written(k)[i]
    BY <1>2, <2>1
  <2> QED BY <1>2, <1>3, <2>1, <2>2
<1>6. Extends(s, t)
  BY <1>2, <1>3, <1>5 DEF Extends
<1> HIDE DEF n
<1>7. n > 0 => t[n] = NewLine
  BY <1>3, <1>5 DEF Messages, n
<1>8. TextAt(t, n + 1, k)
  BY <1>3, <1>5, <1>7 DEF TextAt
<1>9. \A i \in 1..n : t[i] # NewLine =>
         /\ \E j \in 1..last : t[i] = 2 * j + 1 \/ t[i] = 2 * j + 2
         /\ \E j \in 1..last : TextAt(t, i, j) \/ TextAt(t, i - 1, j)
  <2> SUFFICES ASSUME NEW i \in 1..n, t[i] # NewLine
               PROVE  /\ \E j \in 1..last : t[i] = 2 * j + 1 \/ t[i] = 2 * j + 2
                      /\ \E j \in 1..last : TextAt(t, i, j) \/ TextAt(t, i - 1, j)
    OBVIOUS
  <2>1. i \in 1..Len(s) /\ i \in Int /\ i - 1 \in Int
    BY <1>3 DEF n
  <2>2. PICK j \in 1..last : TextAt(s, i, j) \/ TextAt(s, i - 1, j)
    BY <1>5, <2>1 DEF Messages
  <2>3. TextAt(t, i, j) \/ TextAt(t, i - 1, j)
    BY <1>2, <1>6, <2>1, <2>2, TextStays
  <2>4. t[i] = 2 * j + 1 \/ t[i] = 2 * j + 2
    BY <2>1, <2>3 DEF TextAt
  <2> QED BY <2>3, <2>4
<1>10. \A i \in 1..n : t[i] # NewLine => t[i] \in Nat /\ t[i] < 2 * k + 1
  <2> SUFFICES ASSUME NEW i \in 1..n, t[i] # NewLine
               PROVE  t[i] \in Nat /\ t[i] < 2 * k + 1
    OBVIOUS
  <2>1. PICK j \in 1..last : t[i] = 2 * j + 1 \/ t[i] = 2 * j + 2
    BY <1>9
  <2> QED BY <1>4, <2>1
<1>11. t # <<>> => t[Len(t)] = NewLine /\ \E j \in 1..k : TextAt(t, 1, j)
  <2>1. t[Len(t)] = NewLine
    BY <1>5
  <2>2. CASE n = 0
    BY <1>4, <1>8, <2>1, <2>2
  <2>3. CASE n > 0
    <3>1. s # <<>>
      BY <2>3 DEF n
    <3>2. PICK j \in 1..last : TextAt(s, 1, j)
      BY <3>1 DEF Messages
    <3>3. TextAt(t, 1, j)
      BY <1>2, <1>6, <3>2, TextStays
    <3>4. j \in 1..k
      BY <1>4
    <3> QED BY <2>1, <3>3, <3>4
  <2> QED BY <1>3, <2>2, <2>3
<1>12. ASSUME NEW i \in 1..Len(t), t[i] # NewLine
       PROVE  \E j \in 1..k : TextAt(t, i, j) \/ TextAt(t, i - 1, j)
  <2>1. CASE i \in 1..n
    <3>1. PICK j \in 1..last : TextAt(t, i, j) \/ TextAt(t, i - 1, j)
      BY <1>9, <1>12, <2>1
    <3>2. j \in 1..k
      BY <1>4
    <3> QED BY <3>1, <3>2
  <2>2. CASE i = n + 1 \/ i = n + 2
    <3>1. TextAt(t, i, k) \/ TextAt(t, i - 1, k)
      <4>1. i = n + 2 => i - 1 = n + 1
        BY <1>3
      <4> QED BY <1>8, <2>2, <4>1
    <3>2. k \in 1..k
      BY <1>4
    <3> QED BY <3>1, <3>2
  <2>3. i \in 1..n \/ i = n + 1 \/ i = n + 2 \/ i = n + 3 \/ i = n + 4
    BY <1>3, <1>5
  <2> QED BY <1>5, <1>12, <2>1, <2>2, <2>3
<1>13. ASSUME NEW i \in 1..Len(t), NEW j \in 1..Len(t),
              i < j, t[i] # NewLine, t[j] # NewLine
       PROVE  t[i] < t[j]
  <2>1. CASE j \in 1..n
    <3>1. i \in 1..n
      BY <1>3, <1>13, <2>1
    <3> QED BY <1>5, <1>13, <2>1, <3>1 DEF Messages, n
  <2>2. CASE j = n + 1
    <3>1. i \in 1..n
      BY <1>3, <1>13, <2>2
    <3> QED BY <1>5, <1>10, <1>13, <2>2, <3>1
  <2>3. CASE j = n + 2
    <3>1. i \in 1..n \/ i = n + 1
      BY <1>3, <1>13, <2>3
    <3> QED BY <1>4, <1>5, <1>10, <1>13, <2>3, <3>1
  <2>4. j \in 1..n \/ j = n + 1 \/ j = n + 2 \/ j = n + 3 \/ j = n + 4
    BY <1>3, <1>5
  <2> QED BY <1>5, <1>13, <2>1, <2>2, <2>3, <2>4
<1>14. Messages(t, k)
  BY <1>11, <1>12, <1>13 DEF Messages
<1>15. s = <<>> => TextAt(t, 1, k)
  <2>1. s = <<>> => n = 0
    BY DEF n
  <2> QED BY <1>8, <2>1
<1> QED BY <1>14, <1>15 DEF t

\* Bytes without a newline that come right before one are the end of a message;
\* from the start of the stream they are the first message.
LEMMA LineIsTail ==
  ASSUME NEW s \in Seq(Byte), NEW last \in Nat, Messages(s, last),
         NEW a \in Nat, NEW line \in Seq(Byte),
         a + Len(line) + 1 <= Len(s), s[a + Len(line) + 1] = NewLine,
         \A i \in 1..Len(line) : line[i] = s[a + i] /\ line[i] # NewLine
  PROVE  \E k \in 1..last : /\ IsSuffix(line, Letters(k))
                            /\ a = 0 => TextAt(s, 1, k) /\ line = Letters(k)
<1> DEFINE m == Len(line)
<1>1. m \in Nat /\ Len(s) \in Nat /\ s # <<>>
  OBVIOUS
<1> HIDE DEF m
<1>2. /\ a + m + 1 <= Len(s) /\ s[a + m + 1] = NewLine
      /\ \A i \in 1..m : line[i] = s[a + i] /\ line[i] # NewLine
  BY DEF m
<1>3. PICK first \in 1..last : TextAt(s, 1, first)
  BY <1>1 DEF Messages
<1>4. CASE m = 0
  <2>1. line = <<>>
    BY <1>4 DEF m
  <2>2. IsSuffix(line, Letters(first))
    <3>1. first \in Nat
      OBVIOUS
    <3> QED BY <2>1, <3>1, LettersSuffixes, Zenon
  <2>3. a # 0
    BY <1>2, <1>3, <1>4 DEF TextAt, NewLine
  <2> QED BY <2>2, <2>3
<1>5. CASE m > 0
  <2>1. a + m \in 1..Len(s) /\ s[a + m] # NewLine /\ line[m] = s[a + m]
    <3>1. m \in 1..m /\ a + m \in 1..Len(s)
      BY <1>1, <1>2, <1>5
    <3> QED BY <1>2, <3>1
  <2>2. PICK k \in 1..last : TextAt(s, a + m, k) \/ TextAt(s, (a + m) - 1, k)
    <3>1. \A i \in 1..Len(s) :
            s[i] = NewLine \/ \E k \in 1..last : TextAt(s, i, k) \/ TextAt(s, i - 1, k)
      BY DEF Messages
    <3> QED BY <2>1, <3>1, Zenon
  <2>3. k \in Nat
    OBVIOUS
  <2>4. TextAt(s, (a + m) - 1, k)
    <3>1. ~ TextAt(s, a + m, k)
      BY <1>2, <2>3 DEF TextAt, NewLine
    <3> QED BY <2>2, <3>1
  <2>5. /\ s[(a + m) - 1] = 2 * k + 1 /\ s[a + m] = 2 * k + 2 /\ (a + m) - 1 >= 1
        /\ a + m > 2 => s[(a + m) - 2] = NewLine
    <3>1. ((a + m) - 1) + 1 = a + m /\ ((a + m) - 1) - 1 = (a + m) - 2
      BY <1>1
    <3>2. a + m > 2 => (a + m) - 1 > 1
      BY <1>1
    <3> QED BY <2>4, <3>1, <3>2 DEF TextAt
  <2>6. m <= 2
    <3> SUFFICES ASSUME m > 2 PROVE FALSE
      BY <1>1
    <3>1. m - 2 \in 1..m /\ a + (m - 2) = (a + m) - 2 /\ a + m > 2
      BY <1>1
    <3>2. line[m - 2] = s[a + (m - 2)] /\ line[m - 2] # NewLine
      BY <1>2, <3>1
    <3> QED BY <2>5, <3>1, <3>2
  <2>7. CASE m = 1
    <3>1. line[1] = 2 * k + 2
      BY <2>1, <2>5, <2>7
    <3>2. line = <<2 * k + 2>>
      <4>1. Len(line) = 1
        BY <2>7 DEF m
      <4> QED BY <3>1, <4>1
    <3>3. a # 0
      BY <2>5, <2>7
    <3> QED BY <2>3, <3>2, <3>3, LettersSuffixes
  <2>8. CASE m = 2
    <3>1. 1 \in 1..m /\ 2 \in 1..m /\ a + 1 = (a + m) - 1 /\ a + 2 = a + m
      BY <2>8
    <3>2. line[1] = 2 * k + 1 /\ line[2] = 2 * k + 2 /\ Len(line) = 2
      BY <1>2, <2>5, <2>8, <3>1 DEF m
    <3>3. line = Letters(k)
      BY <3>2 DEF Letters
    <3>4. a = 0 => TextAt(s, 1, k)
      BY <2>4, <2>8
    <3> QED BY <2>3, <3>3, <3>4, LettersSuffixes
  <2> QED BY <1>1, <1>5, <2>6, <2>7, <2>8
<1> QED BY <1>1, <1>4, <1>5

-------------------------------------------------------------------------------
(* What the readers hold. *)

LEMMA InitialBytes ==
  ASSUME NEW S, NEW s \in Seq(S), NEW m \in Nat, m <= Len(s)
  PROVE  /\ SubSeq(s, 1, m) \in Seq(S) /\ Len(SubSeq(s, 1, m)) = m
         /\ \A i \in 1..m : SubSeq(s, 1, m)[i] = s[i]
OBVIOUS

LEMMA SequenceOver ==
  ASSUME NEW S, NEW T, NEW s \in Seq(S), \A i \in 1..Len(s) : s[i] \in T
  PROVE  s \in Seq(T)
OBVIOUS

LEMMA PartFacts ==
  ASSUME GoTypeOK, NEW x \in Endpoints
  PROVE  /\ part[x] \in Seq(Byte) /\ Len(part[x]) \in Nat
         /\ \A i \in 1..Len(part[x]) : part[x][i] \in Byte /\ part[x][i] # NewLine
<1>1. part[x] \in Seq(Byte \ {NewLine})
  BY DEF GoTypeOK
<1>2. \A i \in 1..Len(part[x]) : part[x][i] \in Byte \ {NewLine}
  BY <1>1
<1>3. part[x] \in Seq(Byte)
  BY <1>1, <1>2, SequenceOver
<1> QED BY <1>2, <1>3

\* Bytes without a newline are added to what the reader holds.
LEMMA ReadsOnFacts ==
  ASSUME GoTypeOK, KernelInv, NEW x \in Endpoints, NEW n \in 1..Unread(x), ReadsOn(x, n)
  PROVE  /\ KernelInv' /\ StreamsGrow /\ UNCHANGED sent
         /\ read' = [read EXCEPT ![x] = read[x] + n]
         /\ part' \in [Endpoints -> Seq(Byte \ {NewLine})]
         /\ \A y \in Endpoints : y # x => part'[y] = part[y]
         /\ Len(part'[x]) = Len(part[x]) + n
         /\ \A i \in 1..Len(part[x]) : part'[x][i] = part[x][i]
         /\ \A i \in 1..n : part'[x][Len(part[x]) + i] = sent[Peer(x)][read[x] + i]
<1>1. n \in Nat /\ RecvData(x, n)
  BY DEF ReadsOn
<1>2. /\ KernelInv' /\ StreamsGrow /\ UNCHANGED sent
      /\ read' = [read EXCEPT ![x] = read[x] + n]
      /\ Chunk(x, n) \in [1..n -> Byte]
      /\ \A i \in 1..n : Chunk(x, n)[i] = sent[Peer(x)][read[x] + i]
  BY <1>1, RecvDataInv
<1> DEFINE chunk == Chunk(x, n)
<1>3. chunk \in Seq(Byte) /\ Len(chunk) = n
  BY <1>1, <1>2
<1>4. \A i \in 1..n : chunk[i] \in Byte \ {NewLine}
  BY <1>2, <1>3 DEF ReadsOn, Contains
<1> HIDE DEF chunk
<1>5. chunk \in Seq(Byte \ {NewLine})
  BY <1>3, <1>4, SequenceOver
<1>6. part[x] \in Seq(Byte \ {NewLine}) /\ part \in [Endpoints -> Seq(Byte \ {NewLine})]
  BY DEF GoTypeOK
<1>7. part' = [part EXCEPT ![x] = part[x] \o chunk]
  BY DEF ReadsOn, chunk
<1>8. /\ part[x] \o chunk \in Seq(Byte \ {NewLine})
      /\ Len(part[x] \o chunk) = Len(part[x]) + Len(chunk)
      /\ \A i \in 1..Len(part[x]) : (part[x] \o chunk)[i] = part[x][i]
      /\ \A i \in 1..Len(chunk) : (part[x] \o chunk)[Len(part[x]) + i] = chunk[i]
  BY <1>5, <1>6, Concatenation
<1>9. part'[x] = part[x] \o chunk /\ \A y \in Endpoints : y # x => part'[y] = part[y]
  BY <1>6, <1>7
<1>10. part' \in [Endpoints -> Seq(Byte \ {NewLine})]
  BY <1>6, <1>7, <1>8
<1>11. \A i \in 1..n : chunk[i] = sent[Peer(x)][read[x] + i]
  BY <1>2 DEF chunk
<1> QED BY <1>2, <1>3, <1>8, <1>9, <1>10, <1>11

\* The line read is what the reader held and the bytes up to the newline.
LEMMA ReadStringFacts ==
  ASSUME GoTypeOK, KernelInv, NEW x \in Endpoints, NEW n \in 1..Unread(x), ReadString(x, n)
  PROVE  /\ KernelInv' /\ StreamsGrow /\ UNCHANGED sent
         /\ read' = [read EXCEPT ![x] = read[x] + n]
         /\ part' = [part EXCEPT ![x] = <<>>]
         /\ LineRead(x, n) \in Seq(Byte \ {NewLine}) /\ LineRead(x, n) \in Seq(Byte)
         /\ \E e \in 1..n :
              /\ Len(LineRead(x, n)) = Len(part[x]) + (e - 1)
              /\ \A i \in 1..Len(part[x]) : LineRead(x, n)[i] = part[x][i]
              /\ \A i \in 1..e - 1 : LineRead(x, n)[Len(part[x]) + i] = sent[Peer(x)][read[x] + i]
              /\ sent[Peer(x)][read[x] + e] = NewLine
<1>1. n \in Nat /\ RecvData(x, n)
  BY DEF ReadString
<1>2. /\ KernelInv' /\ StreamsGrow /\ UNCHANGED sent
      /\ read' = [read EXCEPT ![x] = read[x] + n]
      /\ Chunk(x, n) \in [1..n -> Byte]
      /\ \A i \in 1..n : Chunk(x, n)[i] = sent[Peer(x)][read[x] + i]
  BY <1>1, RecvDataInv
<1> DEFINE chunk == Chunk(x, n)
           e == EndOfLine(x, n)
           front == SubSeq(chunk, 1, e - 1)
<1>3. chunk \in Seq(Byte) /\ Len(chunk) = n
  BY <1>1, <1>2
<1>4. e \in 1..n /\ chunk[e] = NewLine /\ \A i \in 1..e - 1 : chunk[i] # NewLine
  BY <1>1, <1>2, EndOfLineFacts DEF ReadString
<1>5. \A i \in 1..n : chunk[i] = sent[Peer(x)][read[x] + i]
  BY <1>2
<1>6. LineRead(x, n) = part[x] \o front
  BY DEF LineRead
<1> HIDE DEF chunk, e
<1>7. e - 1 \in Nat /\ e - 1 <= Len(chunk)
  BY <1>3, <1>4
<1>8. /\ front \in Seq(Byte) /\ Len(front) = e - 1
      /\ \A i \in 1..e - 1 : front[i] = chunk[i]
  BY <1>3, <1>7, InitialBytes
<1> HIDE DEF front
<1>9. \A i \in 1..Len(front) : front[i] \in Byte \ {NewLine}
  BY <1>3, <1>4, <1>7, <1>8
<1>10. front \in Seq(Byte \ {NewLine})
  BY <1>8, <1>9, SequenceOver
<1>11. part[x] \in Seq(Byte \ {NewLine})
  BY DEF GoTypeOK
<1>12. /\ part[x] \o front \in Seq(Byte \ {NewLine})
       /\ Len(part[x] \o front) = Len(part[x]) + Len(front)
       /\ \A i \in 1..Len(part[x]) : (part[x] \o front)[i] = part[x][i]
       /\ \A i \in 1..Len(front) : (part[x] \o front)[Len(part[x]) + i] = front[i]
  BY <1>10, <1>11, Concatenation
<1>13. part[x] \o front \in Seq(Byte)
  BY <1>8, PartFacts, Concatenation
<1>14. \A i \in 1..e - 1 : front[i] = sent[Peer(x)][read[x] + i]
  <2>1. \A i \in 1..e - 1 : i \in 1..n
    BY <1>4
  <2> QED BY <1>5, <1>8, <2>1
<1>15. sent[Peer(x)][read[x] + e] = NewLine
  BY <1>4, <1>5
<1>16. part' = [part EXCEPT ![x] = <<>>]
  BY DEF ReadString
<1> DEFINE line == LineRead(x, n)
<1>17. /\ line \in Seq(Byte \ {NewLine}) /\ line \in Seq(Byte)
       /\ Len(line) = Len(part[x]) + (e - 1)
       /\ \A i \in 1..Len(part[x]) : line[i] = part[x][i]
       /\ \A i \in 1..e - 1 : line[Len(part[x]) + i] = sent[Peer(x)][read[x] + i]
  BY <1>6, <1>8, <1>12, <1>13, <1>14
<1> HIDE DEF line
<1>18. \E d \in 1..n : /\ Len(line) = Len(part[x]) + (d - 1)
                       /\ \A i \in 1..Len(part[x]) : line[i] = part[x][i]
                       /\ \A i \in 1..d - 1 : line[Len(part[x]) + i] = sent[Peer(x)][read[x] + i]
                       /\ sent[Peer(x)][read[x] + d] = NewLine
  BY <1>4, <1>15, <1>17
<1> QED BY <1>2, <1>16, <1>17, <1>18 DEF line

-------------------------------------------------------------------------------
(* The lines of the server. *)

LEMMA StreamTypes ==
  ASSUME GoTypeOK, KernelInv, NEW c \in Clients
  PROVE  /\ Cli(c) \in Endpoints /\ Srv(c) \in Endpoints
         /\ Peer(Srv(c)) = Cli(c) /\ Peer(Cli(c)) = Srv(c)
         /\ sent[Cli(c)] \in Seq(Byte) /\ sent[Srv(c)] \in Seq(Byte)
         /\ read[Srv(c)] \in Nat /\ read[Cli(c)] \in Nat
         /\ read[Srv(c)] <= Len(sent[Cli(c)]) /\ read[Cli(c)] <= Len(sent[Srv(c)])
         /\ said[c] \in Nat /\ said[c] <= STOP
         /\ Len(part[Srv(c)]) \in Nat
<1>1. Cli(c) \in Endpoints /\ Srv(c) \in Endpoints /\ Peer(Srv(c)) = Cli(c) /\ Peer(Cli(c)) = Srv(c)
  BY EndpointFacts
<1>2. /\ sent[Cli(c)] \in Seq(Byte) /\ sent[Srv(c)] \in Seq(Byte)
      /\ read[Srv(c)] \in Nat /\ read[Cli(c)] \in Nat
  BY <1>1 DEF KernelInv, KernelTypeOK
<1>3. read[Srv(c)] <= Len(sent[Cli(c)]) /\ read[Cli(c)] <= Len(sent[Srv(c)])
  BY <1>1 DEF KernelInv, ReadBound
<1>4. said[c] \in Nat /\ said[c] <= STOP
  BY StopFacts DEF GoTypeOK
<1> QED BY <1>1, <1>2, <1>3, <1>4, PartFacts

\* What the server reads is the end of a message, the first line of a stream
\* the whole of its first message.
LEMMA ServerLine ==
  ASSUME GoInv, NEW c \in Clients, NEW n \in 1..Unread(Srv(c)), ReadString(Srv(c), n)
  PROVE  /\ \E k \in 1..said[c] :
              /\ IsSuffix(LineRead(Srv(c), n), Letters(k))
              /\ LineStart(c) = 0 => /\ TextAt(sent[Cli(c)], 1, k)
                                     /\ LineRead(Srv(c), n) = Letters(k)
         /\ LineRead(Srv(c), n) # <<>> =>
              \E p \in LineStart(c) + 1..read[Srv(c)] + n :
                 /\ p <= Len(sent[Cli(c)])
                 /\ sent[Cli(c)][p] = Last(LineRead(Srv(c), n))
                 /\ sent[Cli(c)][p] # NewLine
<1> DEFINE x == Srv(c)
           s == sent[Cli(c)]
           line == LineRead(Srv(c), n)
           a == LineStart(c)
           r == read[Srv(c)]
           held == part[Srv(c)]
<1>1. /\ x \in Endpoints /\ Peer(x) = Cli(c) /\ s \in Seq(Byte) /\ r \in Nat /\ Len(held) \in Nat
      /\ said[c] \in Nat /\ Len(s) \in Nat /\ r <= Len(s)
  BY StreamTypes DEF GoInv
<1>2. /\ a \in Nat /\ a + Len(held) = r
      /\ \A i \in 1..Len(held) : held[i] = s[a + i]
  BY <1>1 DEF GoInv, HoldsLast, LineStart
<1>3. n \in Nat /\ r + n <= Len(s)
  BY <1>1 DEF Unread
<1>4. line \in Seq(Byte) /\ line \in Seq(Byte \ {NewLine})
  BY <1>1, ReadStringFacts DEF GoInv
<1>5. PICK e \in 1..n :
         /\ Len(line) = Len(held) + (e - 1)
         /\ \A i \in 1..Len(held) : line[i] = held[i]
         /\ \A i \in 1..e - 1 : line[Len(held) + i] = s[r + i]
         /\ s[r + e] = NewLine
  <2>1. GoTypeOK /\ KernelInv
    BY DEF GoInv
  <2>2. PICK d \in 1..n :
          /\ Len(LineRead(x, n)) = Len(part[x]) + (d - 1)
          /\ \A i \in 1..Len(part[x]) : LineRead(x, n)[i] = part[x][i]
          /\ \A i \in 1..d - 1 : LineRead(x, n)[Len(part[x]) + i] = sent[Peer(x)][read[x] + i]
          /\ sent[Peer(x)][read[x] + d] = NewLine
    BY <1>1, <2>1, ReadStringFacts
  <2> QED BY <1>1, <2>2
<1> HIDE DEF x, s, line, a, r, held
<1>n. r \in Nat /\ a \in Nat /\ Len(held) \in Nat /\ Len(s) \in Nat
  BY <1>1, <1>2
<1>s. a + Len(held) = r /\ r + n <= Len(s)
  BY <1>2, <1>3
<1>e. e \in Nat /\ n \in Nat /\ 1 <= e /\ e <= n
  BY <1>3
<1>l. Len(line) = Len(held) + (e - 1)
  BY <1>5
<1>6. Len(line) \in Nat /\ a + Len(line) = r + (e - 1) /\ a + Len(line) + 1 = r + e
  BY <1>n, <1>s, <1>e, <1>l
<1>7. a + Len(line) + 1 <= Len(s) /\ s[a + Len(line) + 1] = NewLine
  <2>1. r + e <= Len(s)
    BY <1>n, <1>s, <1>e
  <2> QED BY <1>5, <1>6, <2>1
<1>8. \A i \in 1..Len(line) : line[i] = s[a + i]
  <2> SUFFICES ASSUME NEW i \in 1..Len(line) PROVE line[i] = s[a + i]
    OBVIOUS
  <2>1. CASE i \in 1..Len(held)
    BY <1>2, <1>5, <2>1
  <2>2. CASE i \notin 1..Len(held)
    <3> DEFINE j == i - Len(held)
    <3>1. j \in 1..e - 1 /\ i = Len(held) + j /\ r + j = a + i
      BY <1>n, <1>s, <1>e, <1>l, <2>2
    <3> HIDE DEF j
    <3>2. line[Len(held) + j] = s[r + j]
      BY <1>5, <3>1
    <3> QED BY <3>1, <3>2
  <2> QED BY <2>1, <2>2
<1>9. \A i \in 1..Len(line) : line[i] # NewLine
  BY <1>4
<1>10. Messages(s, said[c])
  BY DEF s, GoInv, ClientWrites
<1>11. \E k \in 1..said[c] : IsSuffix(line, Letters(k)) /\ (a = 0 => TextAt(s, 1, k) /\ line = Letters(k))
  <2>1. \A i \in 1..Len(line) : line[i] = s[a + i] /\ line[i] # NewLine
    BY <1>8, <1>9
  <2> QED BY <1>1, <1>2, <1>4, <1>7, <1>10, <2>1, LineIsTail, Zenon
<1>12. ASSUME line # <<>>
       PROVE  \E p \in a + 1..r + n : p <= Len(s) /\ s[p] = Last(line) /\ s[p] # NewLine
  <2>1. Len(line) \in 1..Len(line)
    BY <1>4, <1>12
  <2>2. /\ s[a + Len(line)] = Last(line) /\ s[a + Len(line)] # NewLine
    BY <1>8, <1>9, <2>1 DEF Last
  <2>3. a + Len(line) \in a + 1..r + n /\ a + Len(line) <= Len(s)
    BY <1>n, <1>s, <1>e, <1>l, <2>1
  <2> QED BY <2>2, <2>3
<1> QED BY <1>11, <1>12 DEF s, line, a, r

-------------------------------------------------------------------------------
(* What steps of others leave alone. *)

\* What was read and printed stays right while the streams grow.
LEMMA LinesKept ==
  ASSUME GoInv, KernelInv', StreamsGrow,
         \A c \in Clients : /\ read'[Srv(c)] = read[Srv(c)]
                            /\ part'[Srv(c)] = part[Srv(c)],
         UNCHANGED printed, printed = <<>> \/ UNCHANGED conn,
         faults' >= faults
  PROVE  HoldsLast' /\ PrintsTails' /\ LinesRead' /\ FirstLine'
<1>1. GoTypeOK /\ KernelInv /\ faults \in Nat /\ faults' \in Nat
  BY DEF GoInv, KernelInv, KernelTypeOK
<1>2. \A c \in Clients : LineStart(c)' = LineStart(c)
  BY DEF LineStart
<1>3. ASSUME NEW c \in Clients
      PROVE  /\ \A p \in 1..read[Srv(c)] : sent'[Cli(c)][p] = sent[Cli(c)][p]
             /\ Extends(sent[Cli(c)], sent'[Cli(c)])
             /\ sent[Cli(c)] \in Seq(Byte) /\ sent'[Cli(c)] \in Seq(Byte)
  <2>1. /\ Cli(c) \in Endpoints /\ sent[Cli(c)] \in Seq(Byte)
        /\ read[Srv(c)] \in Nat /\ read[Srv(c)] <= Len(sent[Cli(c)])
    BY <1>1, StreamTypes
  <2>2. Extends(sent[Cli(c)], sent'[Cli(c)])
    BY <2>1 DEF StreamsGrow
  <2>3. \A p \in 1..read[Srv(c)] : p \in 1..Len(sent[Cli(c)])
    BY <2>1
  <2>4. sent'[Cli(c)] \in Seq(Byte)
    BY <2>1 DEF KernelInv, KernelTypeOK
  <2> QED BY <2>1, <2>2, <2>3, <2>4 DEF Extends
<1>4. HoldsLast'
  <2> SUFFICES ASSUME NEW c \in Clients
               PROVE  /\ LineStart(c)' >= 0
                      /\ \A i \in 1..Len(part'[Srv(c)]) :
                           part'[Srv(c)][i] = sent'[Cli(c)][LineStart(c)' + i]
    BY DEF HoldsLast
  <2>1. LineStart(c) >= 0
    BY DEF GoInv, HoldsLast
  <2>2. \A i \in 1..Len(part[Srv(c)]) :
          part[Srv(c)][i] = sent[Cli(c)][LineStart(c) + i]
    BY DEF GoInv, HoldsLast
  <2>3. read[Srv(c)] \in Nat /\ Len(part[Srv(c)]) \in Nat
    BY <1>1, StreamTypes
  <2>4. \A i \in 1..Len(part[Srv(c)]) : LineStart(c) + i \in 1..read[Srv(c)]
    BY <2>1, <2>3 DEF LineStart
  <2>5. \A i \in 1..Len(part[Srv(c)]) :
          part[Srv(c)][i] = sent'[Cli(c)][LineStart(c) + i]
    BY <1>3, <2>2, <2>4
  <2> QED BY <1>2, <2>1, <2>5
<1>5. PrintsTails'
  BY DEF GoInv, PrintsTails
<1>6. LinesRead'
  <2> SUFFICES ASSUME NEW i \in DOMAIN printed, printed[i] # <<>>
               PROVE  \E p \in 1..LineStart(conn)' : sent'[Cli(conn')][p] = Last(printed[i])
    BY DEF LinesRead
  <2>1. conn \in Clients /\ conn' = conn
    BY DEF GoInv, Serving
  <2>2. PICK p \in 1..LineStart(conn) : sent[Cli(conn)][p] = Last(printed[i])
    BY DEF GoInv, LinesRead
  <2>3. read[Srv(conn)] \in Nat /\ Len(part[Srv(conn)]) \in Nat
    BY <1>1, <2>1, StreamTypes
  <2>4. p \in 1..read[Srv(conn)]
    BY <2>3 DEF LineStart
  <2>5. LineStart(conn)' = LineStart(conn)
    BY <2>1 DEF LineStart
  <2>6. sent'[Cli(conn)][p] = Last(printed[i])
    BY <1>3, <2>1, <2>2, <2>4
  <2> QED BY <2>1, <2>5, <2>6
<1>7. FirstLine'
  <2> SUFFICES ASSUME printed # <<>>
               PROVE  \E k \in 1..MaxLines : /\ TextAt(sent'[Cli(conn')], 1, k)
                                             /\ printed[1] = Letters(k)
                                             /\ k = 1 \/ faults' > 1
    BY DEF FirstLine
  <2>1. conn \in Clients /\ conn' = conn
    BY DEF GoInv, Serving
  <2>2. PICK k \in 1..MaxLines : /\ TextAt(sent[Cli(conn)], 1, k)
                                 /\ printed[1] = Letters(k)
                                 /\ k = 1 \/ faults > 1
    BY DEF GoInv, FirstLine
  <2>3. TextAt(sent'[Cli(conn)], 1, k)
    BY <1>3, <2>1, <2>2, TextStays
  <2>4. k = 1 \/ faults' > 1
    BY <1>1, <2>2
  <2> QED BY <2>1, <2>2, <2>3, <2>4
<1> QED BY <1>4, <1>5, <1>6, <1>7

\* The server has nothing to do with what the clients have sent.
LEMMA WritesKept ==
  ASSUME GoInv, KernelInv', \A c \in Clients : sent'[Cli(c)] = sent[Cli(c)],
         UNCHANGED <<cpc, said>>, Stopped => Stopped', faults' >= faults
  PROVE  ClientWrites' /\ FirstSent'
<1>1. faults \in Nat /\ faults' \in Nat
  BY DEF GoInv, KernelInv, KernelTypeOK
<1>2. ClientWrites'
  BY DEF GoInv, ClientWrites
<1>3. FirstSent'
  <2> SUFFICES ASSUME ~Stopped', faults' < 2, NEW c \in Clients
               PROVE  IF sent'[Cli(c)] = <<>>
                      THEN said'[c] > 0 => faults' = 1 /\ cpc'[c] = "wait"
                      ELSE \E k \in {1, STOP} : TextAt(sent'[Cli(c)], 1, k)
    BY DEF FirstSent
  <2>1. IF sent[Cli(c)] = <<>>
        THEN said[c] > 0 => faults = 1 /\ cpc[c] = "wait"
        ELSE \E k \in {1, STOP} : TextAt(sent[Cli(c)], 1, k)
    BY <1>1 DEF GoInv, FirstSent
  <2>2. faults = 1 => faults' = 1
    BY <1>1
  <2> QED BY <2>1, <2>2
<1> QED BY <1>2, <1>3

LEMMA AnswersKept ==
  ASSUME GoInv, \A c \in Clients : sent'[Srv(c)] = sent[Srv(c)],
         UNCHANGED <<printed, heard>>, printed = <<>> \/ UNCHANGED conn
  PROVE  Answers'
BY DEF GoInv, GoTypeOK, Answers

\* A step that reads nothing, writes nothing and prints nothing.
LEMMA QuietInv ==
  ASSUME GoInv, KernelInv', StreamsGrow, UNCHANGED <<sent, read, part, said, printed, heard>>,
         conn' = conn \/ (printed = <<>> /\ conn' \in Clients),
         spc' \in {"start", "accept", "read", "write", "return", "done"},
         cpc' \in [Clients -> {"idle", "dial", "prompt", "wait", "done"}],
         faults' >= faults
  PROVE  /\ GoTypeOK'
         /\ HoldsLast' /\ PrintsTails' /\ LinesRead' /\ FirstLine' /\ Answers'
         /\ \A c \in Clients : LineStart(c)' = LineStart(c)
<1>1. printed = <<>> \/ UNCHANGED conn
  OBVIOUS
<1>2. HoldsLast' /\ PrintsTails' /\ LinesRead' /\ FirstLine'
  BY <1>1, LinesKept
<1>3. Answers'
  BY <1>1, AnswersKept
<1>4. GoTypeOK'
  BY DEF GoInv, GoTypeOK, KernelInv
<1> QED BY <1>2, <1>3, <1>4 DEF LineStart

LEMMA ServerListenInv ==
  ASSUME GoInv, ServerListen, UNCHANGED <<cpc, said, heard>>
  PROVE  GoInv'
<1>1. GoTypeOK /\ KernelInv /\ faults \in Nat
  BY DEF GoInv, KernelInv, KernelTypeOK
<1>2. spc = "start" /\ UNCHANGED <<conn, part, printed>> /\ spc' \in {"accept", "done"}
  BY DEF ServerListen, ServerGoto
<1>3. KernelInv' /\ StreamsGrow
  <2>1. "listening" \in ListenerStates
    BY DEF ListenerStates
  <2> QED BY <1>1, <2>1, ListenerBecomesInv, CallFailsInv DEF ServerListen
<1>4. UNCHANGED <<sent, read, sock, fin, rst>> /\ faults' >= faults
  BY <1>1 DEF ServerListen, ListenerBecomes, CallFails
<1>5. /\ GoTypeOK' /\ HoldsLast' /\ PrintsTails' /\ LinesRead' /\ FirstLine' /\ Answers'
      /\ \A c \in Clients : LineStart(c)' = LineStart(c)
  <2>1. cpc' \in [Clients -> {"idle", "dial", "prompt", "wait", "done"}]
    BY <1>1 DEF GoTypeOK
  <2> QED BY <1>2, <1>3, <1>4, <2>1, QuietInv
<1>6. ~Stopped \/ Stopped'
  BY <1>2 DEF Stopped, ServerListen, ServerGoto
<1>7. ClientWrites' /\ FirstSent'
  BY <1>3, <1>4, <1>6, WritesKept
<1>8. Serving'
  BY <1>2, <1>5 DEF GoInv, Serving
<1>9. NothingEnds'
  BY <1>4, <1>6 DEF GoInv, NothingEnds
<1> QED BY <1>3, <1>5, <1>7, <1>8, <1>9 DEF GoInv

LEMMA ServerAcceptInv ==
  ASSUME GoInv, ServerAccept, UNCHANGED <<cpc, said, heard>>
  PROVE  GoInv'
<1>1. GoTypeOK /\ KernelInv /\ faults \in Nat
  BY DEF GoInv, KernelInv, KernelTypeOK
<1>2. /\ spc = "accept" /\ UNCHANGED <<part, printed>>
      /\ \/ spc' = "read" /\ conn' \in Clients /\ AcceptCall(conn')
         \/ spc' = "return" /\ conn' = conn /\ CallFails
  BY DEF ServerAccept, ServerGoto
<1>3. KernelInv' /\ StreamsGrow
  BY <1>1, <1>2, AcceptInv, CallFailsInv
<1>4. UNCHANGED <<sent, read, fin, rst>> /\ faults' >= faults
  BY <1>1, <1>2 DEF AcceptCall, CallFails
<1>5. printed = <<>>
  BY <1>2, LinesAssumption DEF GoInv, Serving
<1>6. /\ GoTypeOK' /\ HoldsLast' /\ PrintsTails' /\ LinesRead' /\ FirstLine' /\ Answers'
      /\ \A c \in Clients : LineStart(c)' = LineStart(c)
  <2>1. cpc' \in [Clients -> {"idle", "dial", "prompt", "wait", "done"}]
    BY <1>1 DEF GoTypeOK
  <2> QED BY <1>2, <1>3, <1>4, <1>5, <2>1, QuietInv
<1>7. ~Stopped \/ Stopped'
  BY <1>2 DEF Stopped, ServerAccept, ServerGoto
<1>8. ClientWrites' /\ FirstSent'
  BY <1>3, <1>4, <1>7, WritesKept
<1>9. Serving'
  BY <1>2, <1>5, <1>6 DEF GoInv, Serving
<1>10. NothingEnds'
  <2>1. CASE sock' = sock
    BY <1>4, <1>7, <2>1 DEF GoInv, NothingEnds
  <2>2. CASE conn' \in Clients /\ AcceptCall(conn')
    <3>1. sock \in [Endpoints -> SockStates] /\ \A c \in Clients : Cli(c) \in Endpoints /\ Srv(c) \in Endpoints
      BY <1>1, EndpointFacts DEF KernelInv, KernelTypeOK
    <3>2. sock' = [sock EXCEPT ![Srv(conn')] = "open"]
      BY <2>2 DEF AcceptCall
    <3>3. \A c \in Clients : Cli(c) # Srv(conn')
      BY EndpointFacts
    <3>4. \A c \in Clients : /\ sock'[Cli(c)] = sock[Cli(c)]
                             /\ sock'[Srv(c)] = sock[Srv(c)] \/ sock'[Srv(c)] = "open"
      BY <3>1, <3>2, <3>3
    <3> QED BY <1>4, <1>7, <3>4 DEF GoInv, NothingEnds
  <2> QED BY <1>2, <2>1, <2>2 DEF CallFails
<1> QED BY <1>3, <1>6, <1>8, <1>9, <1>10 DEF GoInv

\* Failing or not, the calls on the server's end tell no client of an end.
LEMMA ServerCalls ==
  ASSUME KernelInv, NEW c \in Clients, NEW bytes,
         \/ SendOk(Srv(c), bytes) \/ SendFails(Srv(c), FALSE)
         \/ RecvEof(Srv(c)) \/ RecvFails(Srv(c))
         \/ \E n \in Nat : RecvData(Srv(c), n)
  PROVE  /\ UNCHANGED <<sock, fin>>
         /\ \A d \in Clients : rst'[Cli(d)] = rst[Cli(d)]
         /\ \A d \in Clients : sent'[Cli(d)] = sent[Cli(d)]
         /\ faults' >= faults
<1>1. /\ rst \in [Endpoints -> RstStates] /\ sent \in [Endpoints -> Seq(Byte)]
      /\ faults \in Nat
  BY DEF KernelInv, KernelTypeOK
<1>2. Srv(c) \in Endpoints /\ \A d \in Clients : Cli(d) \in Endpoints /\ Cli(d) # Srv(c)
  BY EndpointFacts
<1>3. CASE SendOk(Srv(c), bytes)
  BY <1>1, <1>2, <1>3 DEF SendOk
<1>4. CASE SendFails(Srv(c), FALSE)
  BY <1>1, <1>2, <1>4 DEF SendFails, CallFails, InvalidCall, ReportReset, kernelVars
<1>5. CASE RecvEof(Srv(c)) \/ RecvFails(Srv(c))
  BY <1>1, <1>2, <1>5 DEF RecvEof, RecvFails, CallFails, InvalidCall, ReportReset, kernelVars
<1>6. CASE \E n \in Nat : RecvData(Srv(c), n)
  BY <1>1, <1>6 DEF RecvData
<1> QED BY <1>3, <1>4, <1>5, <1>6

LEMMA ServerWriteInv ==
  ASSUME GoInv, ServerWrite, UNCHANGED <<cpc, said, heard>>
  PROVE  GoInv'
<1>1. GoTypeOK /\ KernelInv
  BY DEF GoInv
<1>2. spc = "write" /\ spc' = "read" /\ UNCHANGED <<conn, part, printed>>
  BY DEF ServerWrite, ServerGoto
<1>3. conn \in Clients /\ printed # <<>> /\ Srv(conn) \in Endpoints
  BY <1>2, EndpointFacts DEF GoInv, Serving
<1>4. SendOk(Srv(conn), <<TimeStamp, NewLine>>) \/ SendFails(Srv(conn), FALSE)
  BY DEF ServerWrite
<1>5. /\ UNCHANGED <<sock, fin>> /\ faults' >= faults
      /\ \A c \in Clients : rst'[Cli(c)] = rst[Cli(c)] /\ sent'[Cli(c)] = sent[Cli(c)]
  BY <1>1, <1>3, <1>4, ServerCalls
<1>6. <<TimeStamp, NewLine>> \in Seq(Byte)
  BY StopFacts, WrittenFacts
<1>7. KernelInv' /\ StreamsGrow
  BY <1>1, <1>3, <1>4, <1>6, SendOkInv, SendFailsInv
<1>8. read' = read
  BY <1>4 DEF SendOk, SendFails, CallFails, InvalidCall, ReportReset, kernelVars
<1>9. HoldsLast' /\ PrintsTails' /\ LinesRead' /\ FirstLine'
  BY <1>2, <1>5, <1>7, <1>8, LinesKept
<1>10. GoTypeOK'
  BY <1>1, <1>2, <1>7 DEF GoTypeOK, KernelInv
<1>11. ~Stopped \/ Stopped'
  BY <1>2 DEF Stopped
<1>12. ClientWrites' /\ FirstSent'
  BY <1>5, <1>7, <1>11, WritesKept
<1>13. Serving'
  BY <1>2, <1>3 DEF GoInv, Serving
<1>14. NothingEnds'
  BY <1>5, <1>11 DEF GoInv, NothingEnds
<1>15. Answers'
  <2>1. sent' = sent \/ SendOk(Srv(conn), <<TimeStamp, NewLine>>)
    BY <1>4 DEF SendFails, CallFails, InvalidCall, ReportReset, kernelVars
  <2>2. CASE sent' = sent
    BY <1>2, <2>2 DEF GoInv, Answers
  <2>3. CASE SendOk(Srv(conn), <<TimeStamp, NewLine>>)
    <3>1. \A c \in Clients : c # conn => sent'[Srv(c)] = sent[Srv(c)]
      BY <1>1, <1>3, <1>6, <2>3, EndpointFacts, SendOkInv
    <3>2. Extends(sent[Srv(conn)], sent'[Srv(conn)])
      BY <1>3, <1>7 DEF StreamsGrow
    <3>3. sent[Srv(conn)] # <<>> => sent'[Srv(conn)] # <<>>
      BY <1>1, <1>3, <3>2, StreamTypes DEF Extends
    <3>4. heard \subseteq Clients
      BY <1>1 DEF GoTypeOK
    <3> QED BY <1>2, <1>3, <3>1, <3>3, <3>4 DEF GoInv, Answers
  <2> QED BY <2>1, <2>2, <2>3
<1> QED BY <1>7, <1>9, <1>10, <1>12, <1>13, <1>14, <1>15 DEF GoInv

\* What was printed stays right while the server reads on.
LEMMA LinesAfterRead ==
  ASSUME GoInv, UNCHANGED <<sent, conn, printed>>, faults' >= faults,
         KernelInv', conn \in Clients, LineStart(conn)' >= LineStart(conn),
         part' \in [Endpoints -> Seq(Byte \ {NewLine})]
  PROVE  PrintsTails' /\ LinesRead' /\ FirstLine'
<1>1. faults \in Nat /\ faults' \in Nat /\ KernelInv /\ GoTypeOK
  BY DEF GoInv, KernelInv, KernelTypeOK
<1>2. PrintsTails'
  BY DEF GoInv, PrintsTails
<1>3. LinesRead'
  <2>1. LineStart(conn) \in Int /\ LineStart(conn)' \in Int
    <3>1. read[Srv(conn)] \in Nat /\ Len(part[Srv(conn)]) \in Nat
      BY <1>1, StreamTypes
    <3>2. Srv(conn) \in Endpoints
      BY EndpointFacts
    <3>3. read'[Srv(conn)] \in Nat
      BY <3>2 DEF KernelInv, KernelTypeOK
    <3>4. Len(part'[Srv(conn)]) \in Nat
      BY <3>2
    <3> QED BY <3>1, <3>3, <3>4 DEF LineStart
  <2>2. \A p \in 1..LineStart(conn) : p \in 1..LineStart(conn)'
    BY <2>1
  <2>3. \A i \in DOMAIN printed : printed[i] # <<>> =>
          \E p \in 1..LineStart(conn) : sent[Cli(conn)][p] = Last(printed[i])
    BY DEF GoInv, LinesRead
  <2>4. \A i \in DOMAIN printed : printed[i] # <<>> =>
          \E p \in 1..LineStart(conn)' : sent[Cli(conn)][p] = Last(printed[i])
    BY <2>2, <2>3
  <2> QED BY <2>4 DEF LinesRead
<1>4. FirstLine'
  BY <1>1 DEF GoInv, FirstLine
<1> QED BY <1>2, <1>3, <1>4

\* What holds however a read of the server ends, once its lines are right.
LEMMA ServerReads ==
  ASSUME GoInv, spc = "read", spc' \in {"read", "write", "return"},
         UNCHANGED <<cpc, said, heard, conn>>,
         \/ RecvEof(Srv(conn)) \/ RecvFails(Srv(conn))
         \/ \E n \in Nat : RecvData(Srv(conn), n),
         part' \in [Endpoints -> Seq(Byte \ {NewLine})],
         printed' = printed \/ \E line \in Seq(Byte \ {NewLine}) : printed' = Append(printed, line)
  PROVE  /\ KernelInv' /\ StreamsGrow /\ GoTypeOK'
         /\ ClientWrites' /\ FirstSent' /\ NothingEnds' /\ Answers'
<1>1. GoTypeOK /\ KernelInv
  BY DEF GoInv
<1>2. conn \in Clients /\ Srv(conn) \in Endpoints
  BY EndpointFacts DEF GoInv, Serving
<1>3. KernelInv' /\ StreamsGrow
  BY <1>1, <1>2, RecvEofInv, RecvFailsInv, RecvDataInv
<1>4. /\ UNCHANGED <<sock, fin>> /\ faults' >= faults
      /\ \A c \in Clients : rst'[Cli(c)] = rst[Cli(c)] /\ sent'[Cli(c)] = sent[Cli(c)]
  BY <1>1, <1>2, ServerCalls
<1>5. printed' \in Seq(Seq(Byte \ {NewLine})) /\ (printed # <<>> => printed' # <<>>)
  <2>1. printed \in Seq(Seq(Byte \ {NewLine}))
    BY <1>1 DEF GoTypeOK
  <2>2. CASE printed' = printed
    BY <2>1, <2>2
  <2>3. CASE \E line \in Seq(Byte \ {NewLine}) : printed' = Append(printed, line)
    <3>1. PICK line \in Seq(Byte \ {NewLine}) : printed' = Append(printed, line)
      BY <2>3
    <3> DEFINE Lines == Seq(Byte \ {NewLine})
    <3>2. printed \in Seq(Lines) /\ line \in Lines
      BY <2>1
    <3> HIDE DEF Lines
    <3> DEFINE longer == Append(printed, line)
    <3>3. longer \in Seq(Lines) /\ Len(longer) = Len(printed) + 1
      BY <3>2
    <3>4. Len(printed) \in Nat /\ printed' = longer
      BY <3>1, <3>2
    <3> HIDE DEF longer
    <3>5. longer # <<>>
      BY <3>3, <3>4
    <3> QED BY <3>3, <3>4, <3>5 DEF Lines
  <2> QED BY <2>2, <2>3
<1>6. GoTypeOK'
  BY <1>1, <1>3, <1>5 DEF GoTypeOK, KernelInv
<1>7. ~Stopped \/ Stopped'
  BY DEF Stopped
<1>8. ClientWrites' /\ FirstSent'
  BY <1>3, <1>4, <1>7, WritesKept
<1>9. NothingEnds'
  BY <1>4, <1>7 DEF GoInv, NothingEnds
<1>10. sent' = sent
  BY DEF RecvEof, RecvFails, RecvData, CallFails, InvalidCall, ReportReset, kernelVars
<1>11. Answers'
  BY <1>5, <1>10 DEF GoInv, Answers
<1> QED BY <1>3, <1>6, <1>8, <1>9, <1>11

LEMMA ReadsOnInv ==
  ASSUME GoInv, NEW n \in 1..Unread(Srv(conn)), ReadsOn(Srv(conn), n),
         ServerGoto("read", "read"), UNCHANGED <<printed, conn, cpc, said, heard>>
  PROVE  GoInv'
<1>1. GoTypeOK /\ KernelInv
  BY DEF GoInv
<1>2. spc = "read" /\ spc' = "read"
  BY DEF ServerGoto
<1>3. conn \in Clients /\ Srv(conn) \in Endpoints /\ Peer(Srv(conn)) = Cli(conn)
  BY <1>2, EndpointFacts DEF GoInv, Serving
<1> DEFINE x == Srv(conn)
<1>4. /\ KernelInv' /\ UNCHANGED sent
      /\ read' = [read EXCEPT ![x] = read[x] + n]
      /\ part' \in [Endpoints -> Seq(Byte \ {NewLine})]
      /\ \A y \in Endpoints : y # x => part'[y] = part[y]
      /\ Len(part'[x]) = Len(part[x]) + n
      /\ \A i \in 1..Len(part[x]) : part'[x][i] = part[x][i]
      /\ \A i \in 1..n : part'[x][Len(part[x]) + i] = sent[Peer(x)][read[x] + i]
  BY <1>1, <1>3, ReadsOnFacts
<1>5. read \in [Endpoints -> Nat] /\ read[x] \in Nat /\ Len(part[x]) \in Nat /\ n \in Nat
  BY <1>1, <1>3, StreamTypes DEF KernelInv, KernelTypeOK
<1>6. \A c \in Clients : c # conn => read'[Srv(c)] = read[Srv(c)] /\ part'[Srv(c)] = part[Srv(c)]
  BY <1>4, <1>5, EndpointFacts
<1>7. read'[x] = read[x] + n
  BY <1>3, <1>4, <1>5
<1>8. \A c \in Clients : LineStart(c)' = LineStart(c)
  <2>1. LineStart(conn)' = read'[x] - Len(part'[x])
    BY DEF LineStart
  <2>2. LineStart(conn)' = LineStart(conn)
    BY <1>4, <1>5, <1>7, <2>1 DEF LineStart
  <2>3. \A c \in Clients : c # conn => LineStart(c)' = LineStart(c)
    BY <1>6 DEF LineStart
  <2>4. \A c \in Clients : c = conn => LineStart(c)' = read'[x] - Len(part'[x])
    BY DEF LineStart
  <2> QED BY <2>1, <2>2, <2>3, <2>4
<1>9. HoldsLast'
  <2> SUFFICES ASSUME NEW c \in Clients
               PROVE  /\ LineStart(c) >= 0
                      /\ \A i \in 1..Len(part'[Srv(c)]) :
                           part'[Srv(c)][i] = sent[Cli(c)][LineStart(c) + i]
    BY <1>4, <1>8 DEF HoldsLast
  <2>1. /\ LineStart(c) >= 0
        /\ \A i \in 1..Len(part[Srv(c)]) : part[Srv(c)][i] = sent[Cli(c)][LineStart(c) + i]
    BY DEF GoInv, HoldsLast
  <2>2. CASE c # conn
    BY <1>6, <2>1, <2>2
  <2>3. CASE c = conn
    <3> DEFINE a == LineStart(conn)
               held == Len(part[x])
    <3>1. a + held = read[x] /\ a \in Int /\ held \in Nat
      BY <1>5 DEF LineStart
    <3> HIDE DEF a, held
    <3>2. ASSUME NEW i \in 1..held + n
          PROVE  part'[x][i] = sent[Cli(conn)][a + i]
      <4>1. CASE i \in 1..held
        BY <1>4, <2>1, <2>3, <4>1 DEF a, held
      <4>2. CASE i \notin 1..held
        <5> DEFINE j == i - held
        <5>1. j \in 1..n /\ held + j = i /\ read[x] + j = a + i
          BY <1>5, <3>1, <4>2
        <5> HIDE DEF j
        <5>2. part'[x][held + j] = sent[Cli(conn)][read[x] + j]
          BY <1>3, <1>4, <5>1 DEF held
        <5> QED BY <5>1, <5>2
      <4> QED BY <4>1, <4>2
    <3>3. Len(part'[x]) = held + n
      BY <1>4 DEF held
    <3>4. \A i \in 1..Len(part'[x]) : part'[x][i] = sent[Cli(conn)][a + i]
      BY <3>2, <3>3
    <3> QED BY <2>1, <2>3, <3>4 DEF a
  <2> QED BY <2>2, <2>3
<1>10. \E m \in Nat : RecvData(x, m)
  BY <1>5 DEF ReadsOn
<1>11. faults' >= faults
  BY <1>1, <1>3, <1>10, ServerCalls
<1>12. PrintsTails' /\ LinesRead' /\ FirstLine'
  <2>1. LineStart(conn)' >= LineStart(conn)
    <3>1. LineStart(conn)' = LineStart(conn) /\ LineStart(conn) \in Int
      BY <1>3, <1>4, <1>5, <1>7 DEF LineStart
    <3> QED BY <3>1
  <2> QED BY <1>3, <1>4, <1>11, <2>1, LinesAfterRead
<1>13. Serving'
  BY <1>2, <1>3, <1>8 DEF GoInv, Serving
<1>14. ClientWrites' /\ FirstSent' /\ NothingEnds' /\ Answers' /\ GoTypeOK'
  BY <1>2, <1>4, <1>10, ServerReads
<1> QED BY <1>4, <1>9, <1>12, <1>13, <1>14 DEF GoInv

LEMMA ServerReadErrorInv ==
  ASSUME GoInv, ReadError(Srv(conn)), ServerGoto("read", "return"),
         UNCHANGED <<printed, conn, cpc, said, heard>>
  PROVE  GoInv'
<1>1. GoTypeOK /\ KernelInv
  BY DEF GoInv
<1>2. spc = "read" /\ spc' = "return"
  BY DEF ServerGoto
<1>3. conn \in Clients /\ Srv(conn) \in Endpoints
  BY <1>2, EndpointFacts DEF GoInv, Serving
<1>4. /\ RecvEof(Srv(conn)) \/ RecvFails(Srv(conn))
      /\ part' = [part EXCEPT ![Srv(conn)] = <<>>]
  BY DEF ReadError
<1>5. sent' = sent /\ read' = read
  BY <1>4 DEF RecvEof, RecvFails, CallFails, InvalidCall, ReportReset, kernelVars
<1>6. part \in [Endpoints -> Seq(Byte \ {NewLine})]
  BY <1>1 DEF GoTypeOK
<1>7. /\ part' \in [Endpoints -> Seq(Byte \ {NewLine})]
      /\ part'[Srv(conn)] = <<>>
      /\ \A c \in Clients : c # conn => part'[Srv(c)] = part[Srv(c)]
  BY <1>3, <1>4, <1>6, EndpointFacts
<1>8. KernelInv' /\ GoTypeOK' /\ ClientWrites' /\ FirstSent' /\ NothingEnds' /\ Answers'
  BY <1>2, <1>4, <1>7, ServerReads
<1>9. LineStart(conn)' = read[Srv(conn)] /\ read[Srv(conn)] \in Nat /\ Len(part[Srv(conn)]) \in Nat
  <2>1. read[Srv(conn)] \in Nat /\ Len(part[Srv(conn)]) \in Nat
    BY <1>1, <1>3, StreamTypes
  <2>2. conn' = conn /\ Len(<<>>) = 0
    OBVIOUS
  <2>3. LineStart(conn)' = read'[Srv(conn)] - Len(part'[Srv(conn)])
    BY <2>2 DEF LineStart
  <2> QED BY <1>5, <1>7, <2>1, <2>2, <2>3
<1>10. HoldsLast'
  <2> SUFFICES ASSUME NEW c \in Clients
               PROVE  /\ LineStart(c)' >= 0
                      /\ \A i \in 1..Len(part'[Srv(c)]) :
                           part'[Srv(c)][i] = sent'[Cli(c)][LineStart(c)' + i]
    BY DEF HoldsLast
  <2>1. CASE c # conn
    BY <1>5, <1>7, <2>1 DEF GoInv, HoldsLast, LineStart
  <2>2. CASE c = conn
    BY <1>7, <1>9, <2>2
  <2> QED BY <2>1, <2>2
<1>11. faults' >= faults
  BY <1>1, <1>3, <1>4, ServerCalls
<1>12. LineStart(conn)' >= LineStart(conn)
  BY <1>9 DEF LineStart
<1>13. PrintsTails' /\ LinesRead' /\ FirstLine'
  BY <1>3, <1>5, <1>7, <1>8, <1>11, <1>12, LinesAfterRead
<1>14. Serving'
  BY <1>2, <1>3 DEF GoInv, Serving
<1> QED BY <1>8, <1>10, <1>13, <1>14 DEF GoInv

LEMMA Appended ==
  ASSUME NEW S, NEW s \in Seq(S), NEW e \in S
  PROVE  /\ Append(s, e) \in Seq(S) /\ Len(Append(s, e)) = Len(s) + 1
         /\ \A i \in 1..Len(s) : Append(s, e)[i] = s[i]
         /\ Append(s, e)[Len(s) + 1] = e
OBVIOUS

\* A line was written later than all lines printed before it.
LEMMA LaterLine ==
  ASSUME GoInv, NEW c \in Clients, c = conn,
         NEW i \in DOMAIN printed, printed[i] # <<>>,
         NEW q \in LineStart(c) + 1..Len(sent[Cli(c)]), sent[Cli(c)][q] # NewLine
  PROVE  Last(printed[i]) < sent[Cli(c)][q]
<1> DEFINE s == sent[Cli(c)]
           a == LineStart(c)
<1>1. GoTypeOK /\ KernelInv
  BY DEF GoInv
<1>2. a \in Nat /\ a <= Len(s) /\ Len(s) \in Nat
  <2>1. a >= 0
    BY DEF GoInv, HoldsLast
  <2> QED BY <1>1, <2>1, StreamTypes DEF LineStart
<1>3. PICK p \in 1..a : s[p] = Last(printed[i])
  BY DEF GoInv, LinesRead
<1>4. Last(printed[i]) # NewLine
  <2>1. printed[i] \in Seq(Byte \ {NewLine})
    BY <1>1 DEF GoTypeOK
  <2>2. Len(printed[i]) \in 1..Len(printed[i])
    BY <2>1
  <2> QED BY <2>1, <2>2 DEF Last
<1>5. Messages(s, said[c])
  BY DEF GoInv, ClientWrites
<1> HIDE DEF s, a
<1>6. q \in 1..Len(s) /\ p \in 1..Len(s) /\ p < q
  BY <1>2 DEF s, a
<1>7. s[p] # NewLine /\ s[q] # NewLine
  BY <1>3, <1>4 DEF s
<1>8. s[p] < s[q]
  BY <1>5, <1>6, <1>7 DEF Messages
<1> QED BY <1>3, <1>8 DEF s

\* A line that is printed keeps what is known of all of them.
LEMMA PrintInv ==
  ASSUME GoInv, spc = "read", ~Stopped, NEW n \in 1..Unread(Srv(conn)), ReadString(Srv(conn), n),
         NEW line, line = LineRead(Srv(conn), n), line # Letters(STOP),
         printed' = Append(printed, line), UNCHANGED <<conn, sent, faults>>,
         LineStart(conn)' = read[Srv(conn)] + n
  PROVE  PrintsTails' /\ LinesRead' /\ FirstLine'
<1> DEFINE c == conn
           s == sent[Cli(c)]
           a == LineStart(c)
           m == Len(printed)
           Lines == Seq(Byte \ {NewLine})
<1>1. c \in Clients /\ GoTypeOK /\ KernelInv /\ Srv(c) \in Endpoints
  BY EndpointFacts DEF GoInv, Serving
<1>2. line \in Lines /\ printed \in Seq(Lines)
  BY <1>1, ReadStringFacts DEF GoTypeOK
<1>3. PICK k \in 1..said[c] : /\ IsSuffix(line, Letters(k))
                              /\ a = 0 => TextAt(s, 1, k) /\ line = Letters(k)
  BY <1>1, ServerLine
<1>4. line # <<>> => \E q \in a + 1..read[Srv(c)] + n :
                        q <= Len(s) /\ s[q] = Last(line) /\ s[q] # NewLine
  BY <1>1, ServerLine
<1>5. k \in 1..STOP /\ k \in Nat /\ STOP \in Nat
  BY <1>1, StreamTypes, StopFacts
<1>6. /\ s \in Seq(Byte) /\ Len(s) \in Nat /\ read[Srv(c)] \in Nat /\ n \in Nat
      /\ a \in Nat /\ a <= read[Srv(c)]
  <2>1. a >= 0
    BY <1>1 DEF GoInv, HoldsLast
  <2> QED BY <1>1, <2>1, StreamTypes DEF LineStart
<1> HIDE DEF c, s, a, Lines
<1>7. /\ Append(printed, line) \in Seq(Lines) /\ Len(Append(printed, line)) = m + 1
      /\ \A i \in 1..m : Append(printed, line)[i] = printed[i]
      /\ Append(printed, line)[m + 1] = line
      /\ m \in Nat /\ DOMAIN printed = 1..m
  BY <1>2, Appended
<1> HIDE DEF m
<1>8. /\ DOMAIN printed' = 1..m + 1
      /\ \A i \in 1..m : printed'[i] = printed[i]
      /\ printed'[m + 1] = line
  <2>1. DOMAIN printed' = 1..Len(printed')
    BY <1>7
  <2> QED BY <1>7, <2>1
<1>9. \A i \in DOMAIN printed' : i \in 1..m \/ i = m + 1
  BY <1>7, <1>8
<1>10. PrintsTails'
  <2>1. ASSUME NEW i \in DOMAIN printed'
        PROVE  \E j \in 1..STOP : IsSuffix(printed'[i], Letters(j)) /\ printed'[i] # Letters(STOP)
    <3>1. CASE i = m + 1
      BY <1>3, <1>5, <1>8, <3>1
    <3>2. CASE i \in 1..m
      BY <1>7, <1>8, <3>2 DEF GoInv, PrintsTails
    <3> QED BY <1>9, <3>1, <3>2
  <2>2. ASSUME NEW i \in DOMAIN printed', NEW j \in DOMAIN printed',
               i < j, printed'[i] # <<>>, printed'[j] # <<>>
        PROVE  Last(printed'[i]) < Last(printed'[j])
    <3>1. i \in 1..m
      BY <1>7, <1>8, <2>2
    <3>2. CASE j \in 1..m
      BY <1>7, <1>8, <2>2, <3>1, <3>2 DEF GoInv, PrintsTails
    <3>3. CASE j = m + 1
      <4>1. line # <<>>
        BY <1>8, <2>2, <3>3
      <4>2. PICK q \in a + 1..read[Srv(c)] + n : q <= Len(s) /\ s[q] = Last(line) /\ s[q] # NewLine
        BY <1>4, <4>1
      <4>3. q \in a + 1..Len(s)
        BY <1>6, <4>2
      <4>4. printed[i] # <<>> /\ i \in DOMAIN printed
        BY <1>7, <1>8, <2>2, <3>1
      <4>5. Last(printed[i]) < s[q]
        BY <1>1, <4>2, <4>3, <4>4, LaterLine DEF c, s, a
      <4> QED BY <1>8, <3>1, <3>3, <4>2, <4>5
    <3> QED BY <1>9, <3>2, <3>3
  <2> QED BY <2>1, <2>2 DEF PrintsTails
<1>11. LinesRead'
  <2> SUFFICES ASSUME NEW i \in DOMAIN printed', printed'[i] # <<>>
               PROVE  \E p \in 1..read[Srv(c)] + n : s[p] = Last(printed'[i])
    BY DEF LinesRead, c, s
  <2>1. CASE i = m + 1
    <3>1. PICK q \in a + 1..read[Srv(c)] + n : q <= Len(s) /\ s[q] = Last(line) /\ s[q] # NewLine
      BY <1>4, <1>8, <2>1
    <3>2. q \in 1..read[Srv(c)] + n
      BY <1>6
    <3> QED BY <1>8, <2>1, <3>1, <3>2
  <2>2. CASE i \in 1..m
    <3>1. PICK p \in 1..a : s[p] = Last(printed[i])
      BY <1>7, <1>8, <2>2 DEF GoInv, LinesRead, c, s, a
    <3>2. p \in 1..read[Srv(c)] + n
      BY <1>6
    <3> QED BY <1>8, <2>2, <3>1, <3>2
  <2> QED BY <1>9, <2>1, <2>2
<1>12. FirstLine'
  <2> SUFFICES \E j \in 1..MaxLines : /\ TextAt(s, 1, j)
                                      /\ printed'[1] = Letters(j)
                                      /\ j = 1 \/ faults > 1
    BY DEF FirstLine, c, s
  <2>1. CASE printed = <<>>
    <3>1. a = 0 /\ m = 0
      BY <1>1, <2>1 DEF GoInv, Serving, a, m, c
    <3>2. TextAt(s, 1, k) /\ line = Letters(k) /\ printed'[1] = line
      BY <1>3, <1>8, <3>1
    <3>3. k \in 1..MaxLines
      <4>1. k # STOP
        BY <3>2
      <4> QED BY <1>5, <4>1, StopFacts DEF STOP
    <3>4. k = 1 \/ faults > 1
      <4> SUFFICES ASSUME ~ (faults > 1) PROVE k = 1
        OBVIOUS
      <4>1. faults < 2 /\ s # <<>>
        <5>1. faults \in Nat
          BY <1>1 DEF KernelInv, KernelTypeOK
        <5>2. s # <<>>
          BY <3>2 DEF TextAt
        <5> QED BY <5>1, <5>2
      <4>2. PICK j \in {1, STOP} : TextAt(s, 1, j)
        BY <1>1, <4>1 DEF GoInv, FirstSent, s
      <4>3. 2 * k + 1 = 2 * j + 1
        BY <3>2, <4>2 DEF TextAt
      <4>4. k = j
        BY <1>5, <4>3
      <4> QED BY <3>2, <4>4
    <3> QED BY <3>2, <3>3, <3>4
  <2>2. CASE printed # <<>>
    <3>1. 1 \in 1..m
      BY <1>2, <2>2 DEF m
    <3>2. printed'[1] = printed[1]
      BY <1>8, <3>1
    <3> QED BY <2>2, <3>2 DEF GoInv, FirstLine, c, s
  <2> QED BY <2>1, <2>2
<1> QED BY <1>10, <1>11, <1>12

LEMMA ReadStringInv ==
  ASSUME GoInv, NEW n \in 1..Unread(Srv(conn)), ReadString(Srv(conn), n),
         ServerHandles(LineRead(Srv(conn), n)), UNCHANGED <<conn, cpc, said, heard>>
  PROVE  GoInv'
<1> DEFINE x == Srv(conn)
           line == LineRead(Srv(conn), n)
<1>1. GoTypeOK /\ KernelInv
  BY DEF GoInv
<1>2. /\ spc = "read" /\ cpc[LocalClient] # "done"
      /\ \/ line = Letters(STOP) /\ spc' = "return" /\ printed' = printed
         \/ line # Letters(STOP) /\ spc' = "write" /\ printed' = Append(printed, line)
  BY DEF ServerHandles, ServerGoto
<1>3. conn \in Clients /\ x \in Endpoints /\ Peer(x) = Cli(conn)
  BY <1>2, EndpointFacts DEF GoInv, Serving
<1>4. /\ KernelInv' /\ sent' = sent
      /\ read' = [read EXCEPT ![x] = read[x] + n]
      /\ part' = [part EXCEPT ![x] = <<>>]
      /\ line \in Seq(Byte \ {NewLine})
  BY <1>1, <1>3, ReadStringFacts
<1>5. /\ read \in [Endpoints -> Nat] /\ read[x] \in Nat /\ Len(part[x]) \in Nat /\ n \in Nat
      /\ part \in [Endpoints -> Seq(Byte \ {NewLine})]
  BY <1>1, <1>3, StreamTypes DEF KernelInv, KernelTypeOK, GoTypeOK
<1> HIDE DEF line
<1>6. \A c \in Clients : c # conn => read'[Srv(c)] = read[Srv(c)] /\ part'[Srv(c)] = part[Srv(c)]
  BY <1>4, <1>5, EndpointFacts
<1>7. /\ read'[x] = read[x] + n /\ part'[x] = <<>>
      /\ part' \in [Endpoints -> Seq(Byte \ {NewLine})]
  BY <1>3, <1>4, <1>5
<1>8. LineStart(conn)' = read[x] + n
  <2>1. LineStart(conn)' = read'[x] - Len(part'[x]) /\ Len(<<>>) = 0
    BY DEF LineStart
  <2> QED BY <1>5, <1>7, <2>1
<1>9. \E m \in Nat : RecvData(x, m)
  BY <1>5 DEF ReadString
<1>10. faults' = faults
  BY <1>9 DEF RecvData
<1>11. HoldsLast'
  <2> SUFFICES ASSUME NEW c \in Clients
               PROVE  /\ LineStart(c)' >= 0
                      /\ \A i \in 1..Len(part'[Srv(c)]) :
                           part'[Srv(c)][i] = sent'[Cli(c)][LineStart(c)' + i]
    BY DEF HoldsLast
  <2>1. CASE c # conn
    BY <1>4, <1>6, <2>1 DEF GoInv, HoldsLast, LineStart
  <2>2. CASE c = conn
    <3>1. LineStart(c)' = read[x] + n
      BY <1>8, <2>2
    <3> QED BY <1>5, <1>7, <2>2, <3>1
  <2> QED BY <2>1, <2>2
<1>12. /\ ClientWrites' /\ FirstSent' /\ NothingEnds' /\ Answers' /\ GoTypeOK'
  BY <1>2, <1>4, <1>7, <1>9, ServerReads
<1>13. CASE printed' = printed /\ spc' = "return"
  <2>1. LineStart(conn)' >= LineStart(conn)
    BY <1>5, <1>8 DEF LineStart
  <2>2. faults' >= faults
    BY <1>1, <1>10 DEF KernelInv, KernelTypeOK
  <2>3. PrintsTails' /\ LinesRead' /\ FirstLine'
    BY <1>3, <1>4, <1>7, <1>13, <2>1, <2>2, LinesAfterRead
  <2>4. Serving'
    BY <1>3, <1>13 DEF GoInv, Serving
  <2> QED BY <1>4, <1>11, <1>12, <2>3, <2>4 DEF GoInv
<1>14. CASE line # Letters(STOP) /\ printed' = Append(printed, line) /\ spc' = "write"
  <2>1. ~Stopped
    BY <1>2 DEF Stopped
  <2>2. PrintsTails' /\ LinesRead' /\ FirstLine'
    BY <1>2, <1>4, <1>8, <1>10, <1>14, <2>1, PrintInv DEF line
  <2>3. Serving'
    <3>1. printed' # <<>>
      <4> DEFINE Lines == Seq(Byte \ {NewLine})
                 longer == Append(printed, line)
      <4>1. printed \in Seq(Lines) /\ line \in Lines
        BY <1>1, <1>4 DEF GoTypeOK
      <4> HIDE DEF Lines
      <4>2. longer \in Seq(Lines) /\ Len(longer) = Len(printed) + 1 /\ Len(printed) \in Nat
        BY <4>1
      <4>3. printed' = longer
        BY <1>14
      <4> HIDE DEF longer
      <4> QED BY <4>2, <4>3
    <3> QED BY <1>3, <1>14, <3>1 DEF Serving
  <2> QED BY <1>4, <1>11, <1>12, <2>2, <2>3 DEF GoInv
<1> QED BY <1>2, <1>13, <1>14

LEMMA ServerReadInv ==
  ASSUME GoInv, conn # NoClient, ServerRead, UNCHANGED <<cpc, said, heard>>
  PROVE  GoInv'
<1>1. conn' = conn
  BY DEF ServerRead
<1>2. CASE \E n \in 1..Unread(Srv(conn)) :
             ReadsOn(Srv(conn), n) /\ ServerGoto("read", "read") /\ UNCHANGED printed
  BY <1>1, <1>2, ReadsOnInv
<1>3. CASE \E n \in 1..Unread(Srv(conn)) :
             ReadString(Srv(conn), n) /\ ServerHandles(LineRead(Srv(conn), n))
  BY <1>1, <1>3, ReadStringInv
<1>4. CASE ReadError(Srv(conn)) /\ ServerGoto("read", "return") /\ UNCHANGED printed
  BY <1>1, <1>4, ServerReadErrorInv
<1> QED BY <1>2, <1>3, <1>4 DEF ServerRead

\* Once the server has stopped, closing what it leaves tells its clients.
LEMMA StoppedInv ==
  ASSUME GoInv, Stopped', KernelInv', StreamsGrow,
         UNCHANGED <<sent, read, faults, conn, part, said, printed, heard, cpc>>,
         \/ spc = "return" /\ spc' = "done"
         \/ spc' = spc,
         \A c \in Clients : cpc[c] \in {"prompt", "wait"} => sock'[Cli(c)] = sock[Cli(c)]
  PROVE  GoInv'
<1>1. GoTypeOK /\ KernelInv /\ faults \in Nat
  BY DEF GoInv, KernelInv, KernelTypeOK
<1>2. /\ GoTypeOK' /\ HoldsLast' /\ PrintsTails' /\ LinesRead' /\ FirstLine' /\ Answers'
      /\ \A c \in Clients : LineStart(c)' = LineStart(c)
  <2>1. /\ cpc' \in [Clients -> {"idle", "dial", "prompt", "wait", "done"}]
        /\ spc' \in {"start", "accept", "read", "write", "return", "done"}
        /\ faults' >= faults
    BY <1>1 DEF GoTypeOK
  <2> QED BY <2>1, QuietInv
<1>3. ClientWrites'
  BY DEF GoInv, ClientWrites
<1>4. FirstSent'
  BY DEF FirstSent
<1>5. Serving'
  BY <1>2 DEF GoInv, Serving
<1>6. NothingEnds'
  BY DEF GoInv, NothingEnds
<1> QED BY <1>2, <1>3, <1>4, <1>5, <1>6 DEF GoInv

LEMMA ServerReturnsInv ==
  ASSUME GoInv, ServerReturns, UNCHANGED <<cpc, said, heard>>
  PROVE  GoInv'
<1>1. GoTypeOK /\ KernelInv
  BY DEF GoInv
<1>2. /\ spc = "return" /\ spc' = "done" /\ CloseListenerCall
      /\ UNCHANGED <<conn, part, printed>>
  BY DEF ServerReturns, ServerGoto
<1>3. KernelInv' /\ StreamsGrow
  BY <1>1, <1>2, CloseListenerInv
<1>4. UNCHANGED <<sent, read, faults>>
  BY <1>2 DEF CloseListenerCall
<1>5. ASSUME NEW c \in Clients, cpc[c] \in {"prompt", "wait"}
      PROVE  sock'[Cli(c)] = sock[Cli(c)]
  <2>1. sock[Cli(c)] = "open" /\ Cli(c) \in Endpoints
    BY <1>5, EndpointFacts DEF GoInv, NothingEnds
  <2> QED BY <1>2, <2>1 DEF CloseListenerCall
<1> QED BY <1>2, <1>3, <1>4, <1>5, StoppedInv DEF Stopped

\* Closing an end concerns no socket but its own.
LEMMA ClosedEnd ==
  ASSUME KernelInv, NEW x, CloseOpen(x)
  PROVE  /\ KernelInv' /\ StreamsGrow /\ x \in Endpoints
         /\ UNCHANGED <<sent, read, faults>>
         /\ \A y \in Endpoints : y # x => sock'[y] = sock[y] /\ fin'[y] = fin[y]
         /\ \A y \in Endpoints : y # Peer(x) => rst'[y] = rst[y]
<1>1. /\ sock \in [Endpoints -> SockStates] /\ fin \in [Endpoints -> BOOLEAN]
      /\ rst \in [Endpoints -> RstStates]
  BY DEF KernelInv, KernelTypeOK
<1>2. KernelInv' /\ StreamsGrow
  BY CloseInv DEF CloseCall
<1>3. x \in Endpoints /\ UNCHANGED <<sent, read, faults>> /\ sock' = [sock EXCEPT ![x] = "closed"]
  BY DEF CloseOpen, Valid
<1>4. \A y \in Endpoints : y # x => fin'[y] = fin[y]
  BY <1>1 DEF CloseOpen
<1>5. \A y \in Endpoints : y # Peer(x) => rst'[y] = rst[y]
  BY <1>1 DEF CloseOpen
<1> QED BY <1>1, <1>2, <1>3, <1>4, <1>5

LEMMA CollectInv ==
  ASSUME GoInv, Collect
  PROVE  GoInv'
<1>1. /\ KernelInv /\ spc = "done" /\ CloseOpen(Srv(conn))
      /\ UNCHANGED <<spc, cpc, conn, part, said, printed, heard>>
  BY DEF GoInv, Collect, goVars
<1>2. /\ KernelInv' /\ StreamsGrow /\ UNCHANGED <<sent, read, faults>>
      /\ \A y \in Endpoints : y # Srv(conn) => sock'[y] = sock[y]
  BY <1>1, ClosedEnd
<1>3. \A c \in Clients : sock'[Cli(c)] = sock[Cli(c)]
  BY <1>2, EndpointFacts
<1> QED BY <1>1, <1>2, <1>3, StoppedInv DEF Stopped

\* A client that is done is a matter of its own end only.
LEMMA ReapInv ==
  ASSUME GoInv, NEW c \in Clients, Reap(c)
  PROVE  GoInv'
<1>1. /\ GoTypeOK /\ KernelInv /\ cpc[c] = "done" /\ faults \in Nat
      /\ UNCHANGED <<spc, cpc, conn, part, said, printed, heard>>
  BY DEF GoInv, Reap, goVars, KernelInv, KernelTypeOK
<1>2. CASE c = LocalClient /\ listener = "listening" /\ CloseListenerCall
  <2>1. KernelInv' /\ StreamsGrow /\ UNCHANGED <<sent, read, faults>>
    BY <1>1, <1>2, CloseListenerInv DEF CloseListenerCall
  <2>2. ASSUME NEW d \in Clients, cpc[d] \in {"prompt", "wait"}
        PROVE  sock'[Cli(d)] = sock[Cli(d)]
    <3>1. sock[Cli(d)] = "open" /\ Cli(d) \in Endpoints
      BY <2>2, EndpointFacts DEF GoInv, NothingEnds
    <3> QED BY <1>2, <3>1 DEF CloseListenerCall
  <2> QED BY <1>1, <1>2, <2>1, <2>2, StoppedInv DEF Stopped
<1>3. CASE c = LocalClient /\ conn # NoClient /\ CloseOpen(Srv(conn))
  <2>1. /\ KernelInv' /\ StreamsGrow /\ UNCHANGED <<sent, read, faults>>
        /\ \A y \in Endpoints : y # Srv(conn) => sock'[y] = sock[y]
    BY <1>1, <1>3, ClosedEnd
  <2>2. \A d \in Clients : sock'[Cli(d)] = sock[Cli(d)]
    BY <2>1, EndpointFacts
  <2> QED BY <1>1, <1>3, <2>1, <2>2, StoppedInv DEF Stopped
<1>4. CASE CloseOpen(Cli(c))
  <2>1. /\ KernelInv' /\ StreamsGrow /\ UNCHANGED <<sent, read, faults>>
        /\ \A y \in Endpoints : y # Cli(c) => sock'[y] = sock[y] /\ fin'[y] = fin[y]
        /\ \A y \in Endpoints : y # Srv(c) => rst'[y] = rst[y]
    BY <1>1, <1>4, ClosedEnd, EndpointFacts
  <2>2. /\ GoTypeOK' /\ HoldsLast' /\ PrintsTails' /\ LinesRead' /\ FirstLine' /\ Answers'
        /\ \A d \in Clients : LineStart(d)' = LineStart(d)
    <3>1. /\ cpc' \in [Clients -> {"idle", "dial", "prompt", "wait", "done"}]
          /\ spc' \in {"start", "accept", "read", "write", "return", "done"}
          /\ faults' >= faults
      BY <1>1, <2>1 DEF GoTypeOK
    <3> QED BY <1>1, <2>1, <3>1, QuietInv
  <2>3. Stopped => Stopped'
    BY <1>1 DEF Stopped
  <2>4. ClientWrites' /\ FirstSent'
    <3>1. faults' >= faults
      BY <1>1, <2>1
    <3> QED BY <1>1, <2>1, <2>3, <3>1, WritesKept
  <2>5. Serving'
    BY <1>1, <2>2 DEF GoInv, Serving
  <2>6. NothingEnds'
    <3>1. \A d \in Clients : cpc[d] \in {"prompt", "wait"} => sock'[Cli(d)] = sock[Cli(d)]
      <4>1. \A d \in Clients : d # c => sock'[Cli(d)] = sock[Cli(d)]
        BY <2>1, EndpointFacts
      <4> QED BY <1>1, <4>1
    <3>2. \A d \in Clients : /\ sock'[Srv(d)] = sock[Srv(d)] /\ fin'[Srv(d)] = fin[Srv(d)]
                             /\ rst'[Cli(d)] = rst[Cli(d)]
      BY <2>1, EndpointFacts
    <3>3. Stopped' = Stopped
      BY <1>1 DEF Stopped
    <3> QED BY <1>1, <3>1, <3>2, <3>3 DEF GoInv, NothingEnds
  <2> QED BY <2>1, <2>2, <2>4, <2>5, <2>6 DEF GoInv
<1> QED BY <1>2, <1>3, <1>4 DEF Reap

LEMMA NetworkInv ==
  ASSUME GoInv, Network
  PROVE  GoInv'
<1>1. /\ GoTypeOK /\ KernelInv /\ faults \in Nat
      /\ UNCHANGED <<spc, cpc, conn, part, said, printed, heard>>
  BY DEF GoInv, Network, goVars, KernelInv, KernelTypeOK
<1>2. PICK x \in Endpoints : DeliverRst(x)
  BY DEF Network
<1>3. /\ KernelInv' /\ StreamsGrow /\ UNCHANGED <<sent, read, faults, sock, fin>>
      /\ rst[x] = "flying" /\ \A y \in Endpoints : y # x => rst'[y] = rst[y]
  BY <1>1, <1>2, DeliverRstInv DEF DeliverRst, KernelInv, KernelTypeOK
<1>4. /\ GoTypeOK' /\ HoldsLast' /\ PrintsTails' /\ LinesRead' /\ FirstLine' /\ Answers'
      /\ \A d \in Clients : LineStart(d)' = LineStart(d)
  <2>1. /\ cpc' \in [Clients -> {"idle", "dial", "prompt", "wait", "done"}]
        /\ spc' \in {"start", "accept", "read", "write", "return", "done"}
        /\ faults' >= faults
    BY <1>1, <1>3 DEF GoTypeOK
  <2> QED BY <1>1, <1>3, <2>1, QuietInv
<1>5. Stopped' = Stopped
  BY <1>1 DEF Stopped
<1>6. ClientWrites' /\ FirstSent'
  <2>1. faults' >= faults
    BY <1>1, <1>3
  <2> QED BY <1>1, <1>3, <1>5, <2>1, WritesKept
<1>7. Serving'
  BY <1>1, <1>4 DEF GoInv, Serving
<1>8. NothingEnds'
  <2>1. ASSUME ~Stopped, NEW c \in Clients
        PROVE  rst'[Cli(c)] = rst[Cli(c)]
    <3>1. rst[Cli(c)] = "none" /\ Cli(c) \in Endpoints
      BY <2>1, EndpointFacts DEF GoInv, NothingEnds
    <3> QED BY <1>3, <3>1
  <2> QED BY <1>1, <1>3, <1>5, <2>1 DEF GoInv, NothingEnds
<1> QED BY <1>3, <1>4, <1>6, <1>7, <1>8 DEF GoInv

-------------------------------------------------------------------------------
(* The clients. *)

LEMMA ClientGoes ==
  ASSUME GoTypeOK, NEW c \in Clients, NEW pc, NEW next, ClientGoto(c, pc, next),
         next \in {"idle", "dial", "prompt", "wait", "done"}
  PROVE  /\ cpc[c] = pc /\ cpc'[c] = next
         /\ \A d \in Clients : d # c => cpc'[d] = cpc[d]
         /\ cpc' \in [Clients -> {"idle", "dial", "prompt", "wait", "done"}]
         /\ pc # "done" /\ UNCHANGED spc => (Stopped => Stopped')
<1>1. cpc \in [Clients -> {"idle", "dial", "prompt", "wait", "done"}]
  BY DEF GoTypeOK
<1>2. /\ cpc[c] = pc /\ cpc'[c] = next
      /\ \A d \in Clients : d # c => cpc'[d] = cpc[d]
      /\ cpc' \in [Clients -> {"idle", "dial", "prompt", "wait", "done"}]
  BY <1>1 DEF ClientGoto
<1>3. pc # "done" /\ UNCHANGED spc => (Stopped => Stopped')
  BY <1>2, TestBedAssumption DEF Stopped
<1> QED BY <1>2, <1>3

\* A client on its way to the prompt has sent nothing yet.
LEMMA SetsOut ==
  ASSUME GoInv, KernelInv', NEW c \in Clients, UNCHANGED <<sent, said, spc>>,
         NEW pc \in {"idle", "dial"}, NEW next \in {"dial", "prompt", "done"},
         ClientGoto(c, pc, next), faults' >= faults
  PROVE  ClientWrites' /\ FirstSent'
<1>1. GoTypeOK /\ faults \in Nat /\ faults' \in Nat
  BY DEF GoInv, KernelInv, KernelTypeOK
<1>2. /\ cpc[c] = pc /\ cpc'[c] = next
      /\ \A d \in Clients : d # c => cpc'[d] = cpc[d]
      /\ Stopped => Stopped'
  BY <1>1, ClientGoes
<1>3. ClientWrites'
  BY <1>2 DEF GoInv, ClientWrites
<1>4. FirstSent'
  <2> SUFFICES ASSUME ~Stopped', faults' < 2, NEW d \in Clients
               PROVE  IF sent[Cli(d)] = <<>>
                      THEN said[d] > 0 => faults' = 1 /\ cpc'[d] = "wait"
                      ELSE \E k \in {1, STOP} : TextAt(sent[Cli(d)], 1, k)
    BY DEF FirstSent
  <2>1. IF sent[Cli(d)] = <<>>
        THEN said[d] > 0 => faults = 1 /\ cpc[d] = "wait"
        ELSE \E k \in {1, STOP} : TextAt(sent[Cli(d)], 1, k)
    BY <1>1, <1>2 DEF GoInv, FirstSent
  <2>2. faults = 1 => faults' = 1
    BY <1>1
  <2>3. cpc[d] = "wait" => cpc'[d] = "wait"
    BY <1>2
  <2> QED BY <2>1, <2>2, <2>3
<1> QED BY <1>3, <1>4

LEMMA StartRemoteInv ==
  ASSUME GoInv, NEW c \in Clients, StartRemote(c)
  PROVE  GoInv'
<1>1. GoTypeOK /\ KernelInv /\ faults \in Nat
  BY DEF GoInv, KernelInv, KernelTypeOK
<1>2. /\ ClientGoto(c, "idle", "dial")
      /\ UNCHANGED <<spc, conn, part, said, printed, heard, kernelVars>>
  BY DEF StartRemote
<1>3. /\ cpc'[c] = "dial" /\ \A d \in Clients : d # c => cpc'[d] = cpc[d]
      /\ cpc' \in [Clients -> {"idle", "dial", "prompt", "wait", "done"}]
      /\ Stopped => Stopped'
  BY <1>1, <1>2, ClientGoes
<1>4. /\ KernelInv' /\ StreamsGrow /\ faults' >= faults
      /\ UNCHANGED <<sent, read, sock, fin, rst>>
  BY <1>1, <1>2, UnchangedInv DEF kernelVars
<1>5. /\ GoTypeOK' /\ HoldsLast' /\ PrintsTails' /\ LinesRead' /\ FirstLine' /\ Answers'
      /\ \A d \in Clients : LineStart(d)' = LineStart(d)
  <2>1. spc' \in {"start", "accept", "read", "write", "return", "done"}
    BY <1>1, <1>2 DEF GoTypeOK
  <2> QED BY <1>2, <1>3, <1>4, <2>1, QuietInv
<1>6. ClientWrites' /\ FirstSent'
  BY <1>2, <1>4, SetsOut
<1>7. Serving'
  BY <1>2, <1>5 DEF GoInv, Serving
<1>8. NothingEnds'
  BY <1>3, <1>4 DEF GoInv, NothingEnds
<1> QED BY <1>4, <1>5, <1>6, <1>7, <1>8 DEF GoInv

LEMMA ClientDialInv ==
  ASSUME GoInv, NEW c \in Clients, ClientDial(c), UNCHANGED <<spc, conn, printed>>
  PROVE  GoInv'
<1>1. GoTypeOK /\ KernelInv /\ faults \in Nat /\ sock \in [Endpoints -> SockStates]
  BY DEF GoInv, KernelInv, KernelTypeOK
<1>2. /\ UNCHANGED <<part, said, heard>>
      /\ \/ ClientGoto(c, "dial", "prompt") /\ ConnectCall(c)
         \/ ClientGoto(c, "dial", "done") /\ (UNCHANGED kernelVars \/ CallFails)
  BY DEF ClientDial
<1>3. /\ KernelInv' /\ StreamsGrow
  BY <1>1, <1>2, ConnectInv, UnchangedInv, CallFailsInv
<1>4. UNCHANGED <<sent, read, fin, rst>> /\ faults' >= faults
  BY <1>1, <1>2 DEF ConnectCall, CallFails, kernelVars
<1>5. /\ cpc'[c] \in {"prompt", "done"} /\ \A d \in Clients : d # c => cpc'[d] = cpc[d]
      /\ cpc' \in [Clients -> {"idle", "dial", "prompt", "wait", "done"}]
      /\ Stopped => Stopped'
  BY <1>1, <1>2, ClientGoes
<1>6. /\ GoTypeOK' /\ HoldsLast' /\ PrintsTails' /\ LinesRead' /\ FirstLine' /\ Answers'
      /\ \A d \in Clients : LineStart(d)' = LineStart(d)
  <2>1. spc' \in {"start", "accept", "read", "write", "return", "done"}
    BY <1>1 DEF GoTypeOK
  <2> QED BY <1>2, <1>3, <1>4, <1>5, <2>1, QuietInv
<1>7. ClientWrites' /\ FirstSent'
  BY <1>2, <1>3, <1>4, SetsOut
<1>8. Serving'
  BY <1>6 DEF GoInv, Serving
<1>9. NothingEnds'
  <2>1. CASE ClientGoto(c, "dial", "prompt") /\ ConnectCall(c)
    <3>1. sock' = [sock EXCEPT ![Cli(c)] = "open", ![Srv(c)] = "queued"]
      BY <2>1 DEF ConnectCall
    <3>2. \A d \in Clients : sock'[Srv(d)] = sock[Srv(d)] \/ sock'[Srv(d)] = "queued"
      BY <1>1, <3>1, EndpointFacts
    <3>3. \A d \in Clients : sock'[Cli(d)] = sock[Cli(d)] \/ sock'[Cli(d)] = "open"
      BY <1>1, <3>1, EndpointFacts
    <3>4. sock'[Cli(c)] = "open"
      BY <1>1, <3>1, EndpointFacts
    <3> QED BY <1>4, <1>5, <3>2, <3>3, <3>4 DEF GoInv, NothingEnds
  <2>2. CASE ClientGoto(c, "dial", "done") /\ (UNCHANGED kernelVars \/ CallFails)
    <3>1. sock' = sock /\ cpc'[c] = "done"
      BY <1>1, <2>2, ClientGoes DEF CallFails, kernelVars
    <3> QED BY <1>4, <1>5, <3>1 DEF GoInv, NothingEnds
  <2> QED BY <1>2, <2>1, <2>2
<1> QED BY <1>3, <1>6, <1>7, <1>8, <1>9 DEF GoInv

\* A message that fails to leave while the server runs is a call that failed.
LEMMA SendFailsOnlySo ==
  ASSUME GoInv, ~Stopped, NEW c \in Clients, cpc[c] \in {"prompt", "wait"},
         SendFails(Cli(c), FALSE)
  PROVE  CallFails
<1>1. sock[Cli(c)] = "open" /\ rst[Cli(c)] = "none" /\ Cli(c) \in Endpoints
  BY EndpointFacts DEF GoInv, NothingEnds
<1> QED BY <1>1 DEF SendFails, InvalidCall, BrokenPipe, Valid

LEMMA ClientPromptInv ==
  ASSUME GoInv, NEW c \in Clients, ClientPrompt(c), UNCHANGED <<spc, conn, printed>>
  PROVE  GoInv'
<1>1. /\ GoTypeOK /\ KernelInv /\ faults \in Nat /\ Cli(c) \in Endpoints
      /\ rst \in [Endpoints -> RstStates] /\ said \in [Clients -> 0..STOP]
  BY EndpointFacts DEF GoInv, KernelInv, KernelTypeOK, GoTypeOK
<1>2. /\ ClientGoto(c, "prompt", "wait") /\ UNCHANGED <<part, heard>>
  BY DEF ClientPrompt
<1>3. PICK k \in {said[c] + 1, STOP} :
        /\ said' = [said EXCEPT ![c] = k]
        /\ SendOk(Cli(c), Written(k)) \/ SendFails(Cli(c), FALSE)
  BY DEF ClientPrompt, Written
<1>4. /\ cpc[c] = "prompt" /\ cpc'[c] = "wait"
      /\ \A d \in Clients : d # c => cpc'[d] = cpc[d]
      /\ cpc' \in [Clients -> {"idle", "dial", "prompt", "wait", "done"}]
      /\ Stopped => Stopped'
  BY <1>1, <1>2, ClientGoes
<1>5. said[c] < STOP /\ said[c] \in Nat /\ STOP \in Nat
  BY <1>1, <1>4, StopFacts, StreamTypes DEF GoInv, ClientWrites
<1>6. k \in 1..STOP /\ said[c] < k /\ k > 0
  BY <1>5
<1>7. /\ said'[c] = k /\ \A d \in Clients : d # c => said'[d] = said[d]
      /\ said' \in [Clients -> 0..STOP]
  BY <1>1, <1>3, <1>6
<1>8. Written(k) \in Seq(Byte)
  BY <1>6, WrittenFacts
<1>9. /\ KernelInv' /\ StreamsGrow
  BY <1>1, <1>3, <1>8, SendOkInv, SendFailsInv
<1>10. /\ UNCHANGED <<read, sock, fin>> /\ faults' \in Nat /\ faults' >= faults
       /\ \A y \in Endpoints : y # Cli(c) => rst'[y] = rst[y]
  BY <1>1, <1>3 DEF SendOk, SendFails, CallFails, InvalidCall, ReportReset, kernelVars
<1>11. \/ sent'[Cli(c)] = sent[Cli(c)] \o Written(k) /\ SendOk(Cli(c), Written(k))
       \/ sent'[Cli(c)] = sent[Cli(c)] /\ SendFails(Cli(c), FALSE)
  <2>1. SendOk(Cli(c), Written(k)) => sent'[Cli(c)] = sent[Cli(c)] \o Written(k)
    BY <1>1, <1>8, SendOkInv
  <2>2. SendFails(Cli(c), FALSE) => sent' = sent
    BY DEF SendFails, CallFails, InvalidCall, ReportReset, kernelVars
  <2> QED BY <1>3, <2>1, <2>2
<1>12. \A y \in Endpoints : y # Cli(c) => sent'[y] = sent[y]
  <2>1. SendOk(Cli(c), Written(k)) => \A y \in Endpoints : y # Cli(c) => sent'[y] = sent[y]
    BY <1>1, <1>8, SendOkInv
  <2>2. SendFails(Cli(c), FALSE) => sent' = sent
    BY DEF SendFails, CallFails, InvalidCall, ReportReset, kernelVars
  <2> QED BY <1>3, <2>1, <2>2
<1>13. \A d \in Clients : /\ Cli(d) \in Endpoints /\ Srv(d) \in Endpoints
                          /\ Srv(d) # Cli(c) /\ (d # c => Cli(d) # Cli(c))
  BY EndpointFacts
<1>14. HoldsLast' /\ PrintsTails' /\ LinesRead' /\ FirstLine'
  BY <1>2, <1>9, <1>10, LinesKept
<1>15. GoTypeOK'
  BY <1>1, <1>2, <1>4, <1>7, <1>9 DEF GoTypeOK, KernelInv
<1>16. Answers'
  BY <1>2, <1>12, <1>13, AnswersKept
<1>17. Serving'
  <2>1. \A d \in Clients : LineStart(d)' = LineStart(d)
    BY <1>2, <1>10 DEF LineStart
  <2> QED BY <2>1 DEF GoInv, Serving
<1>18. Messages(sent[Cli(c)], said[c]) /\ sent[Cli(c)] \in Seq(Byte)
  BY <1>1, StreamTypes DEF GoInv, ClientWrites
<1>19. /\ Messages(sent[Cli(c)] \o Written(k), k)
       /\ sent[Cli(c)] = <<>> => TextAt(sent[Cli(c)] \o Written(k), 1, k)
  BY <1>5, <1>6, <1>18, NextMessage
<1>20. ClientWrites'
  <2>1. Messages(sent[Cli(c)], k)
    <3>1. 1..said[c] \subseteq 1..k
      BY <1>5, <1>6
    <3> QED BY <1>18, <3>1 DEF Messages
  <2>2. Messages(sent'[Cli(c)], k)
    BY <1>11, <1>19, <2>1
  <2>3. \A d \in Clients : d # c => sent'[Cli(d)] = sent[Cli(d)]
    BY <1>12, <1>13
  <2> QED BY <1>4, <1>7, <2>2, <2>3 DEF GoInv, ClientWrites
<1>21. NothingEnds'
  <2>1. Stopped' = Stopped
    BY <1>4, TestBedAssumption DEF Stopped
  <2>2. ASSUME ~Stopped PROVE rst'[Cli(c)] = "none"
    <3>1. rst[Cli(c)] = "none" /\ sock[Srv(c)] # "closed" /\ Peer(Cli(c)) = Srv(c)
      BY <2>2, EndpointFacts DEF GoInv, NothingEnds
    <3>2. CASE SendOk(Cli(c), Written(k))
      BY <3>1, <3>2 DEF SendOk
    <3>3. CASE SendFails(Cli(c), FALSE)
      BY <1>4, <2>2, <3>1, <3>3, SendFailsOnlySo DEF CallFails
    <3> QED BY <1>3, <3>2, <3>3
  <2>3. \A d \in Clients : d # c => rst'[Cli(d)] = rst[Cli(d)]
    BY <1>10, <1>13
  <2> QED BY <1>4, <1>10, <2>1, <2>2, <2>3 DEF GoInv, NothingEnds
<1>22. FirstSent'
  <2> SUFFICES ASSUME ~Stopped', faults' < 2, NEW d \in Clients
               PROVE  IF sent'[Cli(d)] = <<>>
                      THEN said'[d] > 0 => faults' = 1 /\ cpc'[d] = "wait"
                      ELSE \E j \in {1, STOP} : TextAt(sent'[Cli(d)], 1, j)
    BY DEF FirstSent
  <2>1. ~Stopped /\ faults < 2
    BY <1>1, <1>4, <1>10
  <2>2. IF sent[Cli(d)] = <<>>
        THEN said[d] > 0 => faults = 1 /\ cpc[d] = "wait"
        ELSE \E j \in {1, STOP} : TextAt(sent[Cli(d)], 1, j)
    BY <2>1 DEF GoInv, FirstSent
  <2>3. CASE d # c
    <3>1. sent'[Cli(d)] = sent[Cli(d)] /\ said'[d] = said[d] /\ cpc'[d] = cpc[d]
      BY <1>4, <1>7, <1>12, <1>13, <2>3
    <3>2. faults = 1 => faults' = 1
      BY <1>1, <1>10
    <3> QED BY <2>2, <3>1, <3>2
  <2>4. CASE d = c /\ SendFails(Cli(c), FALSE)
    <3>1. CallFails
      BY <1>4, <2>1, <2>4, SendFailsOnlySo
    <3>2. faults' = 1 /\ sent' = sent
      BY <1>1, <3>1 DEF CallFails
    <3> QED BY <1>4, <2>2, <2>4, <3>2
  <2>5. CASE d = c /\ SendOk(Cli(c), Written(k)) /\ sent[Cli(c)] = <<>>
    <3>1. said[c] = 0
      BY <1>4, <1>5, <2>2, <2>5
    <3>2. k \in {1, STOP}
      BY <3>1
    <3>3. TextAt(sent'[Cli(c)], 1, k)
      BY <1>1, <1>8, <1>19, <2>5, SendOkInv
    <3>4. sent'[Cli(c)] # <<>>
      BY <3>3 DEF TextAt
    <3> QED BY <2>5, <3>2, <3>3, <3>4
  <2>6. CASE d = c /\ SendOk(Cli(c), Written(k)) /\ sent[Cli(c)] # <<>>
    <3>1. PICK j \in {1, STOP} : TextAt(sent[Cli(c)], 1, j)
      BY <2>2, <2>6
    <3>2. /\ Extends(sent[Cli(c)], sent'[Cli(c)])
          /\ sent[Cli(c)] \in Seq(Byte) /\ sent'[Cli(c)] \in Seq(Byte)
      BY <1>1, <1>9, <1>18 DEF StreamsGrow, KernelInv, KernelTypeOK
    <3>3. TextAt(sent'[Cli(c)], 1, j)
      <4>1. sent[Cli(c)] \in Seq(Byte) /\ sent'[Cli(c)] \in Seq(Byte)
        BY <3>2
      <4>2. TextAt(sent[Cli(c)], 1, j) /\ Extends(sent[Cli(c)], sent'[Cli(c)])
        BY <3>1, <3>2
      <4>3. 1 \in Int
        OBVIOUS
      <4> QED BY <4>1, <4>2, <4>3, TextStays
    <3>4. sent'[Cli(c)] # <<>>
      BY <3>3 DEF TextAt
    <3> QED BY <2>6, <3>3, <3>4
  <2> QED BY <1>3, <2>3, <2>4, <2>5, <2>6
<1> QED BY <1>9, <1>14, <1>15, <1>16, <1>17, <1>20, <1>21, <1>22 DEF GoInv

\* While the server runs, a client that has sent nothing gets nothing, and its
\* read returns only when the call fails.
LEMMA ReadNeedsSent ==
  ASSUME GoInv, ~Stopped, NEW c \in Clients, cpc[c] = "wait", sent[Cli(c)] = <<>>,
         \/ RecvEof(Cli(c)) \/ RecvFails(Cli(c))
         \/ \E n \in 1..Unread(Cli(c)) : RecvData(Cli(c), n)
  PROVE  CallFails
<1>1. /\ GoTypeOK /\ KernelInv /\ Valid(Cli(c)) /\ Peer(Cli(c)) = Srv(c)
      /\ ~fin[Srv(c)] /\ rst[Cli(c)] = "none"
  BY EndpointFacts DEF GoInv, NothingEnds, Valid
<1>2. CASE RecvEof(Cli(c))
  BY <1>1, <1>2 DEF RecvEof, AtEnd
<1>3. CASE RecvFails(Cli(c))
  BY <1>1, <1>3 DEF RecvFails, InvalidCall
<1>4. CASE \E n \in 1..Unread(Cli(c)) : RecvData(Cli(c), n)
  <2>1. sent[Srv(c)] # <<>>
    BY <1>1, <1>4, StreamTypes DEF Unread
  <2>2. c = conn /\ printed # <<>>
    BY <2>1 DEF GoInv, Answers
  <2>3. \E k \in 1..MaxLines : TextAt(sent[Cli(c)], 1, k)
    BY <2>2 DEF GoInv, FirstLine
  <2> QED BY <2>3 DEF TextAt
<1> QED BY <1>2, <1>3, <1>4

LEMMA ClientReads ==
  ASSUME GoInv, NEW c \in Clients, NEW next \in {"wait", "prompt", "done"},
         ClientGoto(c, "wait", next), next = "prompt" => said[c] < STOP,
         UNCHANGED <<said, spc, conn, printed>>,
         \/ RecvEof(Cli(c)) \/ RecvFails(Cli(c))
         \/ \E n \in 1..Unread(Cli(c)) : RecvData(Cli(c), n),
         part' \in [Endpoints -> Seq(Byte \ {NewLine})],
         \A y \in Endpoints : y # Cli(c) => part'[y] = part[y],
         heard' = heard \/ (heard' = heard \cup {c} /\ sent[Srv(c)] # <<>>)
  PROVE  GoInv'
<1>1. /\ GoTypeOK /\ KernelInv /\ faults \in Nat /\ Cli(c) \in Endpoints
      /\ read \in [Endpoints -> Nat] /\ rst \in [Endpoints -> RstStates]
  BY EndpointFacts DEF GoInv, KernelInv, KernelTypeOK
<1>2. /\ cpc[c] = "wait" /\ cpc'[c] = next
      /\ \A d \in Clients : d # c => cpc'[d] = cpc[d]
      /\ cpc' \in [Clients -> {"idle", "dial", "prompt", "wait", "done"}]
      /\ Stopped => Stopped'
  BY <1>1, ClientGoes
<1>3. KernelInv' /\ StreamsGrow
  <2>1. \A n \in 1..Unread(Cli(c)) : n \in Nat
    OBVIOUS
  <2> QED BY <1>1, <2>1, RecvEofInv, RecvFailsInv, RecvDataInv
<1>4. /\ UNCHANGED <<sent, sock, fin>> /\ faults' \in Nat /\ faults' >= faults
      /\ \A y \in Endpoints : y # Cli(c) => read'[y] = read[y]
  BY <1>1 DEF RecvEof, RecvFails, RecvData, CallFails, InvalidCall, ReportReset, kernelVars
<1>5. \A d \in Clients : /\ Cli(d) \in Endpoints /\ Srv(d) \in Endpoints
                         /\ Srv(d) # Cli(c) /\ (d # c => Cli(d) # Cli(c))
  BY EndpointFacts
<1>6. HoldsLast' /\ PrintsTails' /\ LinesRead' /\ FirstLine'
  BY <1>3, <1>4, <1>5, LinesKept
<1>7. GoTypeOK'
  BY <1>1, <1>2, <1>3 DEF GoTypeOK, KernelInv
<1>8. Serving'
  <2>1. \A d \in Clients : LineStart(d)' = LineStart(d)
    BY <1>4, <1>5 DEF LineStart
  <2> QED BY <2>1 DEF GoInv, Serving
<1>9. ClientWrites'
  BY <1>2, <1>4 DEF GoInv, ClientWrites
<1>10. Answers'
  BY <1>4 DEF GoInv, Answers
<1>11. NothingEnds'
  <2>1. \A d \in Clients : ~Stopped => rst'[Cli(d)] = "none"
    <3> SUFFICES ASSUME ~Stopped, NEW d \in Clients
                 PROVE  rst'[Cli(d)] = "none"
      OBVIOUS
    <3>1. rst[Cli(d)] = "none" /\ rst[Cli(c)] = "none"
      BY DEF GoInv, NothingEnds
    <3>2. UNCHANGED rst
      BY <3>1 DEF RecvEof, RecvFails, RecvData, CallFails, InvalidCall, kernelVars
    <3> QED BY <3>1, <3>2
  <2> QED BY <1>2, <1>4, <2>1 DEF GoInv, NothingEnds
<1>12. FirstSent'
  <2> SUFFICES ASSUME ~Stopped', faults' < 2, NEW d \in Clients
               PROVE  IF sent'[Cli(d)] = <<>>
                      THEN said'[d] > 0 => faults' = 1 /\ cpc'[d] = "wait"
                      ELSE \E j \in {1, STOP} : TextAt(sent'[Cli(d)], 1, j)
    BY DEF FirstSent
  <2>1. ~Stopped /\ faults < 2 /\ (faults = 1 => faults' = 1)
    BY <1>1, <1>2, <1>4
  <2>2. IF sent[Cli(d)] = <<>>
        THEN said[d] > 0 => faults = 1 /\ cpc[d] = "wait"
        ELSE \E j \in {1, STOP} : TextAt(sent[Cli(d)], 1, j)
    BY <2>1 DEF GoInv, FirstSent
  <2>3. CASE d # c
    <3>1. sent'[Cli(d)] = sent[Cli(d)] /\ said'[d] = said[d] /\ cpc'[d] = cpc[d]
      BY <1>2, <1>4, <2>3
    <3> QED BY <2>1, <2>2, <3>1
  <2>4. CASE d = c /\ sent[Cli(c)] = <<>>
    <3>1. CallFails
      BY <1>2, <2>1, <2>4, ReadNeedsSent
    <3>2. faults' = faults + 1 /\ (said[c] > 0 => faults = 1)
      BY <2>2, <2>4, <3>1 DEF CallFails
    <3>3. ~(said[c] > 0)
      BY <3>2
    <3> QED BY <1>4, <2>4, <3>3
  <2>5. CASE d = c /\ sent[Cli(c)] # <<>>
    BY <1>4, <2>2, <2>5
  <2> QED BY <2>3, <2>4, <2>5
<1> QED BY <1>3, <1>6, <1>7, <1>8, <1>9, <1>10, <1>11, <1>12 DEF GoInv

LEMMA ClientReadInv ==
  ASSUME GoInv, NEW c \in Clients, ClientRead(c), UNCHANGED <<spc, conn, printed>>
  PROVE  GoInv'
<1>1. /\ GoTypeOK /\ KernelInv /\ UNCHANGED said /\ Cli(c) \in Endpoints
      /\ part \in [Endpoints -> Seq(Byte \ {NewLine})]
  BY EndpointFacts DEF GoInv, GoTypeOK, ClientRead
<1>2. /\ AfterLine(c) \in {"wait", "prompt", "done"}
      /\ AfterLine(c) = "prompt" => said[c] < STOP
  BY <1>1, StopFacts, StreamTypes DEF AfterLine
<1>3. ASSUME NEW n \in 1..Unread(Cli(c)), ReadsOn(Cli(c), n),
             ClientGoto(c, "wait", "wait"), UNCHANGED heard
      PROVE  GoInv'
  <2>1. /\ part' \in [Endpoints -> Seq(Byte \ {NewLine})]
        /\ \A y \in Endpoints : y # Cli(c) => part'[y] = part[y]
    BY <1>1, <1>3, ReadsOnFacts
  <2>2. RecvData(Cli(c), n)
    BY <1>3 DEF ReadsOn
  <2> DEFINE next == "wait"
  <2>3. next \in {"wait", "prompt", "done"} /\ next # "prompt" /\ ClientGoto(c, "wait", next)
    BY <1>3
  <2> HIDE DEF next
  <2> QED BY <1>1, <1>3, <2>1, <2>2, <2>3, ClientReads
<1>4. \A x \in Endpoints : part' = [part EXCEPT ![x] = <<>>] =>
        /\ part' \in [Endpoints -> Seq(Byte \ {NewLine})]
        /\ \A y \in Endpoints : y # x => part'[y] = part[y]
  BY <1>1
<1>5. ASSUME NEW n \in 1..Unread(Cli(c)), ReadString(Cli(c), n),
             ClientGoto(c, "wait", AfterLine(c)), heard' = heard \cup {c}
      PROVE  GoInv'
  <2>1. RecvData(Cli(c), n) /\ part' = [part EXCEPT ![Cli(c)] = <<>>]
    BY <1>5 DEF ReadString
  <2>2. sent[Srv(c)] # <<>>
    BY <1>1, <1>5, StreamTypes DEF Unread
  <2> DEFINE next == AfterLine(c)
  <2>3. /\ next \in {"wait", "prompt", "done"} /\ (next = "prompt" => said[c] < STOP)
        /\ ClientGoto(c, "wait", next)
    BY <1>2, <1>5
  <2> HIDE DEF next
  <2> QED BY <1>1, <1>4, <1>5, <2>1, <2>2, <2>3, ClientReads
<1>6. CASE ClientReadFails(c)
  <2>1. /\ RecvEof(Cli(c)) \/ RecvFails(Cli(c))
        /\ part' = [part EXCEPT ![Cli(c)] = <<>>] /\ UNCHANGED heard
    BY <1>6 DEF ClientReadFails, ReadError
  <2> DEFINE next == AfterLine(c)
  <2>2. /\ next \in {"wait", "prompt", "done"} /\ (next = "prompt" => said[c] < STOP)
        /\ ClientGoto(c, "wait", next)
    BY <1>2, <1>6 DEF ClientReadFails
  <2> HIDE DEF next
  <2> QED BY <1>1, <1>4, <2>1, <2>2, ClientReads
<1> QED BY <1>3, <1>5, <1>6 DEF ClientRead

-------------------------------------------------------------------------------
(* The demo. *)

LEMMA GoInit == Init => GoInv
<1> SUFFICES ASSUME Init
             PROVE  GoInv
  OBVIOUS
<1>1. KernelInv
  BY KernelInitInv DEF Init
<1>2. GoTypeOK
  BY <1>1, StopFacts DEF Init, GoTypeOK, KernelInv
<1>3. \A c \in Clients : /\ Cli(c) \in Endpoints /\ Srv(c) \in Endpoints
                         /\ sent[Cli(c)] = <<>> /\ sent[Srv(c)] = <<>>
                         /\ read[Srv(c)] = 0 /\ part[Srv(c)] = <<>> /\ said[c] = 0
                         /\ sock[Srv(c)] = "none" /\ ~fin[Srv(c)] /\ rst[Cli(c)] = "none"
  BY EndpointFacts DEF Init, KernelInit
<1>4. cpc = [c \in Clients |-> IF c = LocalClient THEN "dial" ELSE "idle"]
  BY DEF Init
<1>5. printed = <<>> /\ heard = {} /\ conn = NoClient /\ spc = "start"
  BY DEF Init
<1>6. ClientWrites
  <2> SUFFICES ASSUME NEW c \in Clients
               PROVE  Messages(sent[Cli(c)], said[c]) /\ said[c] < STOP
    BY DEF ClientWrites
  <2>1. sent[Cli(c)] = <<>> /\ said[c] = 0
    BY <1>3
  <2>2. \A i \in 1..Len(sent[Cli(c)]) : FALSE
    BY <2>1
  <2>3. Messages(sent[Cli(c)], said[c])
    BY <2>1, <2>2 DEF Messages
  <2> QED BY <2>1, <2>3, StopFacts
<1>7. \A c \in Clients : /\ LineStart(c) = 0 /\ LineStart(c) >= 0
                         /\ \A i \in 1..Len(part[Srv(c)]) : FALSE
  <2> SUFFICES ASSUME NEW c \in Clients
               PROVE  /\ LineStart(c) = 0 /\ LineStart(c) >= 0
                      /\ \A i \in 1..Len(part[Srv(c)]) : FALSE
    OBVIOUS
  <2>1. read[Srv(c)] = 0 /\ part[Srv(c)] = <<>>
    BY <1>3
  <2>2. Len(part[Srv(c)]) = 0
    BY <2>1
  <2>3. LineStart(c) = 0 - 0
    BY <2>1, <2>2 DEF LineStart
  <2>4. \A i \in 1..Len(part[Srv(c)]) : FALSE
    BY <2>2
  <2> QED BY <2>3, <2>4
<1>8. HoldsLast
  BY <1>7 DEF HoldsLast
<1>9. Serving /\ FirstLine /\ Answers
  BY <1>3, <1>5, <1>7 DEF Serving, FirstLine, Answers
<1>10. PrintsTails /\ LinesRead
  BY <1>5 DEF PrintsTails, LinesRead
<1>11. NothingEnds
  BY <1>3, <1>4 DEF NothingEnds
<1>12. FirstSent
  <2>1. ASSUME NEW c \in Clients PROVE sent[Cli(c)] = <<>> /\ ~(said[c] > 0)
    <3>1. sent[Cli(c)] = <<>> /\ said[c] = 0
      BY <1>3
    <3> QED BY <3>1
  <2> QED BY <2>1 DEF FirstSent
<1> QED BY <1>1, <1>2, <1>6, <1>8, <1>9, <1>10, <1>11, <1>12 DEF GoInv

LEMMA StutterInv == GoInv /\ UNCHANGED vars => GoInv'
<1> SUFFICES ASSUME GoInv, UNCHANGED vars
             PROVE  GoInv'
  OBVIOUS
<1>1. /\ UNCHANGED <<spc, cpc, conn, part, said, printed, heard>>
      /\ UNCHANGED <<sent, read, sock, fin, rst, faults, kernelVars>>
  BY DEF vars, goVars, kernelVars
<1>2. GoTypeOK /\ KernelInv /\ faults \in Nat
  BY DEF GoInv, KernelInv, KernelTypeOK
<1>3. KernelInv' /\ StreamsGrow
  BY <1>1, <1>2, UnchangedInv
<1>4. /\ GoTypeOK' /\ HoldsLast' /\ PrintsTails' /\ LinesRead' /\ FirstLine' /\ Answers'
      /\ \A c \in Clients : LineStart(c)' = LineStart(c)
  <2>1. /\ cpc' \in [Clients -> {"idle", "dial", "prompt", "wait", "done"}]
        /\ spc' \in {"start", "accept", "read", "write", "return", "done"}
        /\ faults' >= faults
    BY <1>1, <1>2 DEF GoTypeOK
  <2> QED BY <1>1, <1>3, <2>1, QuietInv
<1>5. Stopped' = Stopped
  BY <1>1 DEF Stopped
<1>6. ClientWrites' /\ FirstSent'
  <2>1. faults' >= faults
    BY <1>1, <1>2
  <2> QED BY <1>1, <1>3, <1>5, <2>1, WritesKept
<1>7. Serving'
  BY <1>1, <1>4 DEF GoInv, Serving
<1>8. NothingEnds'
  BY <1>1, <1>5 DEF GoInv, NothingEnds
<1> QED BY <1>3, <1>4, <1>6, <1>7, <1>8 DEF GoInv

LEMMA GoNext == GoInv /\ [Next]_vars => GoInv'
<1> SUFFICES ASSUME GoInv, [Next]_vars
             PROVE  GoInv'
  OBVIOUS
<1>1. CASE ServerThread
  BY <1>1, ServerListenInv, ServerAcceptInv, ServerReadInv, ServerWriteInv, ServerReturnsInv
     DEF ServerThread
<1>2. CASE Collect
  BY <1>2, CollectInv
<1>3. CASE Network
  BY <1>3, NetworkInv
<1>4. ASSUME NEW c \in Clients, ClientThread(c) PROVE GoInv'
  BY <1>4, ClientDialInv, ClientPromptInv, ClientReadInv DEF ClientThread
<1>5. ASSUME NEW c \in Clients, StartRemote(c) PROVE GoInv'
  BY <1>5, StartRemoteInv
<1>6. ASSUME NEW c \in Clients, Reap(c) PROVE GoInv'
  BY <1>6, ReapInv
<1>7. CASE UNCHANGED vars
  BY <1>7, StutterInv
<1> QED BY <1>1, <1>2, <1>3, <1>4, <1>5, <1>6, <1>7 DEF Next

\* The inductive invariant of the Go demo: how a stream is made of messages,
\* what of it the reader of the server holds, and what a fault can cost.
THEOREM GoInvariant == Spec => []GoInv
BY GoInit, GoNext, PTL DEF Spec

\* The reader of a line holds bytes without a newline, and every variable has
\* its type.
THEOREM GoTypeSafety == Spec => []GoTypeOK
<1>1. GoInv => GoTypeOK
  BY DEF GoInv
<1> QED BY <1>1, GoInvariant, PTL

\* Whatever is lost with a reader, a line the server prints is the end of one
\* message, and later lines are of later messages.
THEOREM PrintsTailsHolds == Spec => []PrintsTails
<1>1. GoInv => PrintsTails
  BY DEF GoInv
<1> QED BY <1>1, GoInvariant, PTL

\* Only the client accepted hears from the server, and the first line printed is
\* the first of its messages that left it, whole.
THEOREM FirstMessageArrivesHolds == Spec => []FirstMessageArrives
<1>1. GoInv => FirstMessageArrives
  <2> SUFFICES ASSUME GoInv, heard # {}
               PROVE  /\ heard = {conn}
                      /\ \E k \in 1..MaxLines : printed[1] = Letters(k) /\ (k = 1 \/ faults > 1)
    BY DEF FirstMessageArrives
  <2>1. heard \subseteq Clients
    BY DEF GoInv, GoTypeOK
  <2>2. \A c \in heard : c = conn /\ printed # <<>>
    BY <2>1 DEF GoInv, Answers
  <2>3. heard = {conn} /\ printed # <<>>
    BY <2>2
  <2> QED BY <2>3 DEF GoInv, FirstLine
<1> QED BY <1>1, GoInvariant, PTL
===============================================================================
