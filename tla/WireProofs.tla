----------------------------- MODULE WireProofs -----------------------------
(***************************************************************************)
(* Theorems about Wire, for every script, every datagram, every byte order *)
(* and every way in which send and recv divide the bytes: the connection   *)
(* is a channel of whole messages, the keys of the user arrive, and the    *)
(* GUI sees every message.                                                 *)
(***************************************************************************)
EXTENDS Wire, EncodingProofs

-----------------------------------------------------------------------------
(* Sequences                                                               *)

LEMMA SplitAt ==
  ASSUME NEW S, NEW s \in Seq(S), NEW k \in 0 .. Len(s)
  PROVE  /\ SubSeq(s, 1, k) \in Seq(S) /\ Len(SubSeq(s, 1, k)) = k
         /\ SubSeq(s, k + 1, Len(s)) \in Seq(S) /\ Len(SubSeq(s, k + 1, Len(s))) = Len(s) - k
         /\ SubSeq(s, 1, k) \o SubSeq(s, k + 1, Len(s)) = s
<1> DEFINE a == SubSeq(s, 1, k)
           b == SubSeq(s, k + 1, Len(s))
<1>1. a \in Seq(S) /\ Len(a) = k /\ \A i \in 1 .. k : a[i] = s[i]
  BY SubSeqProperties
<1>2. b \in Seq(S) /\ Len(b) = Len(s) - k /\ \A i \in 1 .. Len(s) - k : b[i] = s[k + i]
  BY SubSeqProperties, SMTT(40)
<1> HIDE DEF a, b
<1>3. a \o b \in Seq(S) /\ Len(a \o b) = Len(s)
  <2>1. a \in Seq(S) /\ b \in Seq(S)
    BY <1>1, <1>2
  <2>2. a \o b \in Seq(S) /\ Len(a \o b) = Len(a) + Len(b)
    BY <2>1, ConcatProperties
  <2>3. Len(a) + Len(b) = Len(s)
    BY <1>1, <1>2
  <2> QED BY <2>2, <2>3
<1>4. ASSUME NEW i \in 1 .. Len(s) PROVE (a \o b)[i] = s[i]
  <2>1. CASE i <= k
    BY <2>1, <1>1, <1>2
  <2>2. CASE ~(i <= k)
    <3>1. i - k \in 1 .. Len(s) - k /\ k + (i - k) = i
      BY <2>2
    <3>2. (a \o b)[i] = b[i - k]
      BY <3>1, <2>2, <1>1, <1>2
    <3>3. b[i - k] = s[k + (i - k)]
      BY <3>1, <1>2, Zenon
    <3> QED BY <3>1, <3>2, <3>3
  <2> QED BY <2>1, <2>2
<1>5. a \o b = s
  BY <1>3, <1>4, SeqEqual
<1> QED BY <1>1, <1>2, <1>5 DEF a, b

LEMMA CancelPrefix ==
  ASSUME NEW S, NEW a \in Seq(S), NEW b \in Seq(S), NEW x \in Seq(S), NEW y \in Seq(S),
         a \o x = b \o y, Len(a) = Len(b)
  PROVE  a = b /\ x = y
<1> DEFINE n == Len(a)
<1>1. n \in Nat /\ Len(b) = n /\ Len(x) \in Nat /\ Len(y) \in Nat
  OBVIOUS
<1>2. /\ \A i \in 1 .. n : (a \o x)[i] = a[i] /\ (b \o y)[i] = b[i]
      /\ Len(a \o x) = n + Len(x) /\ Len(b \o y) = n + Len(y)
      /\ \A i \in 1 .. Len(x) : (a \o x)[n + i] = x[i]
      /\ \A i \in 1 .. Len(y) : (b \o y)[n + i] = y[i]
  <2>1. /\ Len(a \o x) = Len(a) + Len(x) /\ \A i \in 1 .. Len(a) : (a \o x)[i] = a[i]
        /\ \A i \in 1 .. Len(x) : (a \o x)[Len(a) + i] = x[i]
    <3>1. Len(a \o x) = Len(a) + Len(x)
      BY ConcatProperties, Zenon
    <3>2. \A i \in 1 .. Len(a) : (a \o x)[i] = a[i]
      OBVIOUS
    <3>3. \A i \in 1 .. Len(x) : (a \o x)[Len(a) + i] = x[i]
      OBVIOUS
    <3> QED BY <3>1, <3>2, <3>3
  <2>2. /\ Len(b \o y) = Len(b) + Len(y) /\ \A i \in 1 .. Len(b) : (b \o y)[i] = b[i]
        /\ \A i \in 1 .. Len(y) : (b \o y)[Len(b) + i] = y[i]
    BY ConcatParts
  <2> QED BY <2>1, <2>2, <1>1, Zenon
<1>3. a = b
  <2>1. \A i \in 1 .. n : a[i] = b[i]
    BY <1>2
  <2> QED BY <1>1, <2>1, SeqEqual
<1>4. x = y
  <2>1. Len(x) = Len(y)
    BY <1>1, <1>2
  <2>2. \A i \in 1 .. Len(x) : x[i] = y[i]
    BY <1>2, <2>1
  <2> QED BY <2>1, <2>2, SeqEqual
<1> QED BY <1>3, <1>4

LEMMA ConsOfSeq ==
  ASSUME NEW S, NEW x \in Seq(S), x # <<>>
  PROVE  /\ Head(x) \in S /\ Tail(x) \in Seq(S) /\ x = <<Head(x)>> \o Tail(x)
<1> DEFINE h == Head(x)
           t == Tail(x)
<1>1. /\ h \in S /\ h = x[1] /\ t \in Seq(S) /\ Len(t) = Len(x) - 1 /\ Len(x) \in Nat \ {0}
      /\ \A i \in 1 .. Len(t) : t[i] = x[i + 1]
  OBVIOUS
<1> HIDE DEF h, t
<1>2. <<h>> \o t \in Seq(S) /\ Len(<<h>> \o t) = Len(x)
  BY <1>1
<1>3. \A i \in 1 .. Len(x) : (<<h>> \o t)[i] = x[i]
  BY <1>1
<1>4. <<h>> \o t = x
  BY <1>2, <1>3, SeqEqual
<1> QED BY <1>1, <1>4 DEF h, t

-----------------------------------------------------------------------------
(* Encoded elements                                                        *)

\* The bytes of one element, and of several.
Octets(e) == Digits(e.value, SizeOf(e.field))
Encode(x) == FlattenSeq([k \in DOMAIN x |-> Octets(x[k])])

LEMMA OctetsType ==
  ASSUME NEW e \in Element
  PROVE  /\ Octets(e) \in Seq(Bytes) /\ Len(Octets(e)) = SizeOf(e.field)
         /\ \A host : Written(host, e) = Octets(e) /\ ValueRead(host, Octets(e)) = e.value
<1>1. e.field \in Fields /\ e.value \in Value(e.field)
  BY ElementType
<1>2. SizeOf(e.field) \in Nat
  BY <1>1, SizeOfType
<1>3. \A writer, reader :
        /\ Written(writer, e) = Octets(e)
        /\ Written(writer, e) \in Seq(Bytes) /\ Len(Written(writer, e)) = SizeOf(e.field)
        /\ ValueRead(reader, Written(writer, e)) = e.value
  BY <1>1, <1>2, ReadIsWritten, Zenon DEF Octets
<1> QED BY <1>3, Zenon

LEMMA OctetsList ==
  ASSUME NEW x \in Seq(Element)
  PROVE  /\ [k \in DOMAIN x |-> Octets(x[k])] \in Lists(Bytes)
         /\ Len([k \in DOMAIN x |-> Octets(x[k])]) = Len(x)
<1>1. DOMAIN x = 1 .. Len(x) /\ Len(x) \in Nat
  OBVIOUS
<1>2. \A k \in 1 .. Len(x) : Octets(x[k]) \in Seq(Bytes)
  BY OctetsType
<1>3. [k \in DOMAIN x |-> Octets(x[k])] \in [1 .. Len(x) -> Seq(Bytes)]
  BY <1>1, <1>2
<1> QED BY <1>1, <1>3 DEF Lists

LEMMA EncodeType ==
  ASSUME NEW x \in Seq(Element)
  PROVE  Encode(x) \in Seq(Bytes)
BY OctetsList, FlattenType DEF Encode

LEMMA EncodeNothing == Encode(<<>>) = <<>>
<1>1. [k \in DOMAIN <<>> |-> Octets(<<>>[k])] = <<>>
  OBVIOUS
<1> QED BY <1>1, FlattenEmpty, Zenon DEF Encode

LEMMA EncodeConcat ==
  ASSUME NEW x \in Seq(Element), NEW y \in Seq(Element)
  PROVE  Encode(x \o y) = Encode(x) \o Encode(y)
<1> DEFINE a == [k \in DOMAIN x |-> Octets(x[k])]
           b == [k \in DOMAIN y |-> Octets(y[k])]
           z == x \o y
           c == [k \in DOMAIN z |-> Octets(z[k])]
           m == Len(x)
           n == Len(y)
<1>1. a \in Lists(Bytes) /\ b \in Lists(Bytes) /\ Len(a) = m /\ Len(b) = n
  BY OctetsList
<1>2. /\ z \in Seq(Element) /\ Len(z) = m + n /\ m \in Nat /\ n \in Nat
      /\ \A i \in 1 .. m : z[i] = x[i]
      /\ \A i \in 1 .. n : z[m + i] = y[i]
  BY ConcatProperties
<1>3. DOMAIN x = 1 .. m /\ DOMAIN y = 1 .. n /\ DOMAIN z = 1 .. m + n
  BY <1>2
<1>4. c \in Lists(Bytes) /\ Len(c) = m + n
  BY <1>2, OctetsList
<1>5. /\ \A i \in 1 .. m : a[i] = Octets(x[i])
      /\ \A i \in 1 .. n : b[i] = Octets(y[i])
      /\ \A i \in 1 .. m + n : c[i] = Octets(z[i])
  BY <1>3
<1>9. Encode(x) = FlattenSeq(a) /\ Encode(y) = FlattenSeq(b) /\ Encode(z) = FlattenSeq(c)
  BY DEF Encode
<1> HIDE DEF a, b, c, z, m, n
<1>6. /\ a \o b \in Lists(Bytes) /\ Len(a \o b) = m + n
      /\ \A i \in 1 .. m : (a \o b)[i] = a[i]
      /\ \A i \in 1 .. n : (a \o b)[m + i] = b[i]
  <2>1. /\ a \o b \in Lists(Bytes) /\ Len(a \o b) = Len(a) + Len(b)
        /\ \A i \in 1 .. Len(a) : (a \o b)[i] = a[i]
        /\ \A i \in 1 .. Len(b) : (a \o b)[Len(a) + i] = b[i]
    <3>1. a \in Lists(Bytes) /\ b \in Lists(Bytes)
      BY <1>1
    <3>2. a \o b \in Lists(Bytes)
      BY <3>1, ListConcat
    <3>3. Len(a \o b) = Len(a) + Len(b)
      BY <3>1, ListConcat
    <3>4. \A i \in 1 .. Len(a) : (a \o b)[i] = a[i]
      BY <3>1, ListConcat
    <3>5. \A i \in 1 .. Len(b) : (a \o b)[Len(a) + i] = b[i]
      BY <3>1, ListConcat
    <3> QED BY <3>2, <3>3, <3>4, <3>5, Zenon
  <2> QED BY <2>1, <1>1, Zenon
<1>7. ASSUME NEW i \in 1 .. m + n PROVE c[i] = (a \o b)[i]
  <2>1. CASE i <= m
    <3>1. i \in 1 .. m
      BY <2>1, <1>2
    <3> QED BY <3>1, <1>2, <1>5, <1>6, Zenon
  <2>2. CASE ~(i <= m)
    <3> DEFINE j == i - m
    <3>1. j \in 1 .. n /\ m + j = i
      BY <2>2, <1>2
    <3> HIDE DEF j
    <3>2. c[m + j] = Octets(z[m + j])
      BY <3>1, <1>5, Zenon
    <3> QED BY <3>1, <3>2, <1>2, <1>5, <1>6, Zenon
  <2> QED BY <2>1, <2>2
<1>8. c = a \o b
  BY <1>4, <1>6, <1>7, SeqEqual DEF Lists
<1>10. FlattenSeq(a \o b) = FlattenSeq(a) \o FlattenSeq(b)
  BY <1>1, FlattenConcat, Zenon
<1> QED BY <1>8, <1>9, <1>10, Zenon DEF z

LEMMA EncodeOne ==
  ASSUME NEW e \in Element
  PROVE  Encode(<<e>>) = Octets(e)
<1>1. [k \in DOMAIN <<e>> |-> Octets(<<e>>[k])] = <<Octets(e)>>
  OBVIOUS
<1>2. Octets(e) \in Seq(Bytes)
  BY OctetsType
<1> QED BY <1>1, <1>2, FlattenOne, Zenon DEF Encode

LEMMA EncodeFirst ==
  ASSUME NEW x \in Seq(Element), x # <<>>
  PROVE  Encode(x) = Octets(Head(x)) \o Encode(Tail(x))
<1>1. Head(x) \in Element /\ Tail(x) \in Seq(Element) /\ x = <<Head(x)>> \o Tail(x)
  BY ConsOfSeq
<1>2. <<Head(x)>> \in Seq(Element)
  BY <1>1
<1>3. Encode(<<Head(x)>> \o Tail(x)) = Encode(<<Head(x)>>) \o Encode(Tail(x))
  BY <1>1, <1>2, EncodeConcat, Zenon
<1> QED BY <1>1, <1>3, EncodeOne, Zenon

-----------------------------------------------------------------------------
(* The invariant of a stream                                               *)

\* The bytes of the elements that have been written and not read, oldest first.
Underway == recv_deque \o (wire \o (unsent \o Encode(todo)))

\* Every message has been read.
Finished ==
  sent = received /\ expect = <<MessageId>> /\ elements = <<>> /\ Underway = <<>>

\* Of the message being read cur is still to be read, and then the messages in later.
Reading(cur, later) ==
  /\ cur \in Seq(Element) /\ later \in Lists(Element)
  /\ sent = received \o (<<elements \o cur>> \o later)
  /\ Reads(expect, cur)
  /\ Underway = Encode(cur \o FlattenSeq(later))

StreamType ==
  /\ direction \in {"up", "down"}
  /\ sender \in {"ok", "thrown"} /\ receiver \in {"reading", "handling", "thrown"}
  /\ todo \in Seq(Element)
  /\ unsent \in Seq(Bytes) /\ Len(unsent) <= 4
  /\ wire \in Seq(Bytes) /\ Len(wire) <= WireSize
  /\ recv_deque \in Seq(Bytes) /\ Len(recv_deque) < 4 + RecvBuff
  /\ expect \in Seq(Fields) /\ expect # <<>>
  /\ elements \in Seq(Element)

Histories ==
  /\ sent \in Lists(Element) /\ received \in Lists(Element)
  /\ \A k \in 1 .. Len(sent) : Reads(<<MessageId>>, sent[k]) /\ sent[k] \in Contents

StreamInv ==
  StreamType /\ Histories /\ (Finished \/ \E cur, later : Reading(cur, later))

LEMMA ReadsOnlyNothing ==
  ASSUME NEW x, Reads(<<>>, x)
  PROVE  x = <<>>
<1>1. PICK s : IsStack(<<>>, x, s)
  BY DEF Reads
<1>2. x \in Seq(Element)
  BY DEF Reads
<1>3. s[0] = <<>> /\ \A k \in 0 .. Len(x) - 1 : Follows(s[k], x[k + 1], s[k + 1])
  BY <1>1 DEF IsStack
<1>4. \A k \in 0 .. Len(x) - 1 : s[k] # <<>>
  BY <1>3 DEF Follows
<1>5. Len(x) = 0
  BY <1>2, <1>3, <1>4
<1> QED BY <1>2, <1>5, EmptySeq

LEMMA MessageIdField == MessageId \in Fields /\ <<MessageId>> \in Seq(Fields) /\ <<MessageId>> # <<>>
BY DEF MessageId, Fields

LEMMA StreamInitially ==
  ASSUME StreamInit
  PROVE  StreamInv
<1> USE DEF StreamInit
<1>1. StreamType
  BY MessageIdField, TcpStreamAssumption DEF StreamType
<1>2. Histories
  BY DEF Histories, Lists
<1>3. Underway = <<>>
  <2>1. <<>> \o <<>> = <<>>
    OBVIOUS
  <2> QED BY <2>1, EncodeNothing, Zenon DEF Underway
<1>4. Finished
  BY <1>3 DEF Finished
<1> QED BY <1>1, <1>2, <1>4 DEF StreamInv

\* An idle writer has put everything into the stream.
LEMMA UnderwayWhenIdle ==
  ASSUME StreamType, WriterIdle
  PROVE  Underway = recv_deque \o wire
<1>1. /\ unsent = <<>> /\ todo = <<>> /\ wire \in Seq(Bytes)
  BY DEF WriterIdle, StreamType
<1>2. <<>> \o <<>> = <<>> /\ wire \o <<>> = wire
  BY <1>1
<1> QED BY <1>1, <1>2, EncodeNothing, Zenon DEF Underway

LEMMA WriteStep ==
  ASSUME StreamInv, NEW m, Write(m), Reads(<<MessageId>>, m), m \in Contents
  PROVE  StreamInv'
<1>0. StreamType /\ Histories
  BY DEF StreamInv
<1>1. /\ WriterIdle /\ todo' = m /\ sent' = Append(sent, m)
      /\ UNCHANGED <<direction, sender, unsent, wire, receiver, recv_deque, expect,
                     elements, received>>
  BY DEF Write, receiving
<1>2. m \in Seq(Element)
  BY DEF Reads
<1>3. StreamType'
  BY <1>0, <1>1, <1>2 DEF StreamType
<1>4. Histories'
  <2>1. sent' \in Lists(Element)
    BY <1>0, <1>1, <1>2 DEF Histories, Lists
  <2>2. ASSUME NEW k \in 1 .. Len(sent') PROVE Reads(<<MessageId>>, sent'[k]) /\ sent'[k] \in Contents
    <3>1. sent \in Seq(Seq(Element)) /\ Len(sent') = Len(sent) + 1
      BY <1>0, <1>1, <1>2 DEF Histories, Lists
    <3>2. CASE k \in 1 .. Len(sent)
      <4>1. sent'[k] = sent[k]
        BY <1>1, <1>2, <3>1, <3>2
      <4> QED BY <1>0, <3>2, <4>1 DEF Histories
    <3>3. CASE k = Len(sent) + 1
      BY <1>1, <1>2, <3>1, <3>3
    <3> QED BY <3>1, <3>2, <3>3
  <2>3. MessageId' = MessageId
    BY <1>1 DEF MessageId
  <2>4. Contents' = Contents
    BY DEF Contents
  <2> QED BY <1>0, <1>1, <2>1, <2>2, <2>3, <2>4 DEF Histories
<1> DEFINE p == recv_deque \o wire
<1>5. p \in Seq(Bytes) /\ recv_deque \in Seq(Bytes) /\ wire \in Seq(Bytes)
  BY <1>0, Concat2 DEF StreamType
<1>6. Underway = p
  BY <1>0, <1>1, UnderwayWhenIdle
<1>7. Encode(m) \in Seq(Bytes)
  BY <1>2, EncodeType
<1>8. Underway' = p \o Encode(m)
  <2> DEFINE c == Encode(m)
  <2>1. Underway' = recv_deque \o (wire \o (<<>> \o c))
    BY <1>1 DEF Underway, WriterIdle
  <2> HIDE DEF c
  <2>2. c \in Seq(Bytes)
    BY <1>7 DEF c
  <2>3. <<>> \o c = c
    BY <2>2, ConcatEmptySeq
  <2>4. recv_deque \o (wire \o c) = (recv_deque \o wire) \o c
    BY <1>5, <2>2, Regroup
  <2> QED BY <2>1, <2>3, <2>4, Zenon DEF c
<1> HIDE DEF p
<1>9. CASE Finished
  <2>1. sent = received /\ expect = <<MessageId>> /\ elements = <<>> /\ p = <<>>
    BY <1>6, <1>9 DEF Finished
  <2>2. /\ <<>> \in Lists(Element)
        /\ FlattenSeq(<<>>) = <<>>
    BY FlattenEmpty DEF Lists
  <2>3. Underway' = Encode(m \o FlattenSeq(<<>>))
    <3>1. <<>> \o Encode(m) = Encode(m)
      BY <1>7, ConcatEmptySeq
    <3>2. m \o <<>> = m
      BY <1>2, ConcatEmptySeq
    <3> QED BY <1>8, <2>1, <2>2, <3>1, <3>2, Zenon
  <2>4. sent' = received' \o (<<elements' \o m>> \o <<>>)
    <3>1. <<>> \o m = m
      BY <1>2, ConcatEmptySeq
    <3>2. <<m>> \o <<>> = <<m>>
      <4>1. <<m>> \in Seq({m})
        OBVIOUS
      <4> QED BY <4>1, ConcatEmptySeq
    <3>3. Append(sent, m) = sent \o <<m>>
      BY <1>0, <1>2, AppendIsConcat DEF Histories, Lists
    <3> QED BY <1>1, <2>1, <3>1, <3>2, <3>3, Zenon
  <2>5. Reads(expect', m)
    BY <1>1, <2>1
  <2>6. Reading(m, <<>>)'
    BY <1>2, <2>2, <2>3, <2>4, <2>5 DEF Reading
  <2> QED BY <1>3, <1>4, <2>6 DEF StreamInv
<1>10. ASSUME NEW cur, NEW later, Reading(cur, later)
       PROVE  StreamInv'
  <2> DEFINE now == elements \o cur
  <2>1. /\ cur \in Seq(Element) /\ later \in Lists(Element)
        /\ sent = received \o (<<now>> \o later) /\ Reads(expect, cur)
        /\ p = Encode(cur \o FlattenSeq(later))
    BY <1>6, <1>10 DEF Reading
  <2>2. now \in Seq(Element) /\ received \in Lists(Element)
    BY <1>0, <2>1, Concat2 DEF StreamType, Histories
  <2> HIDE DEF now
  <2> DEFINE more == Append(later, m)
  <2>3. more \in Lists(Element) /\ FlattenSeq(more) = FlattenSeq(later) \o m
    <3>1. more \in Lists(Element)
      BY <2>1, <1>2 DEF Lists
    <3> QED BY <3>1, <2>1, <1>2, FlattenAppend
  <2>4. sent' = received \o (<<now>> \o more)
    <3> DEFINE a == <<now>>
               x == <<m>>
    <3>1. a \in Lists(Element) /\ x \in Lists(Element)
      BY <2>2, <1>2, ListOfOne
    <3>2. more = later \o x
      BY <2>1, <1>2, AppendIsConcat DEF Lists
    <3>3. sent' = sent \o x
      BY <1>0, <1>1, <1>2, AppendIsConcat DEF Histories, Lists
    <3> HIDE DEF a, x, more
    <3>4. a \o later \in Lists(Element)
      BY <3>1, <2>1, ListConcat
    <3>5. (received \o (a \o later)) \o x = received \o ((a \o later) \o x)
      <4> DEFINE b == a \o later
      <4>1. b \in Seq(Seq(Element)) /\ x \in Seq(Seq(Element)) /\ received \in Seq(Seq(Element))
        BY <3>1, <3>4, <2>2 DEF Lists
      <4> HIDE DEF b
      <4>2. (received \o b) \o x = received \o (b \o x)
        BY <4>1, Regroup, SMTT(40)
      <4> QED BY <4>2 DEF b
    <3>6. (a \o later) \o x = a \o (later \o x)
      BY <3>1, <2>1, Regroup, SMTT(40) DEF Lists
    <3> QED BY <2>1, <3>2, <3>3, <3>5, <3>6, Zenon DEF a
  <2>5. Underway' = Encode(cur \o FlattenSeq(more))
    <3> DEFINE f == FlattenSeq(later)
    <3>1. f \in Seq(Element)
      BY <2>1, FlattenType
    <3>2. FlattenSeq(more) = f \o m
      BY <2>3
    <3>3. p = Encode(cur \o f)
      BY <2>1
    <3> HIDE DEF f, more
    <3>4. cur \o f \in Seq(Element)
      BY <2>1, <3>1, Concat2
    <3>5. cur \o (f \o m) = (cur \o f) \o m
      BY <2>1, <3>1, <1>2, Regroup
    <3>6. Encode((cur \o f) \o m) = Encode(cur \o f) \o Encode(m)
      BY <3>4, <1>2, EncodeConcat, Zenon
    <3> QED BY <1>8, <3>2, <3>3, <3>5, <3>6, Zenon
  <2> HIDE DEF more
  <2>6. /\ received' \o (<<elements' \o cur>> \o more) = received \o (<<now>> \o more)
        /\ Reads(expect', cur)
    BY <1>1, <2>1 DEF now
  <2>7. Reading(cur, more)'
    BY <2>1, <2>3, <2>4, <2>5, <2>6 DEF Reading
  <2> QED BY <1>3, <1>4, <2>7 DEF StreamInv
<1> QED BY <1>9, <1>10 DEF StreamInv

\* A step that only moves bytes on.
LEMMA BytesMove ==
  ASSUME StreamInv, StreamType', Underway' = Underway,
         UNCHANGED <<direction, sent, received, expect, elements>>
  PROVE  StreamInv'
<1>1. MessageId' = MessageId /\ Contents' = Contents
  BY DEF MessageId, Contents
<1>2. Histories'
  BY <1>1 DEF StreamInv, Histories
<1>3. Finished => Finished'
  BY <1>1 DEF Finished
<1>4. ASSUME NEW cur, NEW later, Reading(cur, later) PROVE Reading(cur, later)'
  BY <1>4 DEF Reading
<1> QED BY <1>2, <1>3, <1>4 DEF StreamInv

LEMMA StreamStutters ==
  ASSUME StreamInv, UNCHANGED streamVars
  PROVE  StreamInv'
<1>1. /\ UNCHANGED <<direction, sender, todo, unsent, sent>>
      /\ UNCHANGED <<wire, receiver, recv_deque, expect, elements, received>>
  BY DEF streamVars, sending, receiving
<1>2. StreamType'
  BY <1>1 DEF StreamInv, StreamType
<1>3. Underway' = Underway
  BY <1>1 DEF Underway
<1> QED BY <1>1, <1>2, <1>3, BytesMove

\* The state of the two threads is not what the invariant is about.
LEMMA OnlyStatesChange ==
  ASSUME StreamInv, sender' \in {"ok", "thrown"},
         receiver' \in {"reading", "handling", "thrown"},
         UNCHANGED <<direction, todo, unsent, sent, wire, recv_deque, expect, elements,
                     received>>
  PROVE  StreamInv'
<1>1. StreamType'
  BY DEF StreamInv, StreamType
<1>2. Underway' = Underway
  BY DEF Underway
<1> QED BY <1>1, <1>2, BytesMove

LEMMA SendElementStep ==
  ASSUME StreamInv, SendElement
  PROVE  StreamInv'
<1>1. /\ unsent = <<>> /\ todo # <<>>
      /\ unsent' = Written(Writer, Head(todo)) /\ todo' = Tail(todo)
      /\ UNCHANGED <<direction, sender, sent, wire, receiver, recv_deque, expect,
                     elements, received>>
  BY DEF SendElement, receiving
<1>2. StreamType
  BY DEF StreamInv
<1> DEFINE e == Head(todo)
           rest == Tail(todo)
<1>3. e \in Element /\ rest \in Seq(Element) /\ todo \in Seq(Element)
  BY <1>1, <1>2, ConsOfSeq DEF StreamType
<1>4. unsent' = Octets(e) /\ unsent' \in Seq(Bytes) /\ Len(unsent') = SizeOf(e.field)
  BY <1>1, <1>3, OctetsType
<1>5. SizeOf(e.field) \in {1, 2, 4}
  BY <1>3, SizeOfType, ElementType
<1>6. StreamType'
  BY <1>1, <1>2, <1>3, <1>4, <1>5 DEF StreamType
<1>7. Encode(todo) = Octets(e) \o Encode(rest)
  BY <1>1, <1>3, EncodeFirst
<1>8. Encode(todo) \in Seq(Bytes)
  BY <1>3, EncodeType
<1>9. <<>> \o Encode(todo) = Encode(todo)
  BY <1>8, ConcatEmptySeq
<1> HIDE DEF e, rest
<1>10. unsent' \o Encode(todo') = unsent \o Encode(todo)
  BY <1>1, <1>4, <1>7, <1>9, Zenon DEF rest
<1>11. Underway' = Underway
  BY <1>1, <1>10 DEF Underway
<1> QED BY <1>1, <1>6, <1>11, BytesMove

LEMMA SendBytesStep ==
  ASSUME StreamInv, NEW k, SendBytes(k)
  PROVE  StreamInv'
<1> DEFINE a == SubSeq(unsent, 1, k)
           b == SubSeq(unsent, k + 1, Len(unsent))
           c == Encode(todo)
<1>1. /\ k \in 1 .. Len(unsent) /\ Len(wire) + k <= WireSize
      /\ wire' = wire \o a /\ unsent' = b
      /\ UNCHANGED <<direction, sender, todo, sent, receiver, recv_deque, expect,
                     elements, received>>
  BY DEF SendBytes, receiving
<1>2. StreamType
  BY DEF StreamInv
<1>3. /\ unsent \in Seq(Bytes) /\ wire \in Seq(Bytes) /\ Len(unsent) <= 4
      /\ recv_deque \in Seq(Bytes) /\ c \in Seq(Bytes)
  BY <1>2, EncodeType DEF StreamType
<1>4. /\ a \in Seq(Bytes) /\ Len(a) = k /\ b \in Seq(Bytes) /\ Len(b) = Len(unsent) - k
      /\ a \o b = unsent
  <2>1. k \in 0 .. Len(unsent)
    BY <1>1, <1>3
  <2> QED BY <2>1, <1>3, SplitAt
<1> HIDE DEF a, b
<1>5. wire' \in Seq(Bytes) /\ Len(wire') = Len(wire) + k
  BY <1>1, <1>3, <1>4, ConcatParts
<1>6. Len(unsent') <= 4
  BY <1>1, <1>3, <1>4
<1>7. StreamType'
  BY <1>1, <1>2, <1>4, <1>5, <1>6 DEF StreamType
<1>8. Underway' = recv_deque \o ((wire \o a) \o (b \o c))
  BY <1>1 DEF Underway
<1>9. Underway = recv_deque \o (wire \o ((a \o b) \o c))
  BY <1>4 DEF Underway
<1> HIDE DEF c
<1>10. (a \o b) \o c = a \o (b \o c) /\ b \o c \in Seq(Bytes)
  <2>1. a \in Seq(Bytes) /\ b \in Seq(Bytes) /\ c \in Seq(Bytes)
    BY <1>3, <1>4, Zenon
  <2>2. (a \o b) \o c = a \o (b \o c)
    BY <2>1, Regroup
  <2>3. b \o c \in Seq(Bytes)
    BY <2>1, Concat2
  <2> QED BY <2>2, <2>3
<1>11. (wire \o a) \o (b \o c) = wire \o (a \o (b \o c))
  <2> DEFINE d == b \o c
  <2>1. d \in Seq(Bytes) /\ wire \in Seq(Bytes) /\ a \in Seq(Bytes)
    BY <1>3, <1>4, <1>10, Zenon
  <2> HIDE DEF d
  <2>2. (wire \o a) \o d = wire \o (a \o d)
    BY <2>1, Regroup
  <2> QED BY <2>2 DEF d
<1>12. Underway' = Underway
  BY <1>8, <1>9, <1>10, <1>11, Zenon
<1> QED BY <1>1, <1>7, <1>12, BytesMove

\* What is awaited is at most four bytes, and at least one.
LEMMA AwaitedType ==
  ASSUME StreamType
  PROVE  Head(expect) \in Fields /\ Awaited \in {1, 2, 4}
<1>1. Head(expect) \in Fields
  BY ConsOfSeq DEF StreamType
<1> QED BY <1>1, SizeOfType DEF Awaited

LEMMA ReceiveBytesStep ==
  ASSUME StreamInv, NEW k, ReceiveBytes(k)
  PROVE  StreamInv'
<1> DEFINE a == SubSeq(wire, 1, k)
           b == SubSeq(wire, k + 1, Len(wire))
           c == unsent \o Encode(todo)
<1>1. /\ k \in 1 .. Len(wire) /\ k <= RecvBuff /\ ~InDeque(Awaited)
      /\ recv_deque' = recv_deque \o a /\ wire' = b
      /\ UNCHANGED <<direction, sender, todo, unsent, sent, receiver, expect,
                     elements, received>>
  BY DEF ReceiveBytes, sending
<1>2. StreamType
  BY DEF StreamInv
<1>3. /\ unsent \in Seq(Bytes) /\ wire \in Seq(Bytes) /\ recv_deque \in Seq(Bytes)
      /\ Encode(todo) \in Seq(Bytes) /\ Len(wire) <= WireSize
  BY <1>2, EncodeType DEF StreamType
<1>4. c \in Seq(Bytes)
  BY <1>3, Concat2
<1>5. /\ a \in Seq(Bytes) /\ Len(a) = k /\ b \in Seq(Bytes) /\ Len(b) = Len(wire) - k
      /\ a \o b = wire
  <2>1. k \in 0 .. Len(wire)
    BY <1>1, <1>3
  <2> QED BY <2>1, <1>3, SplitAt
<1> HIDE DEF a, b
<1>6. recv_deque' \in Seq(Bytes) /\ Len(recv_deque') = Len(recv_deque) + k
  BY <1>1, <1>3, <1>5, ConcatParts
<1>7. Len(recv_deque') < 4 + RecvBuff
  <2>1. Awaited \in {1, 2, 4}
    BY <1>2, AwaitedType
  <2>2. Len(recv_deque) < Awaited /\ Len(recv_deque) \in Nat
    BY <1>1, <1>3, <2>1 DEF InDeque
  <2> QED BY <2>1, <2>2, <1>1, <1>6, TcpStreamAssumption
<1>8. Len(wire') <= WireSize
  BY <1>1, <1>3, <1>5, TcpStreamAssumption
<1>9. StreamType'
  BY <1>1, <1>2, <1>5, <1>6, <1>7, <1>8 DEF StreamType
<1>10. Underway' = (recv_deque \o a) \o (b \o c)
  BY <1>1 DEF Underway
<1>11. Underway = recv_deque \o ((a \o b) \o c)
  BY <1>5 DEF Underway
<1> HIDE DEF c
<1>12. (a \o b) \o c = a \o (b \o c) /\ b \o c \in Seq(Bytes)
  <2>1. a \in Seq(Bytes) /\ b \in Seq(Bytes) /\ c \in Seq(Bytes)
    BY <1>4, <1>5, Zenon
  <2>2. (a \o b) \o c = a \o (b \o c)
    BY <2>1, Regroup
  <2>3. b \o c \in Seq(Bytes)
    BY <2>1, Concat2
  <2> QED BY <2>2, <2>3
<1>13. (recv_deque \o a) \o (b \o c) = recv_deque \o (a \o (b \o c))
  <2> DEFINE d == b \o c
  <2>1. d \in Seq(Bytes) /\ recv_deque \in Seq(Bytes) /\ a \in Seq(Bytes)
    BY <1>3, <1>5, <1>12, Zenon
  <2> HIDE DEF d
  <2>2. (recv_deque \o a) \o d = recv_deque \o (a \o d)
    BY <2>1, Regroup
  <2> QED BY <2>2 DEF d
<1>14. Underway' = Underway
  BY <1>10, <1>11, <1>12, <1>13, Zenon
<1> QED BY <1>1, <1>9, <1>14, BytesMove

\* What ReadElement reads is the next element, and it is not an unknown one.
LEMMA NextElement ==
  ASSUME StreamInv, ReadElement
  PROVE  \E cur, later :
           LET e == Head(cur)
               rest == Then(e.field, e.value) \o Tail(expect)
               all == Append(elements, e)
           IN  /\ Reading(cur, later) /\ cur # <<>> /\ e \in Element
               /\ Reads(rest, Tail(cur))
               /\ recv_deque' \in Seq(Bytes) /\ Len(recv_deque') < 4 + RecvBuff
               /\ Underway' = Encode(Tail(cur) \o FlattenSeq(later))
               /\ IF rest # <<>>
                  THEN /\ expect' = rest /\ elements' = all
                       /\ UNCHANGED <<receiver, received>>
                  ELSE /\ expect' = <<MessageId>> /\ elements' = <<>>
                       /\ receiver' = "handling"
                       /\ received' = Append(received, all)
<1> DEFINE n == Awaited
           a == SubSeq(recv_deque, 1, n)
           b == SubSeq(recv_deque, n + 1, Len(recv_deque))
           w == wire \o (unsent \o Encode(todo))
           field == Head(expect)
           value == ValueRead(Reader, a)
           all == Append(elements, [field |-> field, value |-> value])
           rest == Then(field, value) \o Tail(expect)
<1>1. /\ receiver = "reading" /\ Len(recv_deque) >= n /\ recv_deque' = b
      /\ UNCHANGED <<direction, sender, todo, unsent, sent, wire>>
  BY DEF ReadElement, InDeque, sending
<1>2. \/ Unknown(field, value)
      \/ IF rest # <<>>
         THEN expect' = rest /\ elements' = all /\ UNCHANGED <<receiver, received>>
         ELSE /\ expect' = <<MessageId>> /\ elements' = <<>>
              /\ receiver' = "handling" /\ received' = Append(received, all)
  BY Zenon DEF ReadElement
<1>3. StreamType /\ n \in {1, 2, 4}
  BY AwaitedType DEF StreamInv
<1>4. /\ recv_deque \in Seq(Bytes) /\ Len(recv_deque) < 4 + RecvBuff
      /\ wire \in Seq(Bytes) /\ unsent \in Seq(Bytes) /\ Encode(todo) \in Seq(Bytes)
      /\ expect # <<>> /\ expect \in Seq(Fields)
  BY <1>3, EncodeType DEF StreamType
<1>5. w \in Seq(Bytes)
  BY <1>4, Concat2
<1>6. /\ a \in Seq(Bytes) /\ Len(a) = n /\ b \in Seq(Bytes)
      /\ Len(b) = Len(recv_deque) - n /\ a \o b = recv_deque
  <2>1. n \in 0 .. Len(recv_deque)
    BY <1>1, <1>3, <1>4
  <2> HIDE DEF n
  <2> QED BY <2>1, <1>4, SplitAt
<1>7. Underway = recv_deque \o w /\ Underway' = b \o w
  BY <1>1 DEF Underway
<1> HIDE DEF w, n, a, b
<1>8. Underway = a \o (b \o w) /\ b \o w \in Seq(Bytes)
  <2>1. a \in Seq(Bytes) /\ b \in Seq(Bytes) /\ w \in Seq(Bytes)
    BY <1>5, <1>6, Zenon
  <2>2. (a \o b) \o w = a \o (b \o w)
    BY <2>1, Regroup
  <2>3. b \o w \in Seq(Bytes)
    BY <2>1, Concat2
  <2> QED BY <1>6, <1>7, <2>2, <2>3, Zenon
<1>9. ~Finished
  <2> DEFINE x == b \o w
  <2>3. a \in Seq(Bytes) /\ x \in Seq(Bytes)
    BY <1>6, <1>8, Zenon
  <2> HIDE DEF x
  <2>1. Len(a \o x) = Len(a) + Len(x) /\ Len(x) \in Nat
    BY <2>3
  <2>2. Underway # <<>>
    <3>1. Len(a \o x) # 0
      BY <2>1, <1>3, <1>6
    <3> QED BY <3>1, <1>8 DEF x
  <2> QED BY <2>2 DEF Finished
<1>10. PICK cur, later : Reading(cur, later)
  BY <1>9 DEF StreamInv
<1> DEFINE e == Head(cur)
           f == FlattenSeq(later)
<1>11. /\ cur \in Seq(Element) /\ later \in Lists(Element) /\ Reads(expect, cur)
       /\ Underway = Encode(cur \o f)
  BY <1>10 DEF Reading
<1>12. /\ cur # <<>> /\ field = e.field /\ ~Unknown(e.field, e.value)
       /\ Reads(Then(e.field, e.value) \o Tail(expect), Tail(cur))
  BY <1>4, <1>11, ReadsStep, Zenon
<1>13. e \in Element /\ Tail(cur) \in Seq(Element) /\ cur = <<e>> \o Tail(cur)
  BY <1>11, <1>12, ConsOfSeq
<1>14. f \in Seq(Element)
  BY <1>11, FlattenType
<1> HIDE DEF e, f
<1>15. Encode(cur \o f) = Octets(e) \o Encode(Tail(cur) \o f)
  <2> DEFINE t == Tail(cur)
  <2>1. t \in Seq(Element) /\ <<e>> \in Seq(Element) /\ cur = <<e>> \o t
    BY <1>13
  <2> HIDE DEF t
  <2>2. (<<e>> \o t) \o f = <<e>> \o (t \o f) /\ t \o f \in Seq(Element)
    <3>1. (<<e>> \o t) \o f = <<e>> \o (t \o f)
      BY <2>1, <1>14, Regroup
    <3>2. t \o f \in Seq(Element)
      BY <2>1, <1>14, Concat2
    <3> QED BY <3>1, <3>2
  <2>3. Encode(<<e>> \o (t \o f)) = Encode(<<e>>) \o Encode(t \o f)
    BY <2>1, <2>2, EncodeConcat, Zenon
  <2>4. Encode(<<e>>) = Octets(e)
    BY <1>13, EncodeOne
  <2> QED BY <2>1, <2>2, <2>3, <2>4, Zenon DEF t
<1>16. /\ Octets(e) \in Seq(Bytes) /\ Len(Octets(e)) = n /\ ValueRead(Reader, Octets(e)) = e.value
  BY <1>12, <1>13, OctetsType DEF Awaited, n
<1>17. Encode(Tail(cur) \o f) \in Seq(Bytes)
  BY <1>13, <1>14, Concat2, EncodeType
<1>18. a = Octets(e) /\ b \o w = Encode(Tail(cur) \o f)
  <2> DEFINE x == b \o w
             y == Encode(Tail(cur) \o f)
             o == Octets(e)
  <2>1. /\ a \in Seq(Bytes) /\ o \in Seq(Bytes) /\ x \in Seq(Bytes) /\ y \in Seq(Bytes)
        /\ a \o x = o \o y /\ Len(a) = Len(o)
    BY <1>6, <1>8, <1>11, <1>15, <1>16, <1>17, Zenon
  <2> HIDE DEF x, y, o
  <2>2. a = o /\ x = y
    BY <2>1, CancelPrefix
  <2> QED BY <2>2 DEF x, y, o
<1>19. value = e.value
  BY <1>16, <1>18, Zenon
<1>20. [field |-> field, value |-> value] = e
  BY <1>12, <1>13, <1>19, ElementType
<1>21. Underway' = Encode(Tail(cur) \o f)
  BY <1>7, <1>18
<1>22. recv_deque' \in Seq(Bytes) /\ Len(recv_deque') < 4 + RecvBuff
  BY <1>1, <1>3, <1>4, <1>6, TcpStreamAssumption
<1>23. all = Append(elements, e) /\ rest = Then(e.field, e.value) \o Tail(expect)
       /\ ~Unknown(field, value)
  BY <1>12, <1>19, <1>20, Zenon
<1> HIDE DEF all, rest, field, value
<1> QED
  BY <1>2, <1>10, <1>12, <1>13, <1>21, <1>22, <1>23, Zenon DEF e, f

LEMMA ReadElementStep ==
  ASSUME StreamInv, ReadElement
  PROVE  /\ StreamInv'
         /\ \/ UNCHANGED <<receiver, received>>
            \/ /\ receiver' = "handling" /\ Len(received) < Len(sent)
               /\ received' = Append(received, sent[Len(received) + 1])
<1>1. PICK cur, later :
        LET e == Head(cur)
            rest == Then(e.field, e.value) \o Tail(expect)
            all == Append(elements, e)
        IN  /\ Reading(cur, later) /\ cur # <<>> /\ e \in Element
            /\ Reads(rest, Tail(cur))
            /\ recv_deque' \in Seq(Bytes) /\ Len(recv_deque') < 4 + RecvBuff
            /\ Underway' = Encode(Tail(cur) \o FlattenSeq(later))
            /\ IF rest # <<>>
               THEN /\ expect' = rest /\ elements' = all
                    /\ UNCHANGED <<receiver, received>>
               ELSE /\ expect' = <<MessageId>> /\ elements' = <<>>
                    /\ receiver' = "handling"
                    /\ received' = Append(received, all)
  BY NextElement
<1> DEFINE e == Head(cur)
           rest == Then(e.field, e.value) \o Tail(expect)
           all == Append(elements, e)
           t == Tail(cur)
           f == FlattenSeq(later)
<1>2. /\ cur # <<>> /\ e \in Element /\ Reads(rest, t) /\ Underway' = Encode(t \o f)
      /\ recv_deque' \in Seq(Bytes) /\ Len(recv_deque') < 4 + RecvBuff
  BY <1>1
<1>3. /\ cur \in Seq(Element) /\ later \in Lists(Element)
      /\ sent = received \o (<<elements \o cur>> \o later)
  BY <1>1 DEF Reading
<1>4. StreamType /\ Histories
  BY DEF StreamInv
<1>5. /\ elements \in Seq(Element) /\ received \in Lists(Element) /\ sent \in Lists(Element)
      /\ \A k \in 1 .. Len(sent) : Reads(<<MessageId>>, sent[k]) /\ sent[k] \in Contents
  BY <1>4 DEF StreamType, Histories
<1>6. t \in Seq(Element) /\ cur = <<e>> \o t
  BY <1>2, <1>3, ConsOfSeq
<1>7. rest \in Seq(Fields)
  BY <1>2 DEF Reads
<1>8. all = elements \o <<e>> /\ all \in Seq(Element)
  BY <1>2, <1>5, AppendIsConcat
<1>9. UNCHANGED <<direction, sender, todo, unsent, sent, wire>>
  BY DEF ReadElement, sending
<1>10. MessageId' = MessageId /\ Contents' = Contents
  BY <1>9 DEF MessageId, Contents
<1>11. CASE rest # <<>>
  <2>1. expect' = rest /\ elements' = all /\ UNCHANGED <<receiver, received>>
    BY <1>1, <1>11
  <2> HIDE DEF e, rest, all, t, f
  <2>2. all \o t = elements \o cur
    <3>1. <<e>> \in Seq(Element)
      BY <1>2
    <3>2. (elements \o <<e>>) \o t = elements \o (<<e>> \o t)
      BY <3>1, <1>5, <1>6, Regroup
    <3> QED BY <3>2, <1>6, <1>8, Zenon
  <2>3. StreamType'
    BY <2>1, <1>2, <1>4, <1>7, <1>8, <1>9, <1>11 DEF StreamType
  <2>4. Histories'
    BY <2>1, <1>4, <1>9, <1>10 DEF Histories
  <2>5. sent' = received' \o (<<elements' \o t>> \o later)
    BY <2>1, <2>2, <1>3, <1>9, Zenon
  <2>6. Reading(t, later)'
    BY <2>1, <2>5, <1>2, <1>3, <1>6 DEF Reading, f
  <2> QED BY <2>1, <2>3, <2>4, <2>6 DEF StreamInv
<1>12. CASE rest = <<>>
  <2>1. /\ expect' = <<MessageId>> /\ elements' = <<>> /\ receiver' = "handling"
        /\ received' = Append(received, all)
    BY <1>1, <1>12
  <2> HIDE DEF e, rest, all, t, f
  <2>2. t = <<>>
    BY <1>2, <1>12, ReadsOnlyNothing
  <2>3. elements \o cur = all
    <3>1. <<e>> \o <<>> = <<e>>
      BY <1>2
    <3> QED BY <2>2, <3>1, <1>6, <1>8, Zenon
  <2> DEFINE m == <<all>>
  <2>4. m \in Lists(Element) /\ Len(m) = 1 /\ m[1] = all
    BY <1>8, ListOfOne
  <2>5. received' = received \o m
    BY <2>1, <1>5, <1>8, AppendIsConcat DEF Lists
  <2> HIDE DEF m
  <2>6. sent = received' \o later
    <3>1. (received \o m) \o later = received \o (m \o later)
      <4>1. received \in Seq(Seq(Element)) /\ m \in Seq(Seq(Element)) /\ later \in Seq(Seq(Element))
        BY <2>4, <1>3, <1>5 DEF Lists
      <4> QED BY <4>1, Regroup
    <3>2. sent = received \o (m \o later)
      BY <2>3, <1>3, Zenon DEF m
    <3> QED BY <2>5, <3>1, <3>2, Zenon
  <2>7. /\ received' \in Lists(Element) /\ Len(received') = Len(received) + 1
        /\ Len(received) \in Nat /\ Len(later) \in Nat
    <3>1. /\ received \o m \in Seq(Seq(Element)) /\ Len(received \o m) = Len(received) + Len(m)
          /\ Len(received) \in Nat /\ Len(later) \in Nat
      <4>1. received \in Seq(Seq(Element)) /\ m \in Seq(Seq(Element)) /\ later \in Seq(Seq(Element))
        BY <2>4, <1>3, <1>5 DEF Lists
      <4> QED BY <4>1
    <3> QED BY <3>1, <2>4, <2>5 DEF Lists
  <2>8. /\ Len(sent) = Len(received') + Len(later)
        /\ \A i \in 1 .. Len(received') : sent[i] = received'[i]
        /\ \A i \in 1 .. Len(later) : sent[Len(received') + i] = later[i]
    <3> DEFINE p == received'
    <3>1. p \in Lists(Element) /\ later \in Lists(Element) /\ sent = p \o later
      BY <2>6, <2>7, <1>3, Zenon
    <3> HIDE DEF p
    <3>2. /\ Len(p \o later) = Len(p) + Len(later)
          /\ \A i \in 1 .. Len(p) : (p \o later)[i] = p[i]
          /\ \A i \in 1 .. Len(later) : (p \o later)[Len(p) + i] = later[i]
      <4>1. p \in Lists(Element) /\ later \in Lists(Element)
        BY <3>1
      <4> QED BY <4>1, ListConcat
    <3> QED BY <3>1, <3>2, Zenon DEF p
  <2>9. sent[Len(received) + 1] = all
    <3>1. received'[Len(received) + 1] = all
      <4>1. (received \o m)[Len(received) + 1] = m[1]
        BY <2>4, <1>5, ListConcat
      <4> QED BY <4>1, <2>4, <2>5
    <3> QED BY <3>1, <2>7, <2>8
  <2>10. Len(received) < Len(sent) /\ received' = Append(received, sent[Len(received) + 1])
    BY <2>1, <2>7, <2>8, <2>9
  <2>11. StreamType'
    BY <2>1, <1>2, <1>4, <1>9, <1>10, MessageIdField DEF StreamType
  <2>12. Histories'
    BY <2>7, <1>4, <1>9, <1>10 DEF Histories
  <2>13. CASE later = <<>>
    <3>1. f = <<>> /\ <<>> \o <<>> = <<>>
      BY <2>13, FlattenEmpty DEF f
    <3>2. Underway' = <<>>
      BY <3>1, <2>2, <1>2, EncodeNothing, Zenon
    <3>3. sent' = received'
      BY <2>6, <2>7, <2>13, <1>9, ConcatEmptySeq DEF Lists
    <3>4. Finished'
      BY <3>2, <3>3, <2>1, <1>10 DEF Finished
    <3> QED BY <3>4, <2>10, <2>11, <2>12, <2>1 DEF StreamInv
  <2>14. CASE later # <<>>
    <3> DEFINE h == Head(later)
               r == Tail(later)
    <3>1. h \in Seq(Element) /\ r \in Lists(Element) /\ later = <<h>> \o r
      BY <2>14, <1>3, ConsOfSeq DEF Lists
    <3>2. Len(later) > 0 /\ h = later[1]
      BY <2>14, <1>3 DEF Lists
    <3> HIDE DEF h, r
    <3>3. h = sent[Len(received') + 1] /\ Len(received') + 1 \in 1 .. Len(sent)
      BY <3>2, <2>7, <2>8
    <3>4. Reads(<<MessageId>>, h)
      BY <3>3, <1>5
    <3>5. <<>> \o h = h
      BY <3>1, ConcatEmptySeq
    <3>6. sent' = received' \o (<<elements' \o h>> \o r)
      BY <3>1, <3>5, <2>1, <2>6, <1>9, Zenon
    <3>7. f = h \o FlattenSeq(r)
      <4>1. <<h>> \in Lists(Element) /\ FlattenSeq(<<h>>) = h
        BY <3>1, ListOfOne, FlattenOne
      <4> QED BY <4>1, <3>1, FlattenConcat, Zenon DEF f
    <3>8. <<>> \o f = f
      BY <1>3, FlattenType, ConcatEmptySeq DEF f
    <3>9. Underway' = Encode(h \o FlattenSeq(r))
      BY <3>7, <3>8, <2>2, <1>2, Zenon
    <3>10. Reading(h, r)'
      BY <3>1, <3>4, <3>6, <3>9, <2>1, <1>10 DEF Reading
    <3> QED BY <3>10, <2>10, <2>11, <2>12, <2>1 DEF StreamInv
  <2> QED BY <2>13, <2>14
<1> QED BY <1>11, <1>12

LEMMA StreamStep ==
  ASSUME StreamInv, StreamNext
  PROVE  StreamInv'
<1>1. CASE SendElement
  BY <1>1, SendElementStep
<1>2. CASE SendFails
  BY <1>2, OnlyStatesChange DEF SendFails, receiving, StreamInv, StreamType
<1>3. CASE ReceiveFails
  BY <1>3, OnlyStatesChange DEF ReceiveFails, sending, StreamInv, StreamType
<1>4. CASE ReadElement
  BY <1>4, ReadElementStep
<1>5. ASSUME NEW k \in 1 .. WireSize, SendBytes(k) \/ ReceiveBytes(k) PROVE StreamInv'
  BY <1>5, SendBytesStep, ReceiveBytesStep
<1> QED BY <1>1, <1>2, <1>3, <1>4, <1>5 DEF StreamNext

-----------------------------------------------------------------------------
(* Every step of the connection                                            *)

WireInv == StreamInv /\ gui_out = <<>>

\* A message that is written is one of Contents, and what may be read as a message.
LEMMA WrittenByServer ==
  ASSUME NEW k \in DOMAIN Script, direction = "down"
  PROVE  Reads(<<MessageId>>, ServerElements(Script[k])) /\ ServerElements(Script[k]) \in Contents
<1>1. MessageId = "server_message" /\ IsServerMessage(Script[k])
  BY WireAssumption DEF MessageId
<1>2. Reads(<<MessageId>>, ServerElements(Script[k]))
  BY <1>1, ReadsServerMessage
<1> QED BY <1>2 DEF Contents

Inputs0 == [type : {"PlaceBomb", "PlaceBlock"}] \union [type : {"Move"}, direction : 0 .. 3]

LEMMA InputsType ==
  ASSUME NEW buff, NEW n
  PROVE  Inputs(buff, n) \subseteq Inputs0
BY DEF Inputs, Inputs0

LEMMA WrittenByClient ==
  ASSUME direction = "up",
         NEW m \in Inputs0 \union {[type |-> "Join", name |-> PlayerName]}
  PROVE  Reads(<<MessageId>>, ClientElements(m)) /\ ClientElements(m) \in Contents
<1>1. MessageId = "client_message"
  BY DEF MessageId
<1>2. 0 .. 3 \subseteq Value("direction")
  BY PowerGrows, EncodingAssumption DEF Value, SizeOf
<1>3. IsClientMessage(m)
  <2>1. CASE m \in [type : {"PlaceBomb", "PlaceBlock"}]
    BY <2>1 DEF IsClientMessage
  <2>2. CASE m \in [type : {"Move"}, direction : 0 .. 3]
    BY <2>2, <1>2 DEF IsClientMessage
  <2>3. CASE m = [type |-> "Join", name |-> PlayerName]
    BY <2>3, WireAssumption DEF IsClientMessage
  <2> QED BY <2>1, <2>2, <2>3 DEF Inputs0
<1>4. ClientElements(m) \in Contents
  <2> DEFINE M == {[type |-> "Join", name |-> PlayerName],
                   [type |-> "PlaceBomb"], [type |-> "PlaceBlock"]}
                  \union [type : {"Move"}, direction : 0 .. 3]
  <2>1. m \in M
    BY DEF Inputs0
  <2> HIDE DEF M
  <2> QED BY <2>1 DEF Contents, M
<1> QED BY <1>1, <1>3, <1>4, ReadsClientMessage

LEMMA InitInv == Init => WireInv
BY StreamInitially DEF Init, WireInv

\* What a step does with the messages.
Steps ==
  \/ UNCHANGED <<sent, received>>
  \/ (\E m \in Contents : sent' = Append(sent, m)) /\ UNCHANGED received
  \/ /\ Len(received) < Len(sent)
     /\ received' = Append(received, sent[Len(received) + 1]) /\ UNCHANGED sent

LEMMA WriteIsStep ==
  ASSUME WireInv, NEW m, Write(m), Reads(<<MessageId>>, m), m \in Contents, UNCHANGED gui_out
  PROVE  WireInv' /\ Steps
BY WriteStep DEF WireInv, Write, Steps, receiving

LEMMA HandleIsStep ==
  ASSUME WireInv, receiver' \in {"reading", "thrown"}, gui_out' = <<>>,
         UNCHANGED <<direction, sending, wire, recv_deque, expect, elements, received>>
  PROVE  WireInv' /\ Steps
<1>1. StreamInv'
  BY OnlyStatesChange DEF sending, WireInv, StreamInv, StreamType
<1> QED BY <1>1 DEF WireInv, Steps, sending

LEMMA DrawIsStep ==
  ASSUME WireInv, NEW view, Draw(view)
  PROVE  WireInv' /\ Steps
<1>1. receiver' \in {"reading", "thrown"} /\ gui_out' = <<>>
  BY DEF Draw, SendGuiMessage, FlushOutcomingPacket, WireInv
<1> QED BY <1>1, HandleIsStep DEF Draw

LEMMA NextInv ==
  ASSUME WireInv, [Next]_vars
  PROVE  WireInv' /\ Steps
<1>1. ASSUME NEW p \in Packets, GuiNoise(p) PROVE WireInv' /\ Steps
  <2>1. UNCHANGED streamVars /\ UNCHANGED gui_out
    BY <1>1 DEF GuiNoise, GuiPacket
  <2> QED BY <2>1, StreamStutters DEF WireInv, Steps, streamVars, sending, receiving
<1>2. ASSUME NEW p \in Packets, GuiInput(p) PROVE WireInv' /\ Steps
  <2>1. direction = "up" /\ UNCHANGED gui_out
    BY <1>2 DEF GuiInput, GuiPacket
  <2>2. PICK input \in Inputs(gui_buff', Len(p)) :
          \/ Write(ClientElements(input))
          \/ Write(ClientElements([type |-> "Join", name |-> PlayerName]))
    BY <1>2, Zenon DEF GuiInput
  <2>3. input \in Inputs0
    BY InputsType
  <2>4. PICK m \in Inputs0 \union {[type |-> "Join", name |-> PlayerName]} :
          Write(ClientElements(m))
    BY <2>2, <2>3
  <2> QED BY <2>1, <2>4, WrittenByClient, WriteIsStep
<1>3. CASE ServerWrites
  <2>1. /\ direction = "down" /\ Len(sent) < Len(Script)
        /\ Write(ServerElements(Script[Len(sent) + 1])) /\ UNCHANGED gui_out
    BY <1>3 DEF ServerWrites, guiVars
  <2>2. Len(sent) + 1 \in DOMAIN Script
    <3>1. Len(sent) \in Nat
      BY ListProperties DEF WireInv, StreamInv, Histories
    <3>2. Script \in Seq(Range(Script))
      BY WireAssumption
    <3> QED BY <2>1, <3>1, <3>2
  <2> QED BY <2>1, <2>2, WrittenByServer, WriteIsStep
<1>4. CASE ServerHandles
  BY <1>4, HandleIsStep DEF ServerHandles, guiVars, WireInv
<1>5. CASE ClientHandles
  <2>1. CASE ClientHello
    BY <2>1, DrawIsStep DEF ClientHello
  <2>2. CASE ClientAcceptedPlayer
    BY <2>2, DrawIsStep DEF ClientAcceptedPlayer
  <2>3. CASE ClientGameStarted
    BY <2>3, HandleIsStep DEF ClientGameStarted, guiVars, WireInv
  <2>4. CASE ClientGameEnded
    BY <2>4, DrawIsStep DEF ClientGameEnded
  <2>5. ASSUME NEW view \in GameViews, ClientTurn(view) PROVE WireInv' /\ Steps
    BY <2>5, DrawIsStep DEF ClientTurn
  <2> QED BY <1>5, <2>1, <2>2, <2>3, <2>4, <2>5 DEF ClientHandles
<1>6. CASE Stream
  <2>1. StreamNext /\ UNCHANGED gui_out
    BY <1>6 DEF Stream, guiVars
  <2>2. StreamInv'
    BY <2>1, StreamStep DEF WireInv
  <2>3. Steps
    <3>1. CASE SendElement \/ SendFails \/ ReceiveFails
      BY <3>1 DEF SendElement, SendFails, ReceiveFails, Steps, receiving, sending
    <3>2. CASE ReadElement
      <4>1. \/ UNCHANGED received
            \/ /\ Len(received) < Len(sent)
               /\ received' = Append(received, sent[Len(received) + 1])
        BY <3>2, ReadElementStep DEF WireInv
      <4>2. UNCHANGED sent
        BY <3>2 DEF ReadElement, sending
      <4> QED BY <4>1, <4>2 DEF Steps
    <3>3. ASSUME NEW k \in 1 .. WireSize, SendBytes(k) \/ ReceiveBytes(k) PROVE Steps
      BY <3>3 DEF SendBytes, ReceiveBytes, Steps, receiving, sending
    <3> QED BY <2>1, <3>1, <3>2, <3>3 DEF StreamNext
  <2> QED BY <2>1, <2>2, <2>3 DEF WireInv
<1>7. CASE UNCHANGED vars
  BY <1>7, StreamStutters DEF vars, guiVars, WireInv, Steps, streamVars, sending, receiving
<1> QED BY <1>1, <1>2, <1>3, <1>4, <1>5, <1>6, <1>7 DEF Next

\* In every state the bytes in recv_deque, on the way and in send_buff are those of
\* the elements that have been written and not read, in that order, and the fields
\* that the reader expects are the fields of these elements.
THEOREM Invariance == Spec => []WireInv
<1>1. WireInv /\ [Next]_vars => WireInv'
  BY NextInv
<1> QED BY InitInv, <1>1, PTL DEF Spec

\* Every variable has its type: read_element returns no value that the type of its
\* field cannot have, and the deque of TCPHandler never holds more than the rest of
\* one element and what one recv returns.
THEOREM TypeCorrect == Spec => []TypeOK
<1>1. WireInv => TypeOK
  <2>1. ASSUME WireInv PROVE TypeOK
    <3>1. StreamType /\ gui_out = <<>>
      BY <2>1 DEF WireInv, StreamInv
    <3>2. \A e \in Range(elements) : e.value \in Value(e.field)
      <4>1. Range(elements) \subseteq Element
        BY <3>1 DEF StreamType, Range
      <4> QED BY <4>1, ElementType
    <3> QED BY <3>1, <3>2 DEF StreamType, TypeOK
  <2> QED BY <2>1
<1> QED BY <1>1, Invariance, PTL

\* The two ends of a TCPHandler connection see a FIFO channel of whole messages,
\* although send and recv divide the bytes as they like: this is the atomic step "a
\* message is read" of Server, Client and System.
THEOREM Implementation == Spec => ImplementsChannel
<1>1. Init => TheChannel!Init
  BY DEF Init, StreamInit, TheChannel!Init
<1>2. WireInv /\ [Next]_vars => [TheChannel!Next]_<<sent, received>>
  BY NextInv DEF Steps, TheChannel!Next, TheChannel!SendMessage, TheChannel!ReceiveMessage
<1> QED BY <1>1, <1>2, Invariance, PTL DEF Spec, ImplementsChannel, TheChannel!Spec

-----------------------------------------------------------------------------
(* The keys arrive                                                         *)

\* The messages read are the first of those written.
LEMMA ReceivedIsPrefix ==
  ASSUME StreamInv
  PROVE  /\ Len(received) \in Nat /\ Len(sent) \in Nat /\ Len(received) <= Len(sent)
         /\ \A k \in 1 .. Len(received) : received[k] = sent[k]
<1>1. sent \in Lists(Element) /\ received \in Lists(Element)
  BY DEF StreamInv, Histories
<1>2. ASSUME Finished
      PROVE  Len(received) <= Len(sent) /\ \A k \in 1 .. Len(received) : received[k] = sent[k]
  BY <1>1, <1>2, ListProperties DEF Finished
<1>3. ASSUME NEW cur, NEW later, Reading(cur, later)
      PROVE  Len(received) <= Len(sent) /\ \A k \in 1 .. Len(received) : received[k] = sent[k]
  <2> DEFINE b == <<elements \o cur>> \o later
  <2>1. b \in Lists(Element) /\ sent = received \o b
    <3>1. elements \o cur \in Seq(Element)
      BY <1>3, Concat2 DEF Reading, StreamInv, StreamType
    <3>2. <<elements \o cur>> \in Lists(Element) /\ later \in Lists(Element)
      BY <1>3, <3>1, ListOfOne DEF Reading
    <3>3. b \in Lists(Element)
      BY <3>2, ListConcat
    <3> QED BY <1>3, <3>3 DEF Reading
  <2> HIDE DEF b
  <2>2. /\ Len(received \o b) = Len(received) + Len(b) /\ Len(b) \in Nat /\ Len(received) \in Nat
        /\ \A i \in 1 .. Len(received) : (received \o b)[i] = received[i]
    <3>1. received \in Lists(Element) /\ b \in Lists(Element)
      BY <1>1, <2>1
    <3> QED BY <3>1, ListConcat, ListProperties
  <2> QED BY <2>1, <2>2
<1> QED BY <1>1, <1>2, <1>3, ListProperties DEF StreamInv

Keys == Inputs0
KeyList == FlattenSeq([k \in DOMAIN packets |-> KeyOf(packets[k])])
JoinMessage == [type |-> "Join", name |-> PlayerName]

KeysInv ==
  /\ packets \in Seq(Seq(Bytes)) /\ DOMAIN gui_buff = 1 .. 3
  /\ direction = "up" =>
       /\ Len(sent) = Len(KeyList)
       /\ \A k \in 1 .. Len(sent) :
            sent[k] \in {ClientElements(KeyList[k]), ClientElements(JoinMessage)}

LEMMA KeyOfType ==
  ASSUME NEW p \in Seq(Bytes)
  PROVE  KeyOf(p) \in Seq(Keys)
<1>1. CASE p = <<0>>
  <2>1. Meant(p) = [type |-> "PlaceBomb"]
    BY <1>1 DEF Meant
  <2> QED BY <2>1 DEF KeyOf, Keys, Inputs0
<1>2. CASE p = <<1>>
  <2>1. Meant(p) = [type |-> "PlaceBlock"]
    BY <1>2 DEF Meant
  <2> QED BY <2>1 DEF KeyOf, Keys, Inputs0
<1>3. CASE p # <<0>> /\ p # <<1>> /\ Len(p) = 2 /\ p[1] = 2 /\ p[2] < 4
  <2>1. Meant(p) = [type |-> "Move", direction |-> p[2]]
    BY <1>3 DEF Meant
  <2>2. \A k \in 1 .. Len(p) : p[k] \in Bytes
    OBVIOUS
  <2>3. p[2] \in 0 .. 3
    BY <1>3, <2>2, EncodingAssumption DEF Bytes
  <2> QED BY <2>1, <2>3 DEF KeyOf, Keys, Inputs0
<1>4. CASE p # <<0>> /\ p # <<1>> /\ ~(Len(p) = 2 /\ p[1] = 2 /\ p[2] < 4)
  <2>1. Meant(p) = [type |-> "None"]
    BY <1>4 DEF Meant
  <2> QED BY <2>1 DEF KeyOf
<1> QED BY <1>1, <1>2, <1>3, <1>4

\* The datagram in the buffer is read as the key that it stands for, whatever else is
\* in the buffer.
LEMMA InputIsMeant ==
  ASSUME NEW p \in Seq(Bytes), NEW buff, DOMAIN buff = 1 .. 3
  PROVE  /\ \A input \in Inputs(Overwritten(buff, p), Len(p)) : KeyOf(p) = <<input>>
         /\ Inputs(Overwritten(buff, p), Len(p)) = {} => KeyOf(p) = <<>>
<1> DEFINE b == Overwritten(buff, p)
           I == Inputs(b, Len(p))
<1>1. Len(p) \in Nat /\ \A k \in 1 .. Len(p) : p[k] \in Bytes
  OBVIOUS
<1>2. Len(p) >= 1 => b[1] = p[1]
  BY <1>1 DEF Overwritten
<1>3. Len(p) >= 2 => b[2] = p[2]
  BY <1>1 DEF Overwritten
<1> HIDE DEF b
<1>4. CASE p = <<0>>
  <2>1. Meant(p) = [type |-> "PlaceBomb"]
    BY <1>4 DEF Meant
  <2>2. Len(p) = 1 /\ b[1] = 0
    BY <1>2, <1>4
  <2>3. I = {[type |-> "PlaceBomb"]}
    BY <2>2 DEF Inputs, InputCodes
  <2> QED BY <2>1, <2>3 DEF KeyOf, b
<1>5. CASE p = <<1>>
  <2>1. Meant(p) = [type |-> "PlaceBlock"]
    BY <1>5 DEF Meant
  <2>2. Len(p) = 1 /\ b[1] = 1
    BY <1>2, <1>5
  <2>3. I = {[type |-> "PlaceBlock"]}
    BY <2>2 DEF Inputs, InputCodes
  <2> QED BY <2>1, <2>3 DEF KeyOf, b
<1>6. CASE p # <<0>> /\ p # <<1>> /\ Len(p) = 2 /\ p[1] = 2 /\ p[2] < 4
  <2>1. Meant(p) = [type |-> "Move", direction |-> p[2]]
    BY <1>6 DEF Meant
  <2>2. Len(p) = 2 /\ b[1] = 2 /\ b[2] = p[2]
    BY <1>2, <1>3, <1>6
  <2>3. p[2] \in 0 .. 3
    BY <1>6, <1>1, EncodingAssumption DEF Bytes
  <2>4. \A d \in 0 .. 3 : b[2] = d <=> d = p[2]
    BY <2>2
  <2>5. I = {[type |-> "Move", direction |-> p[2]]}
    BY <2>2, <2>3 DEF Inputs, InputCodes
  <2> QED BY <2>1, <2>5 DEF KeyOf, b
<1>7. CASE p # <<0>> /\ p # <<1>> /\ ~(Len(p) = 2 /\ p[1] = 2 /\ p[2] < 4)
  <2>1. Meant(p) = [type |-> "None"]
    BY <1>7 DEF Meant
  <2>2. CASE Len(p) = 1
    <3>1. p = <<p[1]>>
      BY <2>2
    <3>2. p[1] # 0 /\ p[1] # 1
      BY <3>1, <1>7
    <3>3. I = {}
      BY <2>2, <3>2, <1>2 DEF Inputs, InputCodes
    <3> QED BY <2>1, <3>3 DEF KeyOf, b
  <2>3. CASE Len(p) = 2
    <3>1. p[2] \in Nat /\ b[1] = p[1] /\ b[2] = p[2]
      BY <2>3, <1>1, <1>2, <1>3, EncodingAssumption DEF Bytes
    <3>2. ~(p[1] = 2 /\ p[2] < 4)
      BY <2>3, <1>7
    <3>3. I = {}
      BY <2>3, <3>1, <3>2 DEF Inputs, InputCodes
    <3> QED BY <2>1, <3>3 DEF KeyOf, b
  <2>4. CASE Len(p) # 1 /\ Len(p) # 2
    <3>1. I = {}
      BY <2>4 DEF Inputs
    <3> QED BY <2>1, <3>1 DEF KeyOf, b
  <2> QED BY <2>2, <2>3, <2>4
<1> QED BY <1>4, <1>5, <1>6, <1>7

LEMMA KeyListGrows ==
  ASSUME NEW p \in Seq(Bytes), packets \in Seq(Seq(Bytes)), packets' = Append(packets, p)
  PROVE  KeyList \in Seq(Keys) /\ KeyList' = KeyList \o KeyOf(p)
<1> DEFINE f == [k \in DOMAIN packets |-> KeyOf(packets[k])]
           g == [k \in DOMAIN packets' |-> KeyOf(packets'[k])]
           n == Len(packets)
<1>1. n \in Nat /\ DOMAIN packets = 1 .. n /\ \A k \in 1 .. n : packets[k] \in Seq(Bytes)
  OBVIOUS
<1>2. /\ DOMAIN packets' = 1 .. n + 1 /\ packets'[n + 1] = p
      /\ \A k \in 1 .. n : packets'[k] = packets[k]
  BY <1>1
<1> HIDE DEF n
<1>3. \A k \in 1 .. n : KeyOf(packets[k]) \in Seq(Keys)
  BY <1>1, KeyOfType
<1>4. KeyOf(p) \in Seq(Keys)
  BY KeyOfType
<1>5. f \in Lists(Keys) /\ Len(f) = n /\ \A k \in 1 .. n : f[k] = KeyOf(packets[k])
  <2>1. f \in [1 .. n -> Seq(Keys)]
    BY <1>1, <1>3
  <2> QED BY <2>1, <1>1 DEF Lists
<1>6. /\ g \in Seq(Seq(Keys)) /\ Len(g) = n + 1 /\ g[n + 1] = KeyOf(p)
      /\ \A k \in 1 .. n : g[k] = KeyOf(packets[k])
  <2>0. /\ DOMAIN g = 1 .. n + 1 /\ g[n + 1] = KeyOf(p)
        /\ \A k \in 1 .. n : g[k] = KeyOf(packets[k])
    BY <1>1, <1>2
  <2>1. \A k \in 1 .. n + 1 : g[k] \in Seq(Keys)
    BY <2>0, <1>1, <1>3, <1>4
  <2>2. g = [k \in 1 .. n + 1 |-> g[k]]
    BY <2>0
  <2>3. g \in [1 .. n + 1 -> Seq(Keys)]
    BY <2>1, <2>2
  <2> HIDE DEF g
  <2> QED BY <2>0, <2>3, <1>1
<1>9. KeyList = FlattenSeq(f) /\ KeyList' = FlattenSeq(g)
  BY DEF KeyList
<1> HIDE DEF f, g
<1>7. g = Append(f, KeyOf(p))
  <2> DEFINE x == KeyOf(p)
             h == Append(f, x)
  <2>1. x \in Seq(Keys) /\ f \in Seq(Seq(Keys))
    BY <1>4, <1>5 DEF Lists
  <2> HIDE DEF x
  <2>2. h \in Seq(Seq(Keys)) /\ Len(h) = n + 1 /\ h[n + 1] = x /\ \A k \in 1 .. n : h[k] = f[k]
    BY <2>1, <1>1, <1>5
  <2> HIDE DEF h
  <2>3. ASSUME NEW k \in 1 .. n + 1 PROVE g[k] = h[k]
    BY <2>2, <1>1, <1>5, <1>6 DEF x
  <2>4. g = h
    BY <2>2, <2>3, <1>6, SeqEqual
  <2> QED BY <2>4 DEF h, x
<1>8. FlattenSeq(g) = FlattenSeq(f) \o KeyOf(p)
  BY <1>4, <1>5, <1>7, FlattenAppend, Zenon
<1>10. FlattenSeq(f) \in Seq(Keys)
  BY <1>5, FlattenType
<1> QED BY <1>8, <1>9, <1>10

LEMMA InitKeys == Init => KeysInv
<1> SUFFICES ASSUME Init PROVE KeysInv
  OBVIOUS
<1>1. packets = <<>> /\ sent = <<>> /\ DOMAIN gui_buff = 1 .. 3
  BY DEF Init, StreamInit
<1> DEFINE f == [k \in DOMAIN packets |-> KeyOf(packets[k])]
<1>2. f = <<>> /\ KeyList = FlattenSeq(f)
  BY <1>1 DEF KeyList
<1>3. KeyList = <<>>
  BY <1>2, FlattenEmpty
<1> QED BY <1>1, <1>3 DEF KeysInv

LEMMA SameKeys ==
  ASSUME KeysInv, UNCHANGED <<direction, packets, gui_buff>>,
         direction = "up" => UNCHANGED sent
  PROVE  KeysInv'
<1>1. KeyList' = KeyList
  BY DEF KeyList
<1> QED BY <1>1 DEF KeysInv

LEMMA GuiPacketKeys ==
  ASSUME WireInv, KeysInv, NEW p \in Packets, GuiPacket(p)
  PROVE  /\ p \in Seq(Bytes) /\ packets' \in Seq(Seq(Bytes)) /\ DOMAIN gui_buff' = 1 .. 3
         /\ KeyList \in Seq(Keys) /\ KeyList' = KeyList \o KeyOf(p)
         /\ \A input \in Inputs(gui_buff', Len(p)) : KeyOf(p) = <<input>>
         /\ Inputs(gui_buff', Len(p)) = {} => KeyOf(p) = <<>>
<1>1. p \in Seq(Bytes)
  BY WireAssumption
<1>2. packets' = Append(packets, p) /\ gui_buff' = Overwritten(gui_buff, p)
  BY DEF GuiPacket
<1>3. packets \in Seq(Seq(Bytes)) /\ DOMAIN gui_buff = 1 .. 3
  BY DEF KeysInv
<1>4. packets' \in Seq(Seq(Bytes)) /\ DOMAIN gui_buff' = 1 .. 3
  BY <1>1, <1>2, <1>3 DEF Overwritten
<1>5. KeyList \in Seq(Keys) /\ KeyList' = KeyList \o KeyOf(p)
  BY <1>1, <1>2, <1>3, KeyListGrows
<1>6. /\ \A input \in Inputs(gui_buff', Len(p)) : KeyOf(p) = <<input>>
      /\ Inputs(gui_buff', Len(p)) = {} => KeyOf(p) = <<>>
  BY <1>1, <1>2, <1>3, InputIsMeant
<1> QED BY <1>1, <1>4, <1>5, <1>6

LEMMA NextKeys ==
  ASSUME WireInv, KeysInv, [Next]_vars
  PROVE  KeysInv'
<1>1. ASSUME NEW p \in Packets, GuiNoise(p) PROVE KeysInv'
  <2>1. GuiPacket(p) /\ Inputs(gui_buff', Len(p)) = {} /\ UNCHANGED <<direction, sent>>
    BY <1>1 DEF GuiNoise, streamVars, sending
  <2>2. KeyList \in Seq(Keys) /\ KeyList' = KeyList \o <<>>
    BY <2>1, GuiPacketKeys
  <2>3. KeyList' = KeyList
    BY <2>2
  <2>4. packets' \in Seq(Seq(Bytes)) /\ DOMAIN gui_buff' = 1 .. 3
    BY <2>1, GuiPacketKeys
  <2> QED BY <2>1, <2>3, <2>4 DEF KeysInv
<1>2. ASSUME NEW p \in Packets, GuiInput(p) PROVE KeysInv'
  <2>1. GuiPacket(p) /\ direction = "up"
    BY <1>2 DEF GuiInput, GuiPacket
  <2>2. PICK input \in Inputs(gui_buff', Len(p)) :
          \/ Write(ClientElements(input))
          \/ Write(ClientElements(JoinMessage))
    BY <1>2, Zenon DEF GuiInput, JoinMessage
  <2>3. KeyList \in Seq(Keys) /\ KeyList' = KeyList \o <<input>>
    BY <2>1, <2>2, GuiPacketKeys
  <2>4. PICK m \in {ClientElements(input), ClientElements(JoinMessage)} :
          sent' = Append(sent, m) /\ UNCHANGED direction
    BY <2>2 DEF Write
  <2>5. /\ Len(sent) \in Nat /\ Len(sent') = Len(sent) + 1 /\ sent'[Len(sent) + 1] = m
        /\ \A k \in 1 .. Len(sent) : sent'[k] = sent[k]
    <3>1. sent \in Lists(Element) /\ sent' \in Lists(Element)
      BY NextInv DEF WireInv, StreamInv, Histories
    <3> QED BY <2>4, <3>1 DEF Lists
  <2>6. /\ Len(KeyList') = Len(KeyList) + 1 /\ KeyList'[Len(KeyList) + 1] = input
        /\ \A k \in 1 .. Len(KeyList) : KeyList'[k] = KeyList[k]
    <3> DEFINE b == KeyList
               c == KeyList'
    <3> HIDE DEF b, c
    <3>1. b \in Seq(Keys) /\ c = b \o <<input>>
      BY <2>3 DEF b, c
    <3>2. Len(c) = Len(b) + 1 /\ c[Len(b) + 1] = input /\ \A k \in 1 .. Len(b) : c[k] = b[k]
      BY <3>1
    <3> QED BY <3>2 DEF b, c
  <2>7. Len(sent) = Len(KeyList)
    BY <2>1 DEF KeysInv
  <2>8. ASSUME NEW k \in 1 .. Len(sent) + 1
        PROVE  sent'[k] \in {ClientElements(KeyList'[k]), ClientElements(JoinMessage)}
    <3>1. CASE k = Len(sent) + 1
      BY <3>1, <2>4, <2>5, <2>6, <2>7
    <3>2. CASE k \in 1 .. Len(sent)
      BY <3>2, <2>1, <2>5, <2>6, <2>7 DEF KeysInv
    <3> QED BY <2>5, <3>1, <3>2
  <2>9. ClientElements(JoinMessage)' = ClientElements(JoinMessage)
    BY DEF JoinMessage
  <2>10. packets' \in Seq(Seq(Bytes)) /\ DOMAIN gui_buff' = 1 .. 3
    BY <2>1, GuiPacketKeys
  <2>11. Len(sent') = Len(KeyList')
    BY <2>5, <2>6, <2>7
  <2> QED BY <2>5, <2>8, <2>10, <2>11 DEF KeysInv, JoinMessage
<1>3. CASE ServerWrites
  BY <1>3, SameKeys DEF ServerWrites, guiVars, Write
<1>4. CASE ServerHandles
  BY <1>4, SameKeys DEF ServerHandles, guiVars, sending
<1>5. CASE ClientHandles
  <2>1. UNCHANGED <<direction, packets, gui_buff, sent>>
    <3>1. ASSUME NEW view, Draw(view) PROVE UNCHANGED <<direction, packets, gui_buff, sent>>
      BY <3>1 DEF Draw, sending
    <3> QED BY <1>5, <3>1 DEF ClientHandles, ClientHello, ClientAcceptedPlayer, ClientGameStarted,
              ClientGameEnded, ClientTurn, guiVars, sending
  <2> QED BY <2>1, SameKeys
<1>6. CASE Stream
  <2>1. UNCHANGED <<direction, packets, gui_buff, sent>>
    BY <1>6 DEF Stream, guiVars, StreamNext, SendElement, SendFails, ReceiveFails, SendBytes,
         ReceiveBytes, ReadElement, sending, receiving
  <2> QED BY <2>1, SameKeys
<1>7. CASE UNCHANGED vars
  BY <1>7, SameKeys DEF vars, guiVars, streamVars, sending
<1> QED BY <1>1, <1>2, <1>3, <1>4, <1>5, <1>6, <1>7 DEF Next

\* What the server reads are the keys that the datagrams of the GUI stand for, each
\* once and in order, or the wish to join in their place, whatever read_gui_message
\* finds in the buffer behind a datagram.
THEOREM KeysDelivered == Spec => []KeysArrive
<1>1. WireInv /\ KeysInv => KeysArrive
  <2> SUFFICES ASSUME WireInv, KeysInv, direction = "up" PROVE KeysArrive
    BY DEF KeysArrive
  <2>1. /\ Len(received) \in Nat /\ Len(sent) \in Nat /\ Len(received) <= Len(sent)
        /\ \A k \in 1 .. Len(received) : received[k] = sent[k]
    BY ReceivedIsPrefix DEF WireInv
  <2>2. DOMAIN received = 1 .. Len(received)
    BY ListProperties DEF WireInv, StreamInv, Histories
  <2>3. \A k \in DOMAIN received :
          received[k] \in {ClientElements(KeyList[k]), ClientElements(JoinMessage)}
    BY <2>1, <2>2 DEF KeysInv
  <2> QED BY <2>3 DEF KeysArrive, KeysInv, KeyList, JoinMessage
<1>2. WireInv /\ KeysInv /\ [Next]_vars => KeysInv'
  BY NextKeys
<1> QED BY InitKeys, <1>1, <1>2, Invariance, PTL DEF Spec

-----------------------------------------------------------------------------
(* What the script has told                                                *)

Since(k) == Max({i \in 1 .. k : Script[i].type \in {"Hello", "GameEnded"}})
Told(k) ==
  {Script[i] : i \in {i \in Since(k) + 1 .. k : Script[i].type = "AcceptedPlayer"}}
PlayersTold(k) ==
  [id \in {m.id : m \in Told(k)} |-> (CHOOSE m \in Told(k) : m.id = id).player]

\* Since(k) is where the lobby of message k begins.
SinceInv(k) ==
  /\ k \in DOMAIN Script /\ Since(k) \in 1 .. k
  /\ \A i \in Since(k) + 1 .. k : Script[i].type \notin {"Hello", "GameEnded"}

LEMMA ScriptProperties ==
  /\ Len(Script) \in Nat /\ DOMAIN Script = 1 .. Len(Script)
  /\ \A k \in 1 .. Len(Script) :
       IsServerMessage(Script[k]) /\ (Script[k].type = "Hello" <=> k = 1)
<1>1. Script \in Seq(Range(Script))
  BY WireAssumption
<1>2. Len(Script) \in Nat /\ DOMAIN Script = 1 .. Len(Script)
  BY <1>1
<1> QED BY <1>2, WireAssumption

LEMMA ScriptBegins ==
  ASSUME 1 \in DOMAIN Script
  PROVE  Script[1] \in AnyHello
BY ScriptProperties DEF IsServerMessage

LEMMA ScriptAccepts ==
  ASSUME NEW k \in DOMAIN Script, Script[k].type = "AcceptedPlayer"
  PROVE  Script[k].id \in Value("player_id") /\ Script[k].player \in AnyPlayer
<1>1. IsServerMessage(Script[k])
  BY ScriptProperties
<1>2. Script[k] \notin AnyHello
  BY DEF AnyHello
<1> QED BY <1>1, <1>2 DEF IsServerMessage

\* With Hello and GameEnded a new lobby begins.
LEMMA SinceBegins ==
  ASSUME NEW k \in DOMAIN Script, Script[k].type \in {"Hello", "GameEnded"}
  PROVE  SinceInv(k) /\ Since(k) = k /\ Told(k) = {}
<1> DEFINE S == {i \in 1 .. k : Script[i].type \in {"Hello", "GameEnded"}}
<1>1. k \in Nat \ {0}
  BY ScriptProperties
<1>2. k \in S /\ \A i \in S : k >= i /\ i \in Nat
  BY <1>1
<1> HIDE DEF S
<1>3. Max(S) \in S /\ \A i \in S : Max(S) >= i
  <2>1. \E x \in S : \A y \in S : x >= y
    BY <1>2
  <2> QED BY <2>1 DEF Max
<1>4. Max(S) = k
  BY <1>1, <1>2, <1>3
<1>5. Since(k) = k
  BY <1>4 DEF Since, S
<1>6. Told(k) = {}
  BY <1>1, <1>5 DEF Told
<1> QED BY <1>1, <1>5, <1>6 DEF SinceInv

LEMMA SinceStays ==
  ASSUME NEW k, SinceInv(k), k + 1 \in DOMAIN Script,
         Script[k + 1].type \notin {"Hello", "GameEnded"}
  PROVE  SinceInv(k + 1) /\ Since(k + 1) = Since(k)
<1>1. k \in Nat \ {0}
  BY ScriptProperties DEF SinceInv
<1>2. {i \in 1 .. k + 1 : Script[i].type \in {"Hello", "GameEnded"}}
        = {i \in 1 .. k : Script[i].type \in {"Hello", "GameEnded"}}
  BY <1>1
<1>3. Since(k + 1) = Since(k)
  BY <1>2 DEF Since
<1> QED BY <1>1, <1>3 DEF SinceInv

LEMMA ToldStays ==
  ASSUME NEW k, SinceInv(k), k + 1 \in DOMAIN Script,
         Script[k + 1].type \notin {"Hello", "GameEnded", "AcceptedPlayer"}
  PROVE  Told(k + 1) = Told(k)
<1>1. k \in Nat \ {0} /\ Since(k) \in 1 .. k /\ Since(k + 1) = Since(k)
  BY ScriptProperties, SinceStays DEF SinceInv
<1> DEFINE s == Since(k)
<1>2. {i \in s + 1 .. k + 1 : Script[i].type = "AcceptedPlayer"}
        = {i \in s + 1 .. k : Script[i].type = "AcceptedPlayer"}
  BY <1>1
<1> HIDE DEF s
<1>3. Told(k + 1) = {Script[i] : i \in {i \in s + 1 .. k + 1 : Script[i].type = "AcceptedPlayer"}}
  BY <1>1 DEF Told, s
<1>4. Told(k) = {Script[i] : i \in {i \in s + 1 .. k : Script[i].type = "AcceptedPlayer"}}
  BY DEF Told, s
<1> QED BY <1>2, <1>3, <1>4

LEMMA ToldGrows ==
  ASSUME NEW k, SinceInv(k), k + 1 \in DOMAIN Script,
         Script[k + 1].type = "AcceptedPlayer"
  PROVE  Told(k + 1) = Told(k) \union {Script[k + 1]}
<1>1. k \in Nat \ {0} /\ Since(k) \in 1 .. k /\ Since(k + 1) = Since(k)
  BY ScriptProperties, SinceStays DEF SinceInv
<1> DEFINE s == Since(k)
           A == {i \in s + 1 .. k : Script[i].type = "AcceptedPlayer"}
           B == {i \in s + 1 .. k + 1 : Script[i].type = "AcceptedPlayer"}
<1>2. B = A \union {k + 1}
  BY <1>1
<1>3. Told(k + 1) = {Script[i] : i \in B} /\ Told(k) = {Script[i] : i \in A}
  BY <1>1 DEF Told
<1> HIDE DEF A, B
<1> QED BY <1>2, <1>3

\* A player is told of once between two games.
LEMMA ToldOnce ==
  ASSUME NEW k, SinceInv(k)
  PROVE  /\ \A m \in Told(k) : m.id \in Value("player_id") /\ m.player \in AnyPlayer
         /\ \A m, n \in Told(k) : m.id = n.id => m = n
<1>1. k \in Nat /\ k <= Len(Script) /\ Since(k) \in 1 .. k
      /\ \A i \in Since(k) + 1 .. k : Script[i].type # "GameEnded"
  BY ScriptProperties DEF SinceInv
<1> DEFINE A == {i \in Since(k) + 1 .. k : Script[i].type = "AcceptedPlayer"}
<1>2. Told(k) = {Script[i] : i \in A}
  BY DEF Told
<1>3. \A i \in A : i \in DOMAIN Script /\ Script[i].type = "AcceptedPlayer" /\ i \in Nat
                    /\ i \in Since(k) + 1 .. k
  BY <1>1, ScriptProperties
<1> HIDE DEF A
<1>4. \A m \in Told(k) : m.id \in Value("player_id") /\ m.player \in AnyPlayer
  BY <1>2, <1>3, ScriptAccepts
<1>5. ASSUME NEW i \in A, NEW j \in A, Script[i].id = Script[j].id, i < j PROVE FALSE
  <2>1. PICK g \in i .. j : Script[g].type = "GameEnded"
    BY <1>3, <1>5, WireAssumption
  <2>2. g \in Since(k) + 1 .. k
    BY <1>1, <1>3
  <2> QED BY <2>1, <2>2, <1>1
<1>6. ASSUME NEW i \in A, NEW j \in A, Script[i].id = Script[j].id PROVE i = j
  BY <1>3, <1>5, <1>6
<1> QED BY <1>2, <1>4, <1>6

LEMMA PlayersToldAre ==
  ASSUME NEW k, SinceInv(k)
  PROVE  /\ DOMAIN PlayersTold(k) = {m.id : m \in Told(k)}
         /\ \A m \in Told(k) : PlayersTold(k)[m.id] = m.player
         /\ IsByPlayer(PlayersTold(k), AnyPlayer)
<1> DEFINE f == PlayersTold(k)
<1>1. DOMAIN f = {m.id : m \in Told(k)}
  BY DEF PlayersTold
<1>2. ASSUME NEW m \in Told(k) PROVE f[m.id] = m.player
  <2>1. (CHOOSE n \in Told(k) : n.id = m.id) = m
    BY ToldOnce
  <2> QED BY <2>1 DEF PlayersTold
<1> HIDE DEF f
<1>3. IsByPlayer(f, AnyPlayer)
  BY <1>1, <1>2, ToldOnce DEF IsByPlayer
<1> QED BY <1>1, <1>2, <1>3 DEF f

-----------------------------------------------------------------------------
(* What the client knows and draws                                         *)

LobbyView(k) == LobbyOf(Script[1], PlayersTold(k))

\* l is the lobby after message k, with strings as they are after the wire.
IsLobby(l, k) ==
  \E players :
    /\ l = LobbyOf(CutHello(Script[1]), players)
    /\ DOMAIN players = DOMAIN PlayersTold(k)
    /\ \A id \in DOMAIN players : players[id] = CutPlayer(PlayersTold(k)[id])

LEMMA CutPlayerType ==
  ASSUME NEW p \in AnyPlayer
  PROVE  CutPlayer(p) \in AnyPlayer /\ Player(CutPlayer(p)) = Player(p)
<1>1. p.name \in AnyString /\ p.address \in AnyString
  BY DEF AnyPlayer
<1>2. CutString(p.name) \in AnyString /\ String(CutString(p.name)) = String(p.name)
  BY <1>1, CutTwice
<1>3. CutString(p.address) \in AnyString /\ String(CutString(p.address)) = String(p.address)
  BY <1>1, CutTwice
<1>4. CutPlayer(p).name = CutString(p.name) /\ CutPlayer(p).address = CutString(p.address)
  BY DEF CutPlayer
<1>5. CutPlayer(p) \in AnyPlayer
  BY <1>2, <1>3 DEF CutPlayer, AnyPlayer
<1>6. Player(CutPlayer(p)) = Player(p)
  BY <1>2, <1>3, <1>4, Zenon DEF Player
<1> QED BY <1>5, <1>6

LEMMA CutHelloType ==
  ASSUME NEW m \in AnyHello
  PROVE  IsSettings(CutHello(m)) /\ Settings(CutHello(m)) = Settings(m)
<1> DEFINE c == CutHello(m)
<1>1. /\ c.server_name = CutString(m.server_name) /\ c.players_count = m.players_count
      /\ c.size = <<m.size[1], m.size[2]>> /\ c.size[1] = m.size[1] /\ c.size[2] = m.size[2]
      /\ c.game_length = m.game_length /\ c.explosion_radius = m.explosion_radius
      /\ c.bomb_timer = m.bomb_timer
  BY DEF CutHello
<1> HIDE DEF c
<1>2. /\ m.server_name \in AnyString /\ m.size \in AnyPosition
      /\ m.players_count \in Value("players_count")
      /\ m.game_length \in Value("game_length")
      /\ m.explosion_radius \in Value("explosion_radius")
      /\ m.bomb_timer \in Value("bomb_timer")
  BY DEF AnyHello
<1>3. CutString(m.server_name) \in AnyString
       /\ String(CutString(m.server_name)) = String(m.server_name)
  BY <1>2, CutTwice
<1>4. c.size \in AnyPosition
  BY <1>1, <1>2 DEF AnyPosition
<1>5. IsSettings(c)
  BY <1>1, <1>2, <1>3, <1>4 DEF IsSettings
<1>6. Settings(c) = Settings(m)
  BY <1>1, <1>3, Zenon DEF Settings
<1> QED BY <1>5, <1>6 DEF c

LEMMA LobbyOfFields ==
  ASSUME NEW h, NEW p
  PROVE  /\ LobbyOf(h, p).type = "Lobby" /\ LobbyOf(h, p).players = p
         /\ IsSettings(h) => IsSettings(LobbyOf(h, p))
         /\ Settings(LobbyOf(h, p)) = Settings(h)
<1> DEFINE l == LobbyOf(h, p)
<1>1. /\ l.type = "Lobby" /\ l.players = p /\ l.server_name = h.server_name
      /\ l.players_count = h.players_count /\ l.size = h.size
      /\ l.game_length = h.game_length /\ l.explosion_radius = h.explosion_radius
      /\ l.bomb_timer = h.bomb_timer
  BY DEF LobbyOf
<1> HIDE DEF l
<1>2. Settings(l) = Settings(h)
  BY <1>1, Zenon DEF Settings
<1>3. IsSettings(h) => IsSettings(l)
  BY <1>1 DEF IsSettings
<1> QED BY <1>1, <1>2, <1>3 DEF l

\* The two lobbies look the same to the GUI.
LEMMA LobbyLooks ==
  ASSUME NEW k, SinceInv(k), NEW l, IsLobby(l, k)
  PROVE  GuiElements(l) \in Seq(Element) /\ GuiElements(l) = GuiElements(LobbyView(k))
<1> DEFINE told == PlayersTold(k)
           v == LobbyView(k)
           h == Script[1]
<1>1. PICK players :
        /\ l = LobbyOf(CutHello(h), players)
        /\ DOMAIN players = DOMAIN told
        /\ \A id \in DOMAIN players : players[id] = CutPlayer(told[id])
  BY DEF IsLobby
<1>2. h \in AnyHello
  <2>1. 1 \in DOMAIN Script
    BY ScriptProperties DEF SinceInv
  <2> QED BY <2>1, ScriptBegins
<1>3. IsByPlayer(told, AnyPlayer)
  BY PlayersToldAre
<1> HIDE DEF told, h
<1>4. IsSettings(h)
  BY <1>2 DEF IsSettings, AnyHello
<1>5. IsSettings(CutHello(h)) /\ Settings(CutHello(h)) = Settings(h)
  BY <1>2, CutHelloType
<1>6. /\ l.type = "Lobby" /\ IsSettings(l) /\ Settings(l) = Settings(h) /\ l.players = players
  BY <1>1, <1>5, LobbyOfFields
<1>7. v.type = "Lobby" /\ IsSettings(v) /\ Settings(v) = Settings(h) /\ v.players = told
  BY <1>4, LobbyOfFields DEF LobbyView, told, h
<1>8. ASSUME NEW id \in DOMAIN told
      PROVE  players[id] \in AnyPlayer /\ Player(players[id]) = Player(told[id])
  <2>1. told[id] \in AnyPlayer
    BY <1>3 DEF IsByPlayer
  <2>2. players[id] = CutPlayer(told[id])
    BY <1>1
  <2> QED BY <2>1, <2>2, CutPlayerType
<1>9. IsByPlayer(players, AnyPlayer)
  BY <1>1, <1>3, <1>8 DEF IsByPlayer
<1>10. Players(players) = Players(told)
  <2>1. [id \in DOMAIN players |-> Player(players[id])]
          = [id \in DOMAIN told |-> Player(told[id])]
    BY <1>1, <1>8, Zenon
  <2> QED BY <2>1, Zenon DEF Players
<1> HIDE DEF v
<1>11. /\ GuiElements(l)
            = E("gui_message", GuiCodes["Lobby"]) \o (Settings(l) \o Players(l.players))
       /\ GuiElements(l) \in Seq(Element)
  BY <1>6, <1>9, LobbyType
<1>12. GuiElements(v)
         = E("gui_message", GuiCodes["Lobby"]) \o (Settings(v) \o Players(v.players))
  <2>1. IsByPlayer(v.players, AnyPlayer)
    BY <1>3, <1>7, Zenon
  <2>2. v.type = "Lobby" /\ IsSettings(v)
    BY <1>7
  <2> QED BY <2>1, <2>2, LobbyType
<1>13. GuiElements(l) = GuiElements(v)
  BY <1>6, <1>7, <1>10, <1>11, <1>12, Zenon
<1> QED BY <1>11, <1>13 DEF v

LEMMA LobbyBegins ==
  ASSUME NEW k, SinceInv(k), Told(k) = {}, NEW l, l = NewLobby(CutHello(Script[1]))
  PROVE  IsLobby(l, k)
<1>1. l = LobbyOf(CutHello(Script[1]), <<>>)
  BY DEF NewLobby
<1>2. DOMAIN PlayersTold(k) = {}
  BY DEF PlayersTold
<1> DEFINE none == <<>>
<1>3. DOMAIN none = {}
  OBVIOUS
<1> HIDE DEF none
<1>4. /\ l = LobbyOf(CutHello(Script[1]), none)
      /\ DOMAIN none = DOMAIN PlayersTold(k)
      /\ \A id \in DOMAIN none : none[id] = CutPlayer(PlayersTold(k)[id])
  BY <1>1, <1>2, <1>3 DEF none
<1> QED BY <1>4 DEF IsLobby

LEMMA LobbyStays ==
  ASSUME NEW k, SinceInv(k), SinceInv(k + 1), NEW l, IsLobby(l, k), Told(k + 1) = Told(k)
  PROVE  IsLobby(l, k + 1)
<1> DEFINE old == PlayersTold(k)
           new == PlayersTold(k + 1)
<1>1. DOMAIN old = {m.id : m \in Told(k)} /\ \A m \in Told(k) : old[m.id] = m.player
  BY PlayersToldAre
<1>2. DOMAIN new = {m.id : m \in Told(k)} /\ \A m \in Told(k) : new[m.id] = m.player
  BY PlayersToldAre
<1> HIDE DEF old, new
<1>3. DOMAIN old = DOMAIN new /\ \A id \in DOMAIN old : old[id] = new[id]
  BY <1>1, <1>2
<1>4. PICK players :
        /\ l = LobbyOf(CutHello(Script[1]), players) /\ DOMAIN players = DOMAIN old
        /\ \A id \in DOMAIN players : players[id] = CutPlayer(old[id])
  BY DEF IsLobby, old
<1>5. /\ l = LobbyOf(CutHello(Script[1]), players) /\ DOMAIN players = DOMAIN new
      /\ \A id \in DOMAIN players : players[id] = CutPlayer(new[id])
  BY <1>3, <1>4
<1> QED BY <1>5 DEF IsLobby, new

LEMMA LobbyAccepts ==
  ASSUME NEW k, SinceInv(k), k + 1 \in DOMAIN Script,
         Script[k + 1].type = "AcceptedPlayer",
         NEW l, IsLobby(l, k), NEW m, m.id = Script[k + 1].id,
         m.player = CutPlayer(Script[k + 1].player)
  PROVE  IsLobby([l EXCEPT !.players = Inserted(@, m.id, m.player)], k + 1)
<1> DEFINE a == Script[k + 1]
           h == CutHello(Script[1])
           old == PlayersTold(k)
           new == PlayersTold(k + 1)
<1>1. PICK players :
        /\ l = LobbyOf(h, players) /\ DOMAIN players = DOMAIN old
        /\ \A id \in DOMAIN players : players[id] = CutPlayer(old[id])
  BY DEF IsLobby
<1> DEFINE p == Inserted(players, m.id, m.player)
<1>2. [l EXCEPT !.players = Inserted(@, m.id, m.player)] = LobbyOf(h, p)
  <2> HIDE DEF h
  <2> QED BY <1>1 DEF LobbyOf
<1>3. SinceInv(k + 1) /\ Told(k + 1) = Told(k) \union {a}
  BY SinceStays, ToldGrows
<1>4. /\ DOMAIN old = {n.id : n \in Told(k)}
      /\ \A n \in Told(k) : old[n.id] = n.player
  BY PlayersToldAre
<1>5. /\ DOMAIN new = {n.id : n \in Told(k + 1)}
      /\ \A n \in Told(k + 1) : new[n.id] = n.player
  BY <1>3, PlayersToldAre
<1> HIDE DEF a, h, old, new
<1>6. DOMAIN new = DOMAIN old \union {a.id} /\ new[a.id] = a.player
      /\ \A id \in DOMAIN old : new[id] = old[id]
  BY <1>3, <1>4, <1>5
<1>7. m.id = a.id /\ m.player = CutPlayer(a.player)
  BY DEF a
<1>8. DOMAIN p = DOMAIN new
  BY <1>1, <1>6, <1>7 DEF Inserted
<1>9. ASSUME NEW id \in DOMAIN p PROVE p[id] = CutPlayer(new[id])
  <2>1. CASE id \in DOMAIN players
    BY <2>1, <1>1, <1>6 DEF Inserted
  <2>2. CASE id \notin DOMAIN players
    <3>1. id = a.id /\ p[id] = m.player
      BY <2>2, <1>1, <1>6, <1>7, <1>8 DEF Inserted
    <3> QED BY <3>1, <1>6, <1>7
  <2> QED BY <2>1, <2>2
<1> HIDE DEF p
<1> QED BY <1>2, <1>8, <1>9 DEF IsLobby, h, new

-----------------------------------------------------------------------------
(* What has been drawn                                                     *)

Shown(k) == IF Script[k].type = "GameStarted" THEN <<>> ELSE <<k>>
Drawn(n) == FlattenSeq([k \in 1 .. n |-> Shown(k)])

LEMMA DrawnNothing == Drawn(0) = <<>>
<1> DEFINE f == [k \in 1 .. 0 |-> Shown(k)]
<1>1. f = <<>>
  OBVIOUS
<1> HIDE DEF f
<1> QED BY <1>1, FlattenEmpty DEF Drawn, f

LEMMA DrawnGrows ==
  ASSUME NEW n \in Nat
  PROVE  Drawn(n) \in Seq(Nat) /\ Drawn(n + 1) = Drawn(n) \o Shown(n + 1)
<1> DEFINE f == [k \in 1 .. n |-> Shown(k)]
           g == [k \in 1 .. n + 1 |-> Shown(k)]
           x == Shown(n + 1)
<1>1. \A k \in 1 .. n + 1 : Shown(k) \in Seq(Nat)
  BY DEF Shown
<1>2. /\ f \in Seq(Seq(Nat)) /\ Len(f) = n /\ \A k \in 1 .. n : f[k] = Shown(k)
  <2>1. f \in [1 .. n -> Seq(Nat)]
    BY <1>1
  <2> QED BY <2>1
<1>3. /\ g \in Seq(Seq(Nat)) /\ Len(g) = n + 1 /\ \A k \in 1 .. n + 1 : g[k] = Shown(k)
  <2>1. g \in [1 .. n + 1 -> Seq(Nat)]
    BY <1>1
  <2> QED BY <2>1
<1>4. x \in Seq(Nat)
  BY <1>1
<1>5. g[n + 1] = x
  BY <1>3
<1>6. Drawn(n) = FlattenSeq(f) /\ Drawn(n + 1) = FlattenSeq(g)
  BY DEF Drawn
<1> HIDE DEF f, g, x
<1>7. g = Append(f, x)
  <2> DEFINE h == Append(f, x)
  <2>1. h \in Seq(Seq(Nat)) /\ Len(h) = n + 1 /\ h[n + 1] = x /\ \A k \in 1 .. n : h[k] = f[k]
    <3> DEFINE S == Seq(Nat)
    <3>1. f \in Seq(S) /\ Len(f) = n /\ x \in S
      BY <1>2, <1>4
    <3> HIDE DEF S
    <3>2. h \in Seq(S) /\ Len(h) = n + 1 /\ h[n + 1] = x /\ \A k \in 1 .. n : h[k] = f[k]
      BY <3>1
    <3> QED BY <3>2 DEF S
  <2> HIDE DEF h
  <2>2. ASSUME NEW k \in 1 .. n + 1 PROVE g[k] = h[k]
    <3>1. CASE k = n + 1
      BY <3>1, <2>1, <1>5
    <3>2. CASE k \in 1 .. n
      BY <3>2, <2>1, <1>2, <1>3
    <3> QED BY <3>1, <3>2
  <2>3. g = h
    BY <2>1, <2>2, <1>3, SeqEqual
  <2> QED BY <2>3 DEF h
<1>8. f \in Lists(Nat)
  BY <1>2 DEF Lists
<1>9. FlattenSeq(g) = FlattenSeq(f) \o x
  BY <1>4, <1>7, <1>8, FlattenAppend, Zenon
<1>10. FlattenSeq(f) \in Seq(Nat)
  BY <1>8, FlattenType
<1> QED BY <1>6, <1>9, <1>10 DEF x

-----------------------------------------------------------------------------
(* The GUI sees every message                                              *)

\* How many messages the client has handled.
Seen == Len(received) - (IF receiver = "handling" THEN 1 ELSE 0)

IsView(d, k) ==
  Len(d) <= MaxDatagram /\ \E view \in ViewsMeant(k) : d = InNetworkOrder(view)

ScriptInv ==
  /\ Len(sent) <= Len(Script)
  /\ \A k \in 1 .. Len(sent) : sent[k] = ServerElements(Script[k])

DrawnInv(n) ==
  /\ n > 0 => SinceInv(n) /\ IsLobby(lobby, n)
  /\ datagrams \in Seq(Seq(Bytes))
  /\ Len(datagrams) <= Len(Drawn(n))
  /\ receiver # "thrown" => Len(datagrams) = Len(Drawn(n))
  /\ \A i \in 1 .. Len(datagrams) : IsView(datagrams[i], Drawn(n)[i])

GuiInv ==
  /\ receiver = "handling" => Len(received) > 0
  /\ direction = "down" => ScriptInv /\ DrawnInv(Seen)

LEMMA InitGui == Init => GuiInv
<1> SUFFICES ASSUME Init PROVE GuiInv
  OBVIOUS
<1>1. /\ sent = <<>> /\ received = <<>> /\ receiver = "reading" /\ datagrams = <<>>
  BY DEF Init, StreamInit
<1>2. Seen = 0
  BY <1>1 DEF Seen
<1>3. ScriptInv
  BY <1>1, ScriptProperties DEF ScriptInv
<1>4. Len(Drawn(0)) = 0
  BY DrawnNothing
<1>5. DrawnInv(0)
  BY <1>1, <1>4 DEF DrawnInv
<1> QED BY <1>1, <1>2, <1>3, <1>5 DEF GuiInv

LEMMA SeenType ==
  ASSUME WireInv, GuiInv
  PROVE  /\ Len(received) \in Nat /\ Len(sent) \in Nat /\ Len(received) <= Len(sent)
         /\ Seen \in Nat
         /\ receiver = "handling" => Seen + 1 = Len(received)
         /\ receiver # "handling" => Seen = Len(received)
<1>1. Len(received) \in Nat /\ Len(sent) \in Nat /\ Len(received) <= Len(sent)
  BY ReceivedIsPrefix DEF WireInv
<1> QED BY <1>1 DEF Seen, GuiInv

\* The client handles the message of the script that comes next.
LEMMA HandledIs ==
  ASSUME WireInv, GuiInv, NEW kind \in DOMAIN ServerCodes, Handled(kind)
  PROVE  /\ direction = "down" /\ receiver = "handling" /\ Seen \in Nat
         /\ Len(received) = Seen + 1
         /\ Seen + 1 \in DOMAIN Script /\ Script[Seen + 1].type = kind
         /\ Last(received) = ServerElements(Script[Seen + 1])
         /\ received[1] = ServerElements(Script[1])
         /\ kind # "Hello" => Seen > 0
<1> DEFINE n == Seen
<1>1. direction = "down" /\ receiver = "handling" /\ ScriptInv
  BY DEF Handled, GuiInv
<1>2. /\ n \in Nat /\ Len(received) = n + 1 /\ n + 1 <= Len(sent)
      /\ Len(sent) \in Nat
  BY <1>1, SeenType
<1> HIDE DEF n
<1>3. \A k \in 1 .. n + 1 : received[k] = sent[k]
  BY <1>2, ReceivedIsPrefix DEF WireInv
<1>4. \A k \in 1 .. n + 1 : received[k] = ServerElements(Script[k])
  BY <1>1, <1>2, <1>3 DEF ScriptInv
<1>5. n + 1 \in DOMAIN Script
  BY <1>1, <1>2, ScriptProperties DEF ScriptInv
<1> DEFINE m == Script[n + 1]
<1>6. IsServerMessage(m) /\ (m.type = "Hello" <=> n + 1 = 1)
  BY <1>5, ScriptProperties
<1>7. received[1] = ServerElements(Script[1]) /\ Last(received) = ServerElements(m)
  BY <1>2, <1>4 DEF Last
<1>8. ServerElements(m)[1].value = ServerCodes[kind]
  BY <1>7 DEF Handled
<1>9. m.type \in DOMAIN ServerCodes /\ ServerElements(m)[1].value = ServerCodes[m.type]
  <2> HIDE DEF m
  <2> QED BY <1>6, ReadsServerMessage
<1>10. m.type = kind
  <2> HIDE DEF m
  <2> QED BY <1>8, <1>9 DEF ServerCodes
<1> QED BY <1>1, <1>2, <1>5, <1>6, <1>7, <1>10 DEF n

LEMMA ViewsMeantAre ==
  ASSUME NEW k
  PROVE  /\ Script[k].type = "Turn" => ViewsMeant(k) = GameViews
         /\ Script[k].type # "Turn" => ViewsMeant(k) = {LobbyView(k)}
BY Zenon DEF ViewsMeant, LobbyView, PlayersTold, Told, Since

\* What is drawn after message n + 1.
LEMMA DrawsOne ==
  ASSUME NEW n \in Nat, DrawnInv(n), receiver = "handling",
         Script[n + 1].type # "GameStarted",
         SinceInv(n + 1), IsLobby(lobby', n + 1),
         \/ /\ receiver' = "reading"
            /\ \E d \in Seq(Bytes) : datagrams' = Append(datagrams, d) /\ IsView(d, n + 1)
         \/ receiver' = "thrown" /\ datagrams' = datagrams
  PROVE  DrawnInv(n + 1)'
<1> DEFINE x == Drawn(n)
           y == Drawn(n + 1)
           D == Seq(Bytes)
<1>1. x \in Seq(Nat) /\ y = x \o <<n + 1>>
  BY DrawnGrows DEF Shown
<1>2. /\ Len(y) = Len(x) + 1 /\ Len(x) \in Nat /\ y[Len(x) + 1] = n + 1
      /\ \A i \in 1 .. Len(x) : y[i] = x[i]
  <2> HIDE DEF x, y
  <2> QED BY <1>1
<1>3. /\ datagrams \in Seq(D) /\ Len(datagrams) = Len(x)
      /\ \A i \in 1 .. Len(datagrams) : IsView(datagrams[i], x[i])
  BY DEF DrawnInv
<1> HIDE DEF x, y, D
<1>4. CASE receiver' = "thrown" /\ datagrams' = datagrams
  <2>1. \A i \in 1 .. Len(datagrams) : IsView(datagrams[i], y[i])
    BY <1>2, <1>3
  <2>2. \A i \in 1 .. Len(datagrams') : IsView(datagrams[i], y[i])'
    BY <1>4, <2>1 DEF y, IsView, ViewsMeant, InNetworkOrder
  <2> QED BY <1>2, <1>3, <1>4, <2>2 DEF DrawnInv, x, y, D
<1>5. ASSUME NEW d \in D, receiver' = "reading",
             datagrams' = Append(datagrams, d), IsView(d, n + 1)
      PROVE  DrawnInv(n + 1)'
  <2> DEFINE e == Append(datagrams, d)
  <2>1. /\ e \in Seq(D) /\ Len(e) = Len(x) + 1 /\ e[Len(x) + 1] = d
        /\ \A i \in 1 .. Len(x) : e[i] = datagrams[i]
    BY <1>2, <1>3
  <2>2. datagrams' = e
    BY <1>5
  <2> HIDE DEF e
  <2>3. ASSUME NEW i \in 1 .. Len(e) PROVE IsView(e[i], y[i])
    <3>1. CASE i = Len(x) + 1
      BY <3>1, <1>2, <1>5, <2>1
    <3>2. CASE i \in 1 .. Len(x)
      BY <3>2, <1>2, <1>3, <2>1
    <3> QED BY <2>1, <3>1, <3>2, <1>2
  <2>4. Len(datagrams') = Len(y)
    BY <1>2, <2>1, <2>2
  <2>5. Len(y) \in Nat
    BY <1>2
  <2> QED BY <1>5, <2>1, <2>2, <2>3, <2>4, <2>5 DEF DrawnInv, y, D
<1> QED BY <1>4, <1>5 DEF D

-----------------------------------------------------------------------------

LEMMA DrawStep ==
  ASSUME WireInv, GuiInv, direction = "down", receiver = "handling", Seen + 1 \in DOMAIN Script,
         Script[Seen + 1].type # "GameStarted", SinceInv(Seen + 1), IsLobby(lobby', Seen + 1),
         NEW view, Draw(view), GuiElements(view) \in Seq(Element),
         \E meant \in ViewsMeant(Seen + 1) : GuiElements(meant) = GuiElements(view)
  PROVE  GuiInv'
<1>0. Seen \in Nat /\ Len(received) = Seen + 1
  BY SeenType
<1> PICK n \in Nat : n = Seen
  BY <1>0
<1> DEFINE k == n + 1
           x == GuiElements(view)
           d == Encode(x)
<1>1. n \in Nat /\ Len(received) = k
  BY <1>0
<1>2. x \in Seq(Element)
  OBVIOUS
<1>3. gui_out = <<>> /\ DOMAIN x = 1 .. Len(x)
  BY <1>2 DEF WireInv
<1>4. d \in Seq(Bytes)
  BY <1>2, EncodeType
<1>5. FlattenSeq([j \in DOMAIN x |-> Written("client", x[j])]) = d
  <2>1. ASSUME NEW j \in DOMAIN x PROVE Written("client", x[j]) = Octets(x[j])
    <3>1. x[j] \in Element
      BY <1>2, <1>3
    <3> QED BY <3>1, OctetsType
  <2> HIDE DEF x
  <2>2. [j \in DOMAIN x |-> Written("client", x[j])] = [j \in DOMAIN x |-> Octets(x[j])]
    BY <2>1, Zenon
  <2> QED BY <2>2, Zenon DEF Encode
<1>6. gui_out \o FlattenSeq([j \in DOMAIN x |-> Written("client", x[j])]) = d
  BY <1>3, <1>4, <1>5
<1> DEFINE packet == gui_out \o FlattenSeq([j \in DOMAIN x |-> Written("client", x[j])])
<1>7. \/ /\ Len(d) <= MaxDatagram /\ datagrams' = Append(datagrams, d)
         /\ receiver' = "reading"
      \/ receiver' = "thrown" /\ datagrams' = datagrams
  <2>1. \/ /\ FlushOutcomingPacket(packet) /\ receiver' = "reading"
        \/ receiver' = "thrown" /\ datagrams' = datagrams
    BY Zenon DEF Draw, SendGuiMessage, packet
  <2>2. packet = d
    BY <1>6
  <2> HIDE DEF packet, d
  <2> QED BY <2>1, <2>2 DEF FlushOutcomingPacket
<1>8. ASSUME Len(d) <= MaxDatagram PROVE IsView(d, k)
  <2>1. PICK meant \in ViewsMeant(k) : GuiElements(meant) = x
    OBVIOUS
  <2>2. InNetworkOrder(meant) = d
    BY <2>1, Zenon DEF InNetworkOrder, Encode, Octets
  <2> HIDE DEF d, k
  <2> QED BY <1>8, <2>1, <2>2 DEF IsView
<1>9. UNCHANGED <<direction, sent, received>>
  BY DEF Draw, sending
<1>10. Seen' = k
  BY <1>1, <1>7, <1>9 DEF Seen
<1>11. ScriptInv' /\ DrawnInv(n)
  BY <1>9 DEF GuiInv, ScriptInv
<1> HIDE DEF d, x, packet
<1>12. \/ /\ receiver' = "reading"
          /\ \E c \in Seq(Bytes) : datagrams' = Append(datagrams, c) /\ IsView(c, k)
       \/ receiver' = "thrown" /\ datagrams' = datagrams
  BY <1>4, <1>7, <1>8
<1>13. DrawnInv(k)'
  BY <1>11, <1>12, DrawsOne
<1>14. direction' = direction /\ receiver' # "handling"
  BY <1>7, <1>9
<1>15. DrawnInv(Seen)'
  BY <1>10, <1>13 DEF DrawnInv
<1> QED BY <1>11, <1>14, <1>15 DEF GuiInv

\* A step that handles nothing of what has been read.
LEMMA SameGui ==
  ASSUME GuiInv, UNCHANGED <<direction, lobby, datagrams>>,
         direction = "down" => ScriptInv' /\ Seen' = Seen,
         receiver' = "handling" => Len(received') > 0,
         receiver' # "thrown" => receiver # "thrown"
  PROVE  GuiInv'
<1>1. CASE direction = "down"
  <2>1. DrawnInv(Seen)
    BY <1>1 DEF GuiInv
  <2>2. DrawnInv(Seen)'
    BY <2>1, <1>1 DEF DrawnInv, SinceInv, IsLobby, IsView
  <2> QED BY <1>1, <2>2 DEF GuiInv
<1>2. CASE direction # "down"
  BY <1>2 DEF GuiInv
<1> QED BY <1>1, <1>2

LEMMA ServerWritesGui ==
  ASSUME WireInv, GuiInv, ServerWrites
  PROVE  GuiInv'
<1> DEFINE m == ServerElements(Script[Len(sent) + 1])
           n == Len(sent)
<1>1. /\ direction = "down" /\ n < Len(Script) /\ sent' = Append(sent, m)
      /\ UNCHANGED <<direction, receiver, received, lobby, datagrams>>
  BY DEF ServerWrites, Write, guiVars, receiving
<1>2. /\ n \in Nat /\ Len(sent') = n + 1 /\ sent'[n + 1] = m
      /\ \A k \in 1 .. n : sent'[k] = sent[k]
  <2>1. sent \in Lists(Element) /\ sent' \in Lists(Element)
    BY NextInv DEF WireInv, StreamInv, Histories, Next
  <2> HIDE DEF m
  <2> QED BY <1>1, <2>1 DEF Lists
<1>3. ScriptInv
  BY <1>1 DEF GuiInv
<1>4. ASSUME NEW k \in 1 .. n + 1 PROVE sent'[k] = ServerElements(Script[k])
  <2>1. CASE k = n + 1
    BY <2>1, <1>2
  <2>2. CASE k \in 1 .. n
    BY <2>2, <1>2, <1>3 DEF ScriptInv
  <2> QED BY <1>2, <2>1, <2>2
<1>5. ScriptInv'
  BY <1>1, <1>2, <1>4, ScriptProperties DEF ScriptInv
<1>6. Seen' = Seen
  BY <1>1 DEF Seen
<1> QED BY <1>1, <1>5, <1>6, SameGui DEF GuiInv

LEMMA StreamGui ==
  ASSUME WireInv, GuiInv, Stream
  PROVE  GuiInv'
<1>1. UNCHANGED <<direction, lobby, datagrams, sent>>
  BY DEF Stream, guiVars, StreamNext, SendElement, SendFails, ReceiveFails, SendBytes,
         ReceiveBytes, ReadElement, sending, receiving
<1>2. \/ UNCHANGED <<receiver, received>>
      \/ receiver = "reading" /\ receiver' = "thrown" /\ UNCHANGED received
      \/ /\ receiver = "reading" /\ receiver' = "handling"
         /\ \E all : received' = Append(received, all)
  BY DEF Stream, StreamNext, SendElement, SendFails, ReceiveFails, SendBytes,
         ReceiveBytes, ReadElement, sending, receiving
<1>3. received \in Lists(Element) /\ Len(received) \in Nat
  BY SeenType DEF WireInv, StreamInv, Histories
<1>4. ASSUME receiver' = "handling", receiver = "reading", NEW all, received' = Append(received, all)
      PROVE  Len(received') = Len(received) + 1
  BY <1>3, <1>4 DEF Lists
<1>5. Seen' = Seen /\ (receiver' = "handling" => Len(received') > 0)
  BY <1>2, <1>3, <1>4 DEF Seen, GuiInv
<1>6. direction = "down" => ScriptInv'
  BY <1>1 DEF GuiInv, ScriptInv
<1> QED BY <1>1, <1>2, <1>5, <1>6, SameGui

LEMMA HelloGui ==
  ASSUME WireInv, GuiInv, ClientHello
  PROVE  GuiInv'
<1>1. Handled("Hello") /\ lobby' = NewLobby(HelloRead(Last(received))) /\ Draw(lobby')
  BY DEF ClientHello
<1>2. /\ direction = "down" /\ receiver = "handling" /\ Seen \in Nat
      /\ Seen + 1 \in DOMAIN Script /\ Script[Seen + 1].type = "Hello"
      /\ Last(received) = ServerElements(Script[Seen + 1])
  BY <1>1, HandledIs DEF ServerCodes
<1> PICK k \in Nat : k = Seen + 1
  BY <1>2
<1>3. k = 1 /\ Script[1] \in AnyHello
  BY <1>2, ScriptProperties, ScriptBegins
<1>4. SinceInv(k) /\ Told(k) = {}
  BY <1>2, SinceBegins
<1>5. lobby' = NewLobby(CutHello(Script[1]))
  BY <1>1, <1>2, <1>3, HelloIsRead
<1> PICK l : l = lobby'
  OBVIOUS
<1>6. IsLobby(l, k)
  BY <1>4, <1>5, LobbyBegins
<1>7. GuiElements(l) \in Seq(Element) /\ GuiElements(l) = GuiElements(LobbyView(k))
  BY <1>4, <1>6, LobbyLooks
<1>8. LobbyView(k) \in ViewsMeant(k)
  BY <1>2, ViewsMeantAre
<1>9. \E meant \in ViewsMeant(Seen + 1) : GuiElements(meant) = GuiElements(l)
  BY <1>7, <1>8
<1>10. /\ SinceInv(Seen + 1) /\ IsLobby(lobby', Seen + 1) /\ Draw(l)
       /\ Script[Seen + 1].type # "GameStarted"
  BY <1>1, <1>2, <1>4, <1>6
<1> QED BY <1>2, <1>7, <1>9, <1>10, DrawStep

LEMMA GameEndedGui ==
  ASSUME WireInv, GuiInv, ClientGameEnded
  PROVE  GuiInv'
<1>1. Handled("GameEnded") /\ lobby' = NewLobby(HelloRead(received[1])) /\ Draw(lobby')
  BY DEF ClientGameEnded
<1>2. /\ direction = "down" /\ receiver = "handling" /\ Seen \in Nat
      /\ Seen + 1 \in DOMAIN Script /\ Script[Seen + 1].type = "GameEnded"
      /\ received[1] = ServerElements(Script[1])
  BY <1>1, HandledIs DEF ServerCodes
<1> PICK k \in Nat : k = Seen + 1
  BY <1>2
<1>3. Script[1] \in AnyHello
  BY <1>2, ScriptProperties, ScriptBegins
<1>4. SinceInv(k) /\ Told(k) = {}
  BY <1>2, SinceBegins
<1>5. lobby' = NewLobby(CutHello(Script[1]))
  BY <1>1, <1>2, <1>3, HelloIsRead
<1> PICK l : l = lobby'
  OBVIOUS
<1>6. IsLobby(l, k)
  BY <1>4, <1>5, LobbyBegins
<1>7. GuiElements(l) \in Seq(Element) /\ GuiElements(l) = GuiElements(LobbyView(k))
  BY <1>4, <1>6, LobbyLooks
<1>8. LobbyView(k) \in ViewsMeant(k)
  BY <1>2, ViewsMeantAre
<1>9. \E meant \in ViewsMeant(Seen + 1) : GuiElements(meant) = GuiElements(l)
  BY <1>7, <1>8
<1>10. /\ SinceInv(Seen + 1) /\ IsLobby(lobby', Seen + 1) /\ Draw(l)
       /\ Script[Seen + 1].type # "GameStarted"
  BY <1>1, <1>2, <1>4, <1>6
<1> QED BY <1>2, <1>7, <1>9, <1>10, DrawStep

LEMMA AcceptedPlayerGui ==
  ASSUME WireInv, GuiInv, ClientAcceptedPlayer
  PROVE  GuiInv'
<1> PICK m : m = AcceptedPlayerRead(Last(received))
  OBVIOUS
<1>1. /\ Handled("AcceptedPlayer") /\ Draw(lobby')
      /\ lobby' = [lobby EXCEPT !.players = Inserted(@, m.id, m.player)]
  BY DEF ClientAcceptedPlayer
<1>2. /\ direction = "down" /\ receiver = "handling" /\ Seen \in Nat /\ Seen > 0
      /\ Seen + 1 \in DOMAIN Script /\ Script[Seen + 1].type = "AcceptedPlayer"
      /\ Last(received) = ServerElements(Script[Seen + 1])
  BY <1>1, HandledIs DEF ServerCodes
<1> PICK n \in Nat : n = Seen
  BY <1>2
<1>3. SinceInv(n) /\ IsLobby(lobby, n)
  BY <1>2 DEF GuiInv, DrawnInv
<1>4. n + 1 \in DOMAIN Script /\ Script[n + 1].type = "AcceptedPlayer"
  BY <1>2
<1>5. m.id = Script[n + 1].id /\ m.player = CutPlayer(Script[n + 1].player)
  BY <1>2, <1>4, ScriptAccepts, AcceptedPlayerIsRead
<1> PICK old : old = lobby
  OBVIOUS
<1> PICK l : l = [old EXCEPT !.players = Inserted(@, m.id, m.player)]
  OBVIOUS
<1>6. IsLobby(l, n + 1)
  BY <1>3, <1>4, <1>5, LobbyAccepts
<1>7. l = lobby'
  BY <1>1
<1>8. SinceInv(n + 1)
  BY <1>3, <1>4, SinceStays
<1>9. GuiElements(l) \in Seq(Element) /\ GuiElements(l) = GuiElements(LobbyView(n + 1))
  BY <1>6, <1>8, LobbyLooks
<1>10. LobbyView(n + 1) \in ViewsMeant(n + 1)
  BY <1>4, ViewsMeantAre
<1>11. \E meant \in ViewsMeant(Seen + 1) : GuiElements(meant) = GuiElements(l)
  BY <1>9, <1>10
<1>12. /\ SinceInv(Seen + 1) /\ IsLobby(lobby', Seen + 1) /\ Draw(l)
       /\ Script[Seen + 1].type # "GameStarted"
  BY <1>1, <1>2, <1>6, <1>7, <1>8
<1> QED BY <1>2, <1>9, <1>11, <1>12, DrawStep

\* A message after which the lobby is the one that it was.
LEMMA OtherMessages ==
  ASSUME NEW n \in Nat, DrawnInv(n), n > 0, n + 1 \in DOMAIN Script,
         Script[n + 1].type \in {"GameStarted", "Turn"}
  PROVE  SinceInv(n + 1) /\ IsLobby(lobby, n + 1)
<1>1. SinceInv(n) /\ IsLobby(lobby, n)
  BY DEF DrawnInv
<1>2. SinceInv(n + 1) /\ Told(n + 1) = Told(n)
  BY <1>1, SinceStays, ToldStays
<1> PICK l : l = lobby
  OBVIOUS
<1>3. IsLobby(l, n + 1)
  BY <1>1, <1>2, LobbyStays
<1> QED BY <1>2, <1>3

LEMMA TurnGui ==
  ASSUME WireInv, GuiInv, NEW view \in GameViews, ClientTurn(view)
  PROVE  GuiInv'
<1>1. Handled("Turn") /\ Draw(view) /\ UNCHANGED lobby
  BY DEF ClientTurn
<1>2. /\ direction = "down" /\ receiver = "handling" /\ Seen \in Nat /\ Seen > 0
      /\ Seen + 1 \in DOMAIN Script /\ Script[Seen + 1].type = "Turn"
  BY <1>1, HandledIs DEF ServerCodes
<1> PICK n \in Nat : n = Seen
  BY <1>2
<1>3. SinceInv(n + 1) /\ IsLobby(lobby, n + 1)
  BY <1>2, OtherMessages DEF GuiInv
<1>4. GuiElements(view) \in Seq(Element)
  BY WireAssumption, GameType
<1>5. view \in ViewsMeant(Seen + 1)
  BY <1>2, ViewsMeantAre
<1>6. \E meant \in ViewsMeant(Seen + 1) : GuiElements(meant) = GuiElements(view)
  BY <1>5
<1>7. /\ SinceInv(Seen + 1) /\ IsLobby(lobby', Seen + 1)
      /\ Script[Seen + 1].type # "GameStarted"
  BY <1>1, <1>2, <1>3
<1> QED BY <1>1, <1>2, <1>4, <1>6, <1>7, DrawStep

LEMMA GameStartedGui ==
  ASSUME WireInv, GuiInv, ClientGameStarted
  PROVE  GuiInv'
<1>1. /\ Handled("GameStarted") /\ receiver' = "reading"
      /\ UNCHANGED <<direction, sent, received, lobby, datagrams>>
  BY DEF ClientGameStarted, guiVars, sending
<1>2. /\ direction = "down" /\ receiver = "handling" /\ Seen \in Nat /\ Seen > 0
      /\ Len(received) = Seen + 1
      /\ Seen + 1 \in DOMAIN Script /\ Script[Seen + 1].type = "GameStarted"
  BY <1>1, HandledIs DEF ServerCodes
<1> PICK n \in Nat : n = Seen
  BY <1>2
<1>3. SinceInv(n + 1) /\ IsLobby(lobby, n + 1)
  BY <1>2, OtherMessages DEF GuiInv
<1>4. Drawn(n + 1) = Drawn(n)
  <2>1. Drawn(n) \in Seq(Nat) /\ Drawn(n + 1) = Drawn(n) \o <<>>
    BY <1>2, DrawnGrows DEF Shown
  <2> QED BY <2>1
<1>5. DrawnInv(n)
  BY <1>2 DEF GuiInv
<1>6. DrawnInv(n + 1)'
  BY <1>1, <1>2, <1>3, <1>4, <1>5 DEF DrawnInv, SinceInv, IsLobby, IsView
<1>7. Seen' = n + 1
  BY <1>1, <1>2 DEF Seen
<1>8. DrawnInv(Seen)'
  BY <1>6, <1>7 DEF DrawnInv
<1>9. ScriptInv'
  BY <1>1, <1>2 DEF GuiInv, ScriptInv
<1> QED BY <1>1, <1>8, <1>9 DEF GuiInv

LEMMA NextGui ==
  ASSUME WireInv, GuiInv, [Next]_vars
  PROVE  GuiInv'
<1>1. ASSUME NEW p \in Packets, GuiNoise(p) \/ GuiInput(p) PROVE GuiInv'
  BY <1>1 DEF GuiNoise, GuiInput, GuiPacket, Write, streamVars, receiving, GuiInv
<1>2. CASE ServerHandles
  BY <1>2 DEF ServerHandles, guiVars, GuiInv
<1>3. CASE ClientHandles
  BY <1>3, HelloGui, AcceptedPlayerGui, GameStartedGui, GameEndedGui, TurnGui
     DEF ClientHandles
<1>4. CASE UNCHANGED vars
  <2>1. UNCHANGED <<direction, lobby, datagrams, sent, received, receiver>>
    BY <1>4 DEF vars, guiVars, streamVars, sending, receiving
  <2>2. Seen' = Seen /\ (ScriptInv => ScriptInv')
    BY <2>1 DEF Seen, ScriptInv
  <2> QED BY <2>1, <2>2, SameGui DEF GuiInv
<1> QED BY <1>1, <1>2, <1>3, <1>4, ServerWritesGui, StreamGui DEF Next

\* The GUI gets one datagram for every message that serverClientGuiStream handles
\* except GameStarted, and it is the view that the messages so far give.
THEOREM GuiSees == Spec => []GuiSeesEveryMessage
<1>1. WireInv /\ GuiInv => GuiSeesEveryMessage
  <2> SUFFICES ASSUME WireInv, GuiInv, direction = "down" PROVE GuiSeesEveryMessage
    BY DEF GuiSeesEveryMessage
  <2> PICK n \in Nat : n = Seen
    BY SeenType
  <2>1. DrawnInv(n)
    BY DEF GuiInv
  <2>2. DOMAIN datagrams = 1 .. Len(datagrams)
    BY <2>1 DEF DrawnInv
  <2> QED BY <2>1, <2>2, Zenon DEF GuiSeesEveryMessage, Seen, DrawnInv, Drawn, Shown, IsView
<1>2. WireInv /\ GuiInv /\ [Next]_vars => GuiInv'
  BY NextGui
<1> QED BY InitGui, <1>1, <1>2, Invariance, PTL DEF Spec
=============================================================================
