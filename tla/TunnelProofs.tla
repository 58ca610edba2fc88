----------------------------- MODULE TunnelProofs -----------------------------
(***************************************************************************)
(* Proofs about Tunnel for any bytes, any size of buffers, and any         *)
(* interleaving of the thread with the two ends.                           *)
(*                                                                         *)
(* The argument.  As long as both streams are good, what has arrived in a  *)
(* direction, what is in its buffers and what is still to be sent, in this *)
(* order, is what there was to send (BalanceInv); every step moves bytes   *)
(* over one of the borders.  Once a stream has failed or an end is gone    *)
(* this is lost, but then nothing arrives any more: bytes are only flushed *)
(* between good streams (FedInv).  So what has arrived remains a beginning *)
(* of it (PrefixInv).                                                      *)
(*                                                                         *)
(* What may be held back is the other question.  A byte stays in the       *)
(* buffer of a stream that is still good only when it came by itself, with *)
(* nothing behind it (HeldInv), for whatever is behind the first byte is   *)
(* flushed; and the get areas are empty whenever the thread waits, but for *)
(* what came with the header (AheadInv).                                   *)
(***************************************************************************)
EXTENDS Tunnel, SequenceTheorems, TLAPS

\* All the bytes there are.
Bytes == ToSet(UpBytes) \cup ToSet(DownBytes) \cup {Line, Blank, OK}

BeforeLine == {"start", "accept", "line"}
Unlinked == BeforeLine \cup {"header", "connect"}
Early == Unlinked \cup {"ok"}
Labels == Early \cup {"greet"} \cup Tunnelling \cup Stopped
Stream == [Directions -> Seq(Bytes)]

TypeOK ==
    /\ pc \in Labels /\ from \in Directions /\ linked \in BOOLEAN
    /\ good \in [Ends -> BOOLEAN] /\ end \in [Ends -> {"open", "half", "gone"}]
    /\ toSend \in Stream /\ wire \in Stream /\ inbuf \in Stream
    /\ outbuf \in Stream /\ unread \in Stream /\ received \in Stream
    /\ alone \subseteq Bytes

\* Until the answer is written nothing has been passed on.
EarlyInv ==
    /\ pc \in Early => /\ outbuf = Nothing /\ unread = Nothing /\ received = Nothing
                       /\ inbuf["down"] = <<>>
    /\ pc \in Unlinked => ~linked /\ end["origin"] = "open"

\* Bytes are flushed from a good stream.
FedInv ==
    /\ pc \in BeforeLine \cup {"header"} => good["client"]
    /\ pc \in Early \cup {"greet"} => good["origin"]
    /\ pc \in {"some", "flush"} => good[Source(from)]

\* What is on its way in a direction, in the order in which it will arrive.
s \odot t == s \o t
Rest(d) == inbuf[d] \odot (wire[d] \odot toSend[d])
Whole(d) == Arrived(d) \odot (outbuf[d] \odot Rest(d))
Expected(d) ==
    IF d = "down" THEN IF pc \in Early THEN DownBytes ELSE <<OK>> \odot DownBytes
    ELSE IF pc \in BeforeLine THEN <<Line>> \odot (<<Blank>> \odot UpBytes)
    ELSE IF pc = "header" THEN <<Blank>> \odot UpBytes ELSE UpBytes
AllGood == good["client"] /\ good["origin"]

\* Nothing is lost between good streams.
Balanced(d) == end[Dest(d)] # "gone" => Whole(d) = Expected(d)
BalanceInv == pc \notin Stopped /\ AllGood => \A d \in Directions : Balanced(d)

\* What has arrived is a beginning of what is to arrive.
PrefixInv == \A d \in Directions : IsPrefix(Arrived(d), ToArrive(d))

\* What is not flushed came one byte at a time.
Unpassed(d) == pc = "some" /\ d = from /\ inbuf[d] # <<>>
Kept(d) == (pc \in {"wait", "first", "some"} /\ ~Unpassed(d)) \/ (pc = "flush" /\ d # from)
HeldInv == \A d \in Directions :
    /\ Kept(d) /\ good[Dest(d)] => ToSet(outbuf[d]) \subseteq alone
    /\ pc = "greet" /\ d = "up" => outbuf[d] = <<>>

\* The get areas are emptied, but for what came with the header.
Ahead == \/ pc \in {"connect", "ok", "greet", "wait", "first"}
         \/ pc \in {"some", "flush"} /\ from = "down"
AheadInv ==
    /\ pc \notin Stopped /\ ~(pc = "some" /\ from = "down") => inbuf["down"] = <<>>
    /\ pc = "flush" => inbuf[from] = <<>>
    /\ Ahead => IsPrefix(inbuf["up"], UpBytes)

IInv == TypeOK /\ EarlyInv /\ FedInv /\ BalanceInv /\ PrefixInv /\ HeldInv /\ AheadInv

-----------------------------------------------------------------------------
(* Sequences of bytes.                                                     *)

\* What there is to send are sequences of bytes.
LEMMA BytesToSend ==
    /\ UpBytes \in Seq(Bytes) /\ DownBytes \in Seq(Bytes) /\ <<>> \in Seq(Bytes)
    /\ Line \in Bytes /\ Blank \in Bytes /\ OK \in Bytes /\ <<OK>> \in Seq(Bytes)
    /\ <<Line>> \in Seq(Bytes) /\ <<Blank>> \in Seq(Bytes)
<1>1. /\ ToSet(UpBytes) \subseteq Bytes /\ ToSet(DownBytes) \subseteq Bytes
      /\ {Line, Blank, OK} \subseteq Bytes
  <2> DEFINE up == ToSet(UpBytes)
             down == ToSet(DownBytes)
             own == {Line, Blank, OK}
  <2>1. Bytes = up \cup down \cup own
    BY DEF Bytes
  <2> HIDE DEF up, down, own
  <2>2. up \subseteq Bytes /\ down \subseteq Bytes /\ own \subseteq Bytes
    BY <2>1
  <2> QED
    BY <2>2 DEF up, down, own
<1>2. UpBytes \in Seq(Bytes) /\ DownBytes \in Seq(Bytes)
  BY <1>1, TunnelAssumption, SeqMonotonic
<1>3. Line \in Bytes /\ Blank \in Bytes /\ OK \in Bytes
  BY <1>1
<1>4. <<>> \in Seq(Bytes) /\ <<Line>> \in Seq(Bytes) /\ <<Blank>> \in Seq(Bytes)
      /\ <<OK>> \in Seq(Bytes)
  BY <1>3
<1> QED
  BY <1>2, <1>3, <1>4

\* Concatenation gives a sequence and is associative.
LEMMA Assoc ==
    ASSUME NEW s \in Seq(Bytes), NEW t \in Seq(Bytes), NEW u \in Seq(Bytes)
    PROVE  s \odot t \in Seq(Bytes) /\ (s \odot t) \odot u = s \odot (t \odot u)
BY DEF \odot

\* The empty sequence adds nothing.
LEMMA Unit ==
    ASSUME NEW s \in Seq(Bytes)
    PROVE  <<>> \in Seq(Bytes) /\ s \odot <<>> = s /\ <<>> \odot s = s
BY DEF \odot

\* Behind different first bytes the same is left.
LEMMA DropFirst ==
    ASSUME NEW a, NEW b, NEW s \in Seq(Bytes), NEW t \in Seq(Bytes),
           a \in Bytes, b \in Bytes, <<a>> \odot s = <<b>> \odot t
    PROVE  s = t
<1>1. Tail(<<a>> \o s) = s /\ Tail(<<b>> \o t) = t
  OBVIOUS
<1> QED
  BY <1>1 DEF \odot

\* A sequence falls into its first n members and the others.
LEMMA SplitSeq ==
    ASSUME NEW s \in Seq(Bytes), NEW n \in 0..Len(s)
    PROVE  /\ SubSeq(s, 1, n) \in Seq(Bytes) /\ SubSeq(s, n + 1, Len(s)) \in Seq(Bytes)
           /\ s = SubSeq(s, 1, n) \odot SubSeq(s, n + 1, Len(s))
<1>1. Len(s) \in Nat /\ \A i \in 1..Len(s) : s[i] \in Bytes
  BY LenProperties, ElementOfSeq
<1>2. SubSeq(s, 1, n) \in Seq(Bytes) /\ Len(SubSeq(s, 1, n)) = n
      /\ \A i \in 1..n : SubSeq(s, 1, n)[i] = s[i]
  BY <1>1
<1>3. SubSeq(s, n + 1, Len(s)) \in Seq(Bytes) /\ Len(SubSeq(s, n + 1, Len(s))) = Len(s) - n
      /\ \A i \in 1..Len(s) - n : SubSeq(s, n + 1, Len(s))[i] = s[n + i]
  BY <1>1
<1> DEFINE a == SubSeq(s, 1, n)
           b == SubSeq(s, n + 1, Len(s))
<1> HIDE DEF a, b
<1>4. a \in Seq(Bytes) /\ b \in Seq(Bytes) /\ Len(a) = n /\ Len(b) = Len(s) - n
  BY <1>2, <1>3 DEF a, b
<1>5. a \o b \in Seq(Bytes) /\ Len(a \o b) = Len(s)
  BY <1>1, <1>4
<1>6. \A i \in 1..Len(s) : (a \o b)[i] = s[i]
  <2> TAKE i \in 1..Len(s)
  <2>1. CASE i <= n
    <3>1. (a \o b)[i] = a[i]
      BY <1>1, <1>4, <2>1
    <3> QED
      BY <1>1, <1>2, <2>1, <3>1 DEF a
  <2>2. CASE i > n
    <3>1. (a \o b)[i] = b[i - n]
      BY <1>1, <1>4, <2>2
    <3>2. i - n \in 1..Len(s) - n /\ n + (i - n) = i
      BY <1>1, <2>2
    <3> QED
      BY <1>3, <3>1, <3>2 DEF b
  <2>3. i <= n \/ i > n
    BY <1>1
  <2> QED
    BY <2>1, <2>2, <2>3, Zenon
<1>7. a \o b = s
  BY <1>5, <1>6, SeqEqual
<1> QED
  BY <1>4, <1>7 DEF a, b, \odot

\* The first member may be written on its own.
LEMMA HeadFirst ==
    ASSUME NEW s \in Seq(Bytes), s # <<>>
    PROVE  /\ Head(s) \in Bytes /\ <<Head(s)>> \in Seq(Bytes) /\ Tail(s) \in Seq(Bytes)
           /\ Len(s) \in Nat \ {0}
           /\ s = <<Head(s)>> \odot Tail(s) /\ SubSeq(s, 1, 1) = <<Head(s)>>
<1>1. /\ Head(s) \in Bytes /\ Tail(s) \in Seq(Bytes)
      /\ Len(s) \in Nat \ {0} /\ Len(Tail(s)) = Len(s) - 1
      /\ \A i \in 1..Len(Tail(s)) : Tail(s)[i] = s[i + 1]
  BY HeadTailProperties, EmptySeq
<1>2. <<Head(s)>> \in Seq(Bytes) /\ Len(<<Head(s)>>) = 1 /\ Head(s) = s[1]
  BY <1>1
<1>3. SubSeq(s, 1, 1) \in Seq(Bytes) /\ Len(SubSeq(s, 1, 1)) = 1 /\ SubSeq(s, 1, 1)[1] = s[1]
  <2>1. s[1] \in Bytes
    BY <1>1, ElementOfSeq
  <2> QED
    BY <2>1
<1>4. SubSeq(s, 1, 1) = <<Head(s)>>
  <2>1. \A i \in 1..1 : SubSeq(s, 1, 1)[i] = <<Head(s)>>[i]
    BY <1>2, <1>3
  <2> QED
    BY <1>2, <1>3, <2>1, SeqEqual
<1>5. Tail(s) = SubSeq(s, 2, Len(s))
  BY TailIsSubSeq
<1>6. s = SubSeq(s, 1, 1) \odot SubSeq(s, 1 + 1, Len(s))
  BY <1>1, SplitSeq
<1>7. s = <<Head(s)>> \odot Tail(s)
  BY <1>4, <1>5, <1>6, 1 + 1 = 2
<1> QED
  BY <1>1, <1>2, <1>4, <1>7

\* A byte at the end may be written on its own, too.
LEMMA AppendIs ==
    ASSUME NEW s \in Seq(Bytes), NEW b \in Bytes
    PROVE  Append(s, b) \in Seq(Bytes) /\ <<b>> \in Seq(Bytes) /\ Append(s, b) = s \odot <<b>>
BY AppendIsConcat, AppendProperties DEF \odot

\* A byte goes from the beginning of one sequence to the end of another.
LEMMA OneOver ==
    ASSUME NEW t \in Seq(Bytes), NEW s \in Seq(Bytes), s # <<>>
    PROVE  /\ Append(t, Head(s)) \in Seq(Bytes) /\ Tail(s) \in Seq(Bytes)
           /\ Append(t, Head(s)) \odot Tail(s) = t \odot s
<1>1. Append(t, Head(s)) = t \odot <<Head(s)>> /\ Append(t, Head(s)) \in Seq(Bytes)
  BY HeadFirst, AppendIs
<1>2. <<Head(s)>> \in Seq(Bytes) /\ Tail(s) \in Seq(Bytes) /\ s = <<Head(s)>> \odot Tail(s)
  BY HeadFirst
<1>3. (t \odot <<Head(s)>>) \odot Tail(s) = t \odot (<<Head(s)>> \odot Tail(s))
  BY <1>2, Assoc
<1> QED
  BY <1>1, <1>2, <1>3

\* The parts of a direction in the order of the property.
LEMMA Regroup ==
    ASSUME NEW a \in Seq(Bytes), NEW b \in Seq(Bytes), NEW c \in Seq(Bytes),
           NEW d \in Seq(Bytes), NEW e \in Seq(Bytes)
    PROVE  (((a \odot b) \odot c) \odot d) \odot e = a \odot (b \odot (c \odot (d \odot e)))
<1>1. /\ a \odot b \in Seq(Bytes) /\ (a \odot b) \odot c \in Seq(Bytes)
      /\ d \odot e \in Seq(Bytes) /\ c \odot (d \odot e) \in Seq(Bytes)
  BY Assoc
<1>2. (((a \odot b) \odot c) \odot d) \odot e = ((a \odot b) \odot c) \odot (d \odot e)
  BY <1>1, Assoc
<1>3. @ = (a \odot b) \odot (c \odot (d \odot e))
  BY <1>1, Assoc
<1>4. @ = a \odot (b \odot (c \odot (d \odot e)))
  BY <1>1, Assoc
<1> QED
  BY <1>2, <1>3, <1>4

\* A sequence is a beginning of whatever it is continued with.
LEMMA Beginning ==
    ASSUME NEW s \in Seq(Bytes), NEW t \in Seq(Bytes)
    PROVE  IsPrefix(s, s \odot t) /\ IsPrefix(<<>>, t)
<1>1. Len(s \o t) = Len(s) + Len(t) /\ Len(s) \in Nat /\ Len(t) \in Nat
      /\ \A i \in 1..Len(s) : (s \o t)[i] = s[i] /\ s[i] \in Bytes
  BY ConcatProperties, LenProperties, ElementOfSeq
<1>2. SubSeq(s, 1, Len(s)) \in Seq(Bytes) /\ Len(SubSeq(s, 1, Len(s))) = Len(s)
      /\ \A i \in 1..Len(s) : SubSeq(s, 1, Len(s))[i] = s[i]
  BY <1>1
<1>3. /\ SubSeq(s \o t, 1, Len(s)) \in Seq(Bytes) /\ Len(SubSeq(s \o t, 1, Len(s))) = Len(s)
      /\ \A i \in 1..Len(s) : SubSeq(s \o t, 1, Len(s))[i] = s[i]
  <2>1. \A i \in 1..Len(s) : (s \o t)[i] \in Bytes
    BY <1>1
  <2>2. /\ SubSeq(s \o t, 1, Len(s)) \in Seq(Bytes)
        /\ Len(SubSeq(s \o t, 1, Len(s))) = IF 1 <= Len(s) THEN Len(s) - 1 + 1 ELSE 0
        /\ \A i \in 1..Len(s) - 1 + 1 : SubSeq(s \o t, 1, Len(s))[i] = (s \o t)[1 + i - 1]
    BY <1>1, <2>1, SubSeqProperties
  <2>3. \A i \in 1..Len(s) : 1 + i - 1 = i
    OBVIOUS
  <2> QED
    BY <1>1, <2>2, <2>3
<1>4. SubSeq(s, 1, Len(s)) = SubSeq(s \o t, 1, Len(s))
  BY <1>2, <1>3, SeqEqual
<1>5. SubSeq(<<>>, 1, 0) = SubSeq(t, 1, 0) /\ Len(<<>>) = 0
  BY SubSeqEmpty
<1> QED
  BY <1>1, <1>4, <1>5 DEF IsPrefix, \odot

-----------------------------------------------------------------------------
(* What the steps do.                                                      *)

\* Everything in a direction is a sequence of bytes.
LEMMA Parts ==
    ASSUME TypeOK, NEW d \in Directions
    PROVE  /\ received[d] \in Seq(Bytes) /\ unread[d] \in Seq(Bytes) /\ outbuf[d] \in Seq(Bytes)
           /\ inbuf[d] \in Seq(Bytes) /\ wire[d] \in Seq(Bytes) /\ toSend[d] \in Seq(Bytes)
           /\ Arrived(d) = received[d] \odot unread[d] /\ Arrived(d) \in Seq(Bytes)
           /\ Rest(d) \in Seq(Bytes) /\ outbuf[d] \odot Rest(d) \in Seq(Bytes)
<1>1. /\ received[d] \in Seq(Bytes) /\ unread[d] \in Seq(Bytes) /\ outbuf[d] \in Seq(Bytes)
      /\ inbuf[d] \in Seq(Bytes) /\ wire[d] \in Seq(Bytes) /\ toSend[d] \in Seq(Bytes)
  BY DEF TypeOK, Stream
<1>2. Arrived(d) = received[d] \odot unread[d]
  BY DEF Arrived, \odot
<1>3. wire[d] \odot toSend[d] \in Seq(Bytes) /\ received[d] \odot unread[d] \in Seq(Bytes)
  BY <1>1, Assoc
<1>4. Rest(d) \in Seq(Bytes)
  BY <1>1, <1>3, Assoc DEF Rest
<1>5. outbuf[d] \odot Rest(d) \in Seq(Bytes)
  BY <1>1, <1>4, Assoc
<1> QED
  BY <1>1, <1>2, <1>3, <1>4, <1>5

\* What there is to take is a sequence of bytes.
LEMMA GotSome ==
    ASSUME TypeOK, NEW d \in Directions
    PROVE  Got(d) \in Seq(Bytes) /\ Len(Got(d)) \in Nat /\ Filled(d) \in Seq(Bytes)
<1>1. wire[d] \in Seq(Bytes) /\ inbuf[d] \in Seq(Bytes)
  BY Parts
<1> DEFINE k == IF Len(wire[d]) < BufSize THEN Len(wire[d]) ELSE BufSize
<1>2. k \in 0..Len(wire[d])
  BY <1>1, TunnelAssumption
<1> HIDE DEF k
<1>3. SubSeq(wire[d], 1, k) \in Seq(Bytes)
  BY <1>1, <1>2, SplitSeq
<1>4. Filled(d) \in Seq(Bytes)
  BY <1>3 DEF Filled, k
<1>5. Got(d) \in Seq(Bytes)
  BY <1>1, <1>4 DEF Got
<1> QED
  BY <1>4, <1>5, LenProperties

\* The n bytes a read takes are the first of the rest.
Takes(d, n) ==
    /\ inbuf' \in Stream /\ wire' \in Stream /\ SubSeq(Got(d), 1, n) \in Seq(Bytes)
    /\ inbuf'[d] \odot (wire'[d] \odot toSend[d]) \in Seq(Bytes)
    /\ Rest(d) = SubSeq(Got(d), 1, n) \odot (inbuf'[d] \odot (wire'[d] \odot toSend[d]))
    /\ inbuf'[d] = SubSeq(Got(d), n + 1, Len(Got(d)))
    /\ \A e \in Directions \ {d} : inbuf'[e] = inbuf[e] /\ wire'[e] = wire[e]

\* A read takes them from the get area, or fills that first.
LEMMA Taken ==
    ASSUME TypeOK, NEW d \in Directions, NEW n \in 0..Len(Got(d)), Consume(d, n)
    PROVE  Takes(d, n)
<1> DEFINE first == SubSeq(Got(d), 1, n)
           others == SubSeq(Got(d), n + 1, Len(Got(d)))
<1>1. wire[d] \in Seq(Bytes) /\ inbuf[d] \in Seq(Bytes) /\ toSend[d] \in Seq(Bytes)
      /\ Got(d) \in Seq(Bytes)
  BY Parts, GotSome
<1>2. first \in Seq(Bytes) /\ others \in Seq(Bytes) /\ Got(d) = first \odot others
  BY <1>1, SplitSeq
<1>3. inbuf' = [inbuf EXCEPT ![d] = others]
  BY DEF Consume
<1> HIDE DEF first, others
<1>4. inbuf' \in Stream /\ inbuf'[d] = others
      /\ \A e \in Directions \ {d} : inbuf'[e] = inbuf[e]
  BY <1>2, <1>3 DEF TypeOK, Stream
<1>5. ASSUME NEW left \in Seq(Bytes), Rest(d) = Got(d) \odot (left \odot toSend[d])
      PROVE  /\ Rest(d) = first \odot (others \odot (left \odot toSend[d]))
             /\ others \odot (left \odot toSend[d]) \in Seq(Bytes)
  <2>1. left \odot toSend[d] \in Seq(Bytes)
    BY <1>1, Assoc
  <2>2. (first \odot others) \odot (left \odot toSend[d])
           = first \odot (others \odot (left \odot toSend[d]))
    BY <1>2, <2>1, Assoc
  <2>3. others \odot (left \odot toSend[d]) \in Seq(Bytes)
    BY <1>2, <2>1, Assoc
  <2> QED
    BY <1>2, <1>5, <2>2, <2>3
<1>6. CASE inbuf[d] # <<>>
  <2>1. Got(d) = inbuf[d] /\ wire' = wire
    BY <1>6 DEF Got, Consume
  <2>2. Rest(d) = Got(d) \odot (wire[d] \odot toSend[d])
    BY <2>1 DEF Rest
  <2>3. /\ Rest(d) = first \odot (others \odot (wire[d] \odot toSend[d]))
        /\ others \odot (wire[d] \odot toSend[d]) \in Seq(Bytes)
    BY <1>1, <1>5, <2>2
  <2>4. wire' \in Stream /\ wire'[d] = wire[d] /\ \A e \in Directions : wire'[e] = wire[e]
    BY <2>1 DEF TypeOK
  <2> QED
    BY <1>2, <1>4, <2>3, <2>4 DEF Takes, first, others
<1>7. CASE inbuf[d] = <<>>
  <2> DEFINE k == IF Len(wire[d]) < BufSize THEN Len(wire[d]) ELSE BufSize
             left == SubSeq(wire[d], k + 1, Len(wire[d]))
  <2>1. k \in 0..Len(wire[d])
    BY <1>1, TunnelAssumption
  <2>2. Got(d) = SubSeq(wire[d], 1, k) /\ Filled(d) = SubSeq(wire[d], 1, k)
    BY <1>7 DEF Got, Filled
  <2>3. wire' = [wire EXCEPT ![d] = SubSeq(wire[d], Len(Filled(d)) + 1, Len(wire[d]))]
    BY <1>7 DEF Consume
  <2> HIDE DEF k
  <2>4. Len(Filled(d)) = k
    <3>1. \A i \in 1..k : wire[d][i] \in Bytes
      BY <1>1, <2>1, ElementOfSeq
    <3>2. Len(SubSeq(wire[d], 1, k)) = IF 1 <= k THEN k - 1 + 1 ELSE 0
      BY <1>1, <2>1, <3>1, SubSeqProperties
    <3> QED
      BY <1>1, <2>1, <2>2, <3>2
  <2>5. left \in Seq(Bytes) /\ wire[d] = Got(d) \odot left
    BY <1>1, <2>1, <2>2, SplitSeq
  <2>6. wire' = [wire EXCEPT ![d] = left]
    BY <2>3, <2>4
  <2> HIDE DEF left
  <2>7. wire' \in Stream /\ wire'[d] = left /\ \A e \in Directions \ {d} : wire'[e] = wire[e]
    BY <2>5, <2>6 DEF TypeOK, Stream
  <2>8. Rest(d) = wire[d] \odot toSend[d]
    <3>1. wire[d] \odot toSend[d] \in Seq(Bytes)
      BY <1>1, Assoc
    <3> QED
      BY <1>7, <3>1, Unit DEF Rest
  <2>9. Rest(d) = Got(d) \odot (left \odot toSend[d])
    <3>1. Got(d) \in Seq(Bytes) /\ left \in Seq(Bytes) /\ toSend[d] \in Seq(Bytes)
      BY <1>1, <2>5
    <3>2. (Got(d) \odot left) \odot toSend[d] = Got(d) \odot (left \odot toSend[d])
      BY <3>1, Assoc
    <3> QED
      BY <2>5, <2>8, <3>2
  <2>10. /\ Rest(d) = first \odot (others \odot (left \odot toSend[d]))
         /\ others \odot (left \odot toSend[d]) \in Seq(Bytes)
    BY <1>5, <2>5, <2>9
  <2> QED
    BY <1>2, <1>4, <2>7, <2>10 DEF Takes, first, others
<1> QED
  BY <1>6, <1>7

\* What the read of one byte leaves.
LEMMA OneTaken ==
    ASSUME TypeOK, NEW d \in Directions, Got(d) # <<>>, Consume(d, 1)
    PROVE  Takes(d, 1) /\ Head(Got(d)) \in Bytes /\ SubSeq(Got(d), 1, 1) = <<Head(Got(d))>>
           /\ <<Head(Got(d))>> \in Seq(Bytes)
<1>1. Got(d) \in Seq(Bytes) /\ Len(Got(d)) \in Nat \ {0}
  BY GotSome, HeadFirst
<1>2. 1 \in 0..Len(Got(d))
  BY <1>1
<1>3. Takes(d, 1)
  BY <1>2, Taken
<1> QED
  BY <1>1, <1>3, HeadFirst

\* What readsome() leaves.
LEMMA AllTaken ==
    ASSUME TypeOK, NEW d \in Directions, Consume(d, Len(Got(d)))
    PROVE  Takes(d, Len(Got(d))) /\ inbuf'[d] = <<>> /\ SubSeq(Got(d), 1, Len(Got(d))) = Got(d)
<1>1. Got(d) \in Seq(Bytes) /\ Len(Got(d)) \in Nat
  BY GotSome
<1>2. Takes(d, Len(Got(d)))
  BY <1>1, Taken
<1>3. SubSeq(Got(d), Len(Got(d)) + 1, Len(Got(d))) = <<>>
  BY <1>1, SubSeqEmpty
<1> QED
  BY <1>1, <1>2, <1>3, SubSeqFull DEF Takes

\* What is written goes behind what is there.
Writes(d, s) ==
    /\ outbuf' \in Stream
    /\ outbuf'[d] = IF good[Dest(d)] THEN outbuf[d] \odot s ELSE outbuf[d]
    /\ \A e \in Directions \ {d} : outbuf'[e] = outbuf[e]

\* Put does that, with what is flushed or greeted.
LEMMA Written ==
    ASSUME TypeOK, NEW d \in Directions, NEW s \in Seq(Bytes), Put(d, s)
    PROVE  Writes(d, s)
<1> DEFINE new == IF good[Dest(d)] THEN outbuf[d] \odot s ELSE outbuf[d]
<1>1. outbuf[d] \in Seq(Bytes) /\ outbuf[d] \odot s \in Seq(Bytes)
  BY Parts, Assoc
<1>2. outbuf' = [outbuf EXCEPT ![d] = new]
  BY DEF Put, \odot
<1>3. new \in Seq(Bytes) /\ outbuf \in Stream
  BY <1>1 DEF TypeOK
<1> HIDE DEF new
<1>4. /\ outbuf' \in Stream /\ outbuf'[d] = new
      /\ \A e \in Directions \ {d} : outbuf'[e] = outbuf[e]
  BY <1>2, <1>3 DEF Stream
<1> QED
  BY <1>4 DEF Writes, new

\* The three ways of a flush.
SomeSent(d) ==
    /\ pc' = pc /\ good' = good /\ good[Dest(d)] /\ There(Dest(d)) /\ outbuf[d] # <<>>
    /\ outbuf'[d] = Tail(outbuf[d]) /\ unread'[d] = Append(unread[d], Head(outbuf[d]))
SendFailed(d) ==
    /\ pc' = pc /\ unread' = unread /\ outbuf'[d] = <<>> /\ ~There(Dest(d))
    /\ \/ good' = [good EXCEPT ![Dest(d)] = FALSE]
       \/ end[Dest(d)] = "gone" /\ good' = good
AllSent(d, next) ==
    /\ pc' = next /\ UNCHANGED <<good, outbuf, unread>>
    /\ outbuf[d] = <<>> \/ ~good[Dest(d)]
Flushes(d, next) ==
    /\ outbuf' \in Stream /\ unread' \in Stream
    /\ \A e \in Directions \ {d} : outbuf'[e] = outbuf[e] /\ unread'[e] = unread[e]
    /\ SomeSent(d) \/ SendFailed(d) \/ AllSent(d, next)
    /\ UNCHANGED <<from, linked, peers, wire, inbuf, alone>>

\* Flush does one of the three.
LEMMA FlushWays ==
    ASSUME TypeOK, NEW d \in Directions, NEW at, NEW next, Flush(d, at, next)
    PROVE  Flushes(d, next) /\ pc = at
<1>1. outbuf \in Stream /\ unread \in Stream
  BY DEF TypeOK
<1>2. outbuf[d] \in Seq(Bytes) /\ unread[d] \in Seq(Bytes) /\ <<>> \in Seq(Bytes)
  BY Parts, BytesToSend
<1>3. pc = at /\ UNCHANGED <<from, linked, peers, wire, inbuf, alone>>
  BY DEF Flush
<1>4. CASE outbuf[d] # <<>> /\ good[Dest(d)] /\ FlushSome(d)
  <2>1. Append(unread[d], Head(outbuf[d])) \in Seq(Bytes) /\ Tail(outbuf[d]) \in Seq(Bytes)
    BY <1>2, <1>4, OneOver
  <2>2. /\ unread' = [unread EXCEPT ![d] = Append(unread[d], Head(outbuf[d]))]
        /\ outbuf' = [outbuf EXCEPT ![d] = Tail(outbuf[d])]
        /\ UNCHANGED <<pc, good>> /\ There(Dest(d))
    BY <1>4 DEF FlushSome
  <2>3. unread' \in Stream /\ unread'[d] = Append(unread[d], Head(outbuf[d]))
        /\ \A e \in Directions \ {d} : unread'[e] = unread[e]
    BY <1>1, <2>1, <2>2 DEF Stream
  <2>4. outbuf' \in Stream /\ outbuf'[d] = Tail(outbuf[d])
        /\ \A e \in Directions \ {d} : outbuf'[e] = outbuf[e]
    BY <1>1, <2>1, <2>2 DEF Stream
  <2> QED
    BY <1>3, <1>4, <2>2, <2>3, <2>4 DEF Flushes, SomeSent
<1>5. CASE FlushFails(d)
  <2>1. outbuf' = [outbuf EXCEPT ![d] = <<>>] /\ UNCHANGED <<pc, unread>>
    BY <1>5 DEF FlushFails
  <2>2. outbuf' \in Stream /\ outbuf'[d] = <<>>
        /\ \A e \in Directions \ {d} : outbuf'[e] = outbuf[e]
    BY <1>1, <1>2, <2>1 DEF Stream
  <2> QED
    BY <1>1, <1>3, <1>5, <2>1, <2>2 DEF Flushes, SendFailed, FlushFails
<1>6. CASE (outbuf[d] = <<>> \/ ~good[Dest(d)]) /\ pc' = next /\ UNCHANGED <<good, outbuf, unread>>
  BY <1>1, <1>3, <1>6 DEF Flushes, AllSent
<1> QED
  BY <1>4, <1>5, <1>6 DEF Flush

\* A byte that is sent is only somewhere else.
Sends(d) ==
    /\ wire' \in Stream /\ toSend' \in Stream
    /\ wire'[d] \odot toSend'[d] = wire[d] \odot toSend[d]
    /\ \A e \in Directions \ {d} : wire'[e] = wire[e] /\ toSend'[e] = toSend[e]

\* Send moves it onto the wire.
LEMMA Sent ==
    ASSUME TypeOK, NEW d \in Directions, Send(d)
    PROVE  Sends(d)
<1>1. wire \in Stream /\ toSend \in Stream /\ wire[d] \in Seq(Bytes) /\ toSend[d] \in Seq(Bytes)
  BY Parts DEF TypeOK
<1>2. /\ toSend[d] # <<>> /\ wire' = [wire EXCEPT ![d] = Append(wire[d], Head(toSend[d]))]
      /\ toSend' = [toSend EXCEPT ![d] = Tail(toSend[d])]
  BY DEF Send
<1>3. /\ Append(wire[d], Head(toSend[d])) \in Seq(Bytes) /\ Tail(toSend[d]) \in Seq(Bytes)
      /\ Append(wire[d], Head(toSend[d])) \odot Tail(toSend[d]) = wire[d] \odot toSend[d]
  BY <1>1, <1>2, OneOver
<1>4. wire' \in Stream /\ wire'[d] = Append(wire[d], Head(toSend[d]))
      /\ \A e \in Directions \ {d} : wire'[e] = wire[e]
  BY <1>1, <1>2, <1>3 DEF Stream
<1>5. toSend' \in Stream /\ toSend'[d] = Tail(toSend[d])
      /\ \A e \in Directions \ {d} : toSend'[e] = toSend[e]
  BY <1>1, <1>2, <1>3 DEF Stream
<1> QED
  BY <1>3, <1>4, <1>5 DEF Sends

\* A byte that is received has arrived before.
Receives(d) ==
    /\ unread' \in Stream /\ received' \in Stream
    /\ \A e \in Directions : Arrived(e)' = Arrived(e)

\* Receive takes it from what can be read.
LEMMA Received ==
    ASSUME TypeOK, NEW d \in Directions, Receive(d)
    PROVE  Receives(d)
<1>1. /\ unread \in Stream /\ received \in Stream
      /\ unread[d] \in Seq(Bytes) /\ received[d] \in Seq(Bytes)
  BY Parts DEF TypeOK
<1>2. /\ unread[d] # <<>>
      /\ received' = [received EXCEPT ![d] = Append(received[d], Head(unread[d]))]
      /\ unread' = [unread EXCEPT ![d] = Tail(unread[d])]
  BY DEF Receive
<1>3. /\ Append(received[d], Head(unread[d])) \in Seq(Bytes) /\ Tail(unread[d]) \in Seq(Bytes)
      /\ Append(received[d], Head(unread[d])) \odot Tail(unread[d]) = received[d] \odot unread[d]
  BY <1>1, <1>2, OneOver
<1>4. received' \in Stream /\ received'[d] = Append(received[d], Head(unread[d]))
      /\ \A e \in Directions \ {d} : received'[e] = received[e]
  BY <1>1, <1>2, <1>3 DEF Stream
<1>5. unread' \in Stream /\ unread'[d] = Tail(unread[d])
      /\ \A e \in Directions \ {d} : unread'[e] = unread[e]
  BY <1>1, <1>2, <1>3 DEF Stream
<1>6. \A e \in Directions : received'[e] \odot unread'[e] = received[e] \odot unread[e]
  BY <1>3, <1>4, <1>5
<1>7. \A e \in Directions : Arrived(e)' = Arrived(e)
  BY <1>6 DEF Arrived, \odot
<1> QED
  BY <1>4, <1>5, <1>7 DEF Receives

-----------------------------------------------------------------------------
(* The steps keep the invariant.                                           *)

\* Every variable keeps its type.
LEMMA TypeOKStep ==
    ASSUME IInv, Next
    PROVE  TypeOK'
<1> USE DEF IInv, TypeOK, Labels, Early, Unlinked, BeforeLine, Tunnelling, Stopped, Ends,
            Directions, peers, buffers
<1>1. ASSUME NEW line \in CommandLines, Launch(line) PROVE TypeOK'
  BY <1>1 DEF Launch, Listens
<1>2. CASE Accept
  BY <1>2 DEF Accept
<1>3. CASE RequestLine
  <2>1. CASE Got("up") # <<>> /\ Consume("up", 1)
    <3>1. Takes("up", 1)
      BY <2>1, OneTaken
    <3> QED
      BY <1>3, <3>1 DEF RequestLine, Takes
  <2>2. CASE UNCHANGED <<wire, inbuf>>
    BY <1>3, <2>2 DEF RequestLine
  <2> QED
    BY <1>3, <2>1, <2>2 DEF RequestLine
<1>4. CASE Header
  <2>1. CASE Got("up") # <<>> /\ Consume("up", 1) /\ UNCHANGED good
    <3>1. Takes("up", 1)
      BY <2>1, OneTaken
    <3> QED
      BY <1>4, <2>1, <3>1 DEF Header, Takes
  <2>2. CASE good' = [good EXCEPT !["client"] = FALSE] /\ UNCHANGED <<wire, inbuf>>
    BY <1>4, <2>2 DEF Header
  <2> QED
    BY <1>4, <2>1, <2>2 DEF Header
<1>5. CASE Connect
  BY <1>5 DEF Connect
<1>6. CASE Greet
  <2>1. Writes("down", <<OK>>)
    BY <1>6, BytesToSend, Written DEF Greet
  <2> QED
    BY <1>6, <2>1 DEF Greet, Writes
<1>7. ASSUME NEW d \in Directions, NEW at, NEW next, next \in Labels, Flush(d, at, next)
      PROVE  TypeOK'
  <2>1. Flushes(d, next)
    BY <1>7, FlushWays
  <2>2. pc' \in Labels /\ good' \in [Ends -> BOOLEAN]
    BY <1>7, <2>1 DEF Flushes, SomeSent, SendFailed, AllSent
  <2> QED
    BY <2>1, <2>2 DEF Flushes
<1>8. CASE Event \/ TimedOut \/ NoFirst \/ NoMore
  <2>1. CASE Event
    BY <2>1 DEF Event
  <2>2. CASE TimedOut
    BY <2>2 DEF TimedOut
  <2>3. CASE NoFirst
    BY <2>3 DEF NoFirst
  <2>4. CASE NoMore
    BY <2>4 DEF NoMore
  <2> QED
    BY <1>8, <2>1, <2>2, <2>3, <2>4
<1>9. CASE First
  <2>1. /\ Takes(from, 1) /\ Head(Got(from)) \in Bytes /\ <<Head(Got(from))>> \in Seq(Bytes)
    BY <1>9, OneTaken DEF First
  <2>2. Writes(from, <<Head(Got(from))>>)
    BY <1>9, <2>1, Written DEF First
  <2>3. alone' \subseteq Bytes
    BY <1>9, <2>1 DEF First
  <2>4. UNCHANGED <<from, linked, good, peers, unread>> /\ pc' \in Labels
    BY <1>9 DEF First
  <2> QED
    BY <2>1, <2>2, <2>3, <2>4 DEF Takes, Writes
<1>10. CASE Some
  <2>1. Takes(from, Len(Got(from))) /\ Got(from) \in Seq(Bytes)
    BY <1>10, AllTaken, GotSome DEF Some
  <2>2. Writes(from, Got(from))
    BY <1>10, <2>1, Written DEF Some
  <2>3. UNCHANGED <<from, linked, good, peers, unread, alone>> /\ pc' \in Labels
    BY <1>10 DEF Some
  <2> QED
    BY <2>1, <2>2, <2>3 DEF Takes, Writes
<1>11. CASE killProxyServer
  BY <1>11 DEF killProxyServer
<1>12. ASSUME NEW d \in Directions, Send(d) PROVE TypeOK'
  <2>1. Sends(d)
    BY <1>12, Sent
  <2>2. UNCHANGED <<pc, from, linked, good, end, received, buffers, unread, alone>>
    BY <1>12 DEF Send
  <2> QED
    BY <2>1, <2>2 DEF Sends
<1>13. ASSUME NEW d \in Directions, Receive(d) PROVE TypeOK'
  <2>1. Receives(d)
    BY <1>13, Received
  <2>2. UNCHANGED <<pc, from, linked, good, end, toSend, wire, buffers, alone>>
    BY <1>13 DEF Receive
  <2> QED
    BY <2>1, <2>2 DEF Receives
<1>14. ASSUME NEW e \in Ends, Leave(e) PROVE TypeOK'
  BY <1>14 DEF Leave
<1>15. ASSUME Greeted PROVE TypeOK'
  BY <1>7, <1>15 DEF Greeted
<1>16. ASSUME Flushed PROVE TypeOK'
  BY <1>7, <1>16 DEF Flushed
<1> QED
  BY <1>1, <1>2, <1>3, <1>4, <1>5, <1>6, <1>8, <1>9, <1>10, <1>11, <1>12, <1>13, <1>14, <1>15,
     <1>16 DEF Next, Thread, Peers

\* Until the answer is written nothing is passed on.
LEMMA EarlyInvStep ==
    ASSUME IInv, Next
    PROVE  EarlyInv'
<1> USE DEF IInv, EarlyInv, Early, Unlinked, BeforeLine, Tunnelling, Stopped, peers, buffers
<1>0. TypeOK /\ linked \in BOOLEAN /\ from \in Directions
  BY DEF TypeOK
<1>1. ASSUME NEW line \in CommandLines, Launch(line) PROVE EarlyInv'
  BY <1>1 DEF Launch, Listens
<1>2. CASE Accept
  BY <1>2 DEF Accept
<1>3. CASE RequestLine \/ Header
  <2>1. inbuf'["down"] = inbuf["down"]
    <3>1. CASE Got("up") # <<>> /\ Consume("up", 1)
      <4>1. Takes("up", 1)
        BY <1>0, <3>1, OneTaken DEF Directions
      <4> QED
        BY <4>1 DEF Takes, Directions
    <3>2. CASE UNCHANGED <<wire, inbuf>>
      BY <3>2
    <3> QED
      BY <1>3, <3>1, <3>2 DEF RequestLine, Header
  <2> QED
    BY <1>3, <2>1 DEF RequestLine, Header
<1>4. CASE Connect
  BY <1>4 DEF Connect
<1>5. CASE Greet
  BY <1>5 DEF Greet
<1>6. ASSUME NEW d \in Directions, Flush(d, "greet", "wait") \/ Flush(d, "flush", "some")
      PROVE  EarlyInv'
  <2>1. /\ pc \in {"greet", "flush"} /\ pc' \in {pc, "wait", "some"}
    BY <1>0, <1>6, FlushWays DEF Flushes, SomeSent, SendFailed, AllSent
  <2> QED
    BY <2>1
<1>7. CASE Event \/ TimedOut \/ NoFirst \/ NoMore
  BY <1>7 DEF Event, TimedOut, NoFirst, NoMore
<1>8. CASE First \/ Some
  BY <1>8 DEF First, Some
<1>9. CASE killProxyServer
  BY <1>9 DEF killProxyServer
<1>10. ASSUME NEW d \in Directions, Send(d) PROVE EarlyInv'
  BY <1>10 DEF Send
<1>11. ASSUME NEW d \in Directions, Receive(d) PROVE EarlyInv'
  <2>1. pc \notin Early
    BY <1>11 DEF Receive, Nothing
  <2> QED
    BY <1>11, <2>1 DEF Receive
<1>12. ASSUME NEW e \in Ends, Leave(e) PROVE EarlyInv'
  <2>1. e = "origin" => linked
    BY <1>12 DEF Leave, Reached, There
  <2>2. pc \in Unlinked => e # "origin" /\ end["origin"] = "open" /\ end'["origin"] = end["origin"]
    BY <1>0, <1>12, <2>1 DEF Leave, TypeOK, Ends
  <2> QED
    BY <1>12, <2>2 DEF Leave
<1> QED
  BY <1>0, <1>1, <1>2, <1>3, <1>4, <1>5, <1>6, <1>7, <1>8, <1>9, <1>10, <1>11, <1>12
     DEF Next, Thread, Peers, Greeted, Flushed, Directions

\* Bytes are flushed from good streams.
LEMMA FedInvStep ==
    ASSUME IInv, Next
    PROVE  FedInv'
<1> USE DEF IInv, FedInv, Early, Unlinked, BeforeLine, Tunnelling, Stopped, peers, buffers
<1>0. TypeOK /\ from \in Directions /\ good \in [Ends -> BOOLEAN]
  BY DEF TypeOK
<1>1. ASSUME NEW line \in CommandLines, Launch(line) PROVE FedInv'
  BY <1>1 DEF Launch, Listens
<1>2. CASE Accept
  BY <1>2 DEF Accept
<1>3. CASE RequestLine
  BY <1>3 DEF RequestLine
<1>4. CASE Header
  <2>1. good'["origin"] = good["origin"]
    BY <1>0, <1>4 DEF Header, Ends
  <2> QED
    BY <1>4, <2>1 DEF Header
<1>5. CASE Connect \/ Greet
  BY <1>5 DEF Connect, Greet
<1>6. CASE Greeted
  <2>1. Flushes("down", "wait") /\ pc = "greet"
    BY <1>0, <1>6, FlushWays DEF Greeted, Directions
  <2>2. pc' \in {"greet", "wait"} /\ (pc' = "greet" => good'["origin"] = good["origin"])
    BY <1>0, <2>1 DEF Flushes, SomeSent, SendFailed, AllSent, Ends, Dest
  <2> QED
    BY <2>1, <2>2
<1>7. CASE Flushed
  <2>1. Flushes(from, "some") /\ pc = "flush" /\ from' = from
    BY <1>0, <1>7, FlushWays DEF Flushed, Flushes
  <2>2. Source(from) \in Ends /\ Dest(from) \in Ends /\ Source(from) # Dest(from)
    BY <1>0 DEF Source, Dest, Ends, Directions
  <2>3. good'[Source(from)] = good[Source(from)]
    BY <1>0, <2>1, <2>2 DEF Flushes, SomeSent, SendFailed, AllSent
  <2>4. pc' \in {"flush", "some"}
    BY <2>1 DEF Flushes, SomeSent, SendFailed, AllSent
  <2>5. good'[Source(from')]
    BY <2>1, <2>3
  <2> QED
    BY <2>4, <2>5 DEF Source
<1>8. CASE Event \/ TimedOut \/ NoFirst \/ NoMore
  BY <1>8 DEF Event, TimedOut, NoFirst, NoMore
<1>9. CASE First \/ Some
  BY <1>9 DEF First, Some, Source
<1>10. CASE killProxyServer
  BY <1>10 DEF killProxyServer
<1>11. ASSUME NEW d \in Directions, Send(d) \/ Receive(d) PROVE FedInv'
  BY <1>11 DEF Send, Receive, Source
<1>12. ASSUME NEW e \in Ends, Leave(e) PROVE FedInv'
  BY <1>12 DEF Leave, Source
<1> QED
  BY <1>1, <1>2, <1>3, <1>4, <1>5, <1>6, <1>7, <1>8, <1>9, <1>10, <1>11, <1>12
     DEF Next, Thread, Peers

\* Nobody comes back, and no stream recovers.
LEMMA Forward ==
    ASSUME TypeOK, Next
    PROVE  /\ pc' \notin Stopped => pc \notin Stopped
           /\ AllGood' => AllGood
           /\ \A e \in Ends : good'[e] => good[e]
           /\ \A e \in Ends : end'[e] # "gone" => end[e] # "gone"
<1> SUFFICES /\ pc' \notin Stopped => pc \notin Stopped
             /\ \A e \in Ends : good'[e] => good[e]
             /\ \A e \in Ends : end'[e] # "gone" => end[e] # "gone"
  BY DEF AllGood, Ends
<1> USE DEF peers, buffers
<1>0. /\ good \in [Ends -> BOOLEAN] /\ end \in [Ends -> {"open", "half", "gone"}]
      /\ from \in Directions
  BY DEF TypeOK
<1>1. ASSUME NEW d \in Directions, NEW at, NEW next, Flush(d, at, next), at \notin Stopped
      PROVE  pc \notin Stopped /\ (\A e \in Ends : good'[e] => good[e]) /\ end' = end
  <2>1. Flushes(d, next) /\ pc = at
    BY <1>1, FlushWays
  <2>2. \A e \in Ends : good'[e] => good[e]
    BY <1>0, <2>1 DEF Flushes, SomeSent, SendFailed, AllSent, Ends
  <2> QED
    BY <1>1, <2>1, <2>2 DEF Flushes
<1>2. CASE Greeted \/ Flushed
  BY <1>0, <1>1, <1>2 DEF Greeted, Flushed, Stopped, Directions
<1>3. CASE Header
  <2>1. \A e \in Ends : good'[e] => good[e]
    BY <1>0, <1>3 DEF Header, Ends
  <2> QED
    BY <1>3, <2>1 DEF Header, Stopped
<1>4. ASSUME NEW e \in Ends, Leave(e)
      PROVE  /\ pc \notin Stopped /\ good' = good
             /\ \A f \in Ends : end'[f] # "gone" => end[f] # "gone"
  BY <1>0, <1>4 DEF Leave, Reached, There
<1>5. ASSUME NEW d \in Directions, Send(d) \/ Receive(d)
      PROVE  pc' = pc /\ good' = good /\ end' = end
  BY <1>5 DEF Send, Receive
<1>6. ASSUME NEW line \in CommandLines, Launch(line)
      PROVE  pc \notin Stopped /\ good' = good /\ end' = end
  BY <1>6 DEF Launch, Stopped
<1>7. CASE Accept \/ RequestLine \/ Connect \/ Greet
  BY <1>7 DEF Accept, RequestLine, Connect, Greet, Stopped
<1>8. CASE Event \/ TimedOut \/ NoFirst \/ NoMore
  BY <1>8 DEF Event, TimedOut, NoFirst, NoMore, Stopped
<1>9. CASE First \/ Some
  BY <1>9 DEF First, Some, Stopped
<1>10. CASE killProxyServer
  BY <1>10 DEF killProxyServer, Stopped
<1> QED
  BY <1>2, <1>3, <1>4, <1>5, <1>6, <1>7, <1>8, <1>9, <1>10 DEF Next, Thread, Peers

\* A direction in which nothing moves.
SameIn(d) ==
    /\ Arrived(d)' = Arrived(d)
    /\ outbuf'[d] = outbuf[d] /\ inbuf'[d] = inbuf[d]
    /\ wire'[d] \odot toSend'[d] = wire[d] \odot toSend[d]

\* Nothing is lost in it.
LEMMA SameWhole ==
    ASSUME NEW d \in Directions, SameIn(d)
    PROVE  Whole(d)' = Whole(d)
BY DEF SameIn, Whole, Rest

\* Brackets may be moved.
LEMMA Shift ==
    ASSUME NEW a \in Seq(Bytes), NEW b \in Seq(Bytes), NEW x \in Seq(Bytes),
           NEW c \in Seq(Bytes), NEW r \in Seq(Bytes)
    PROVE  /\ a \odot (b \odot x) \in Seq(Bytes) /\ c \odot r \in Seq(Bytes)
           /\ (a \odot b) \odot ((x \odot c) \odot r) = (a \odot (b \odot x)) \odot (c \odot r)
<1>1. b \odot x \in Seq(Bytes) /\ c \odot r \in Seq(Bytes) /\ a \odot b \in Seq(Bytes)
  BY Assoc
<1>2. a \odot (b \odot x) \in Seq(Bytes)
  BY <1>1, Assoc
<1>3. (x \odot c) \odot r = x \odot (c \odot r)
  BY Assoc
<1>4. (a \odot b) \odot (x \odot (c \odot r)) = ((a \odot b) \odot x) \odot (c \odot r)
  BY <1>1, Assoc
<1>5. (a \odot b) \odot x = a \odot (b \odot x)
  BY Assoc
<1> QED
  BY <1>1, <1>2, <1>3, <1>4, <1>5

\* A byte that is flushed has only moved.
LEMMA FlushWhole ==
    ASSUME TypeOK, NEW d \in Directions, SomeSent(d), UNCHANGED <<peers, wire, inbuf>>
    PROVE  /\ Whole(d)' = Whole(d)
           /\ Arrived(d)' \in Seq(Bytes) /\ outbuf'[d] \odot Rest(d) \in Seq(Bytes)
           /\ Whole(d) = Arrived(d)' \odot (outbuf'[d] \odot Rest(d))
<1> DEFINE h == Head(outbuf[d])
<1>1. /\ received[d] \in Seq(Bytes) /\ unread[d] \in Seq(Bytes) /\ outbuf[d] \in Seq(Bytes)
      /\ Rest(d) \in Seq(Bytes)
  BY Parts
<1>2. outbuf[d] # <<>> /\ outbuf'[d] = Tail(outbuf[d]) /\ unread'[d] = Append(unread[d], h)
  BY DEF SomeSent
<1>3. h \in Bytes /\ <<h>> \in Seq(Bytes) /\ Tail(outbuf[d]) \in Seq(Bytes)
      /\ outbuf[d] = <<h>> \odot Tail(outbuf[d])
  BY <1>1, <1>2, HeadFirst
<1> HIDE DEF h
<1>4. unread'[d] = unread[d] \odot <<h>>
  BY <1>1, <1>2, <1>3, AppendIs
<1>5. Arrived(d)' = received[d] \odot unread'[d]
  BY DEF Arrived, peers, \odot
<1>6. Arrived(d) = received[d] \odot unread[d]
  BY DEF Arrived, \odot
<1> DEFINE a == received[d]
           b == unread[d]
           x == <<h>>
           c == Tail(outbuf[d])
           r == Rest(d)
<1>7. a \in Seq(Bytes) /\ b \in Seq(Bytes) /\ x \in Seq(Bytes) /\ c \in Seq(Bytes)
      /\ r \in Seq(Bytes)
  BY <1>1, <1>3
<1> HIDE DEF a, b, x, c, r
<1>8. /\ a \odot (b \odot x) \in Seq(Bytes) /\ c \odot r \in Seq(Bytes)
      /\ (a \odot b) \odot ((x \odot c) \odot r) = (a \odot (b \odot x)) \odot (c \odot r)
  BY <1>7, Shift
<1>9. Arrived(d)' \in Seq(Bytes) /\ outbuf'[d] \odot Rest(d) \in Seq(Bytes)
  BY <1>2, <1>4, <1>5, <1>8 DEF a, b, x, c, r
<1>10. Whole(d) = Arrived(d)' \odot (outbuf'[d] \odot Rest(d))
  BY <1>2, <1>3, <1>4, <1>5, <1>6, <1>8 DEF Whole, a, b, x, c, r
<1>11. Rest(d)' = Rest(d)
  BY DEF Rest, peers
<1> QED
  BY <1>9, <1>10, <1>11 DEF Whole

\* Bytes that are taken and written have only moved, if the stream takes them.
LEMMA PassWhole ==
    ASSUME TypeOK, NEW d \in Directions, NEW n, Takes(d, n), good[Dest(d)],
           Writes(d, SubSeq(Got(d), 1, n)), UNCHANGED <<peers, unread>>
    PROVE  Whole(d)' = Whole(d)
<1> DEFINE s == SubSeq(Got(d), 1, n)
           r == inbuf'[d] \odot (wire'[d] \odot toSend[d])
<1>1. outbuf[d] \in Seq(Bytes) /\ s \in Seq(Bytes) /\ r \in Seq(Bytes) /\ Rest(d) = s \odot r
  BY Parts DEF Takes
<1>2. outbuf'[d] = outbuf[d] \odot s
  BY DEF Writes
<1>3. Rest(d)' = r
  BY DEF Rest, peers
<1> HIDE DEF s, r
<1>4. outbuf'[d] \odot r = outbuf[d] \odot (s \odot r)
  <2>1. (outbuf[d] \odot s) \odot r = outbuf[d] \odot (s \odot r)
    BY <1>1, Assoc
  <2> QED
    BY <1>2, <2>1
<1>5. Arrived(d)' = Arrived(d)
  BY DEF Arrived, peers
<1> QED
  BY <1>1, <1>3, <1>4, <1>5 DEF Whole

\* What the first two reads take is the line and the rest of the header.
LEMMA HeaderRead ==
    ASSUME TypeOK, EarlyInv, pc \in {"line", "header"}, Got("up") # <<>>, Consume("up", 1),
           UNCHANGED <<peers, outbuf, unread>>,
           NEW y \in Bytes, NEW t \in Seq(Bytes), Whole("up") = <<y>> \odot t
    PROVE  /\ inbuf'["up"] \odot (wire'["up"] \odot toSend["up"]) = t
           /\ inbuf'["up"] \in Seq(Bytes) /\ wire'["up"] \odot toSend["up"] \in Seq(Bytes)
           /\ Whole("up")' = t /\ SameIn("down")
<1> USE DEF Directions
<1> DEFINE h == Head(Got("up"))
           r == inbuf'["up"] \odot (wire'["up"] \odot toSend["up"])
<1>1. /\ Takes("up", 1) /\ h \in Bytes /\ SubSeq(Got("up"), 1, 1) = <<h>>
      /\ <<h>> \in Seq(Bytes)
  BY OneTaken
<1>2. r \in Seq(Bytes) /\ Rest("up") = <<h>> \odot r
  BY <1>1 DEF Takes
<1>3. outbuf["up"] = <<>> /\ received["up"] = <<>> /\ unread["up"] = <<>>
  BY DEF EarlyInv, Early, Unlinked, BeforeLine, Nothing
<1>4. Arrived("up") = <<>> /\ Arrived("up")' = <<>> /\ <<>> \in Seq(Bytes)
  <2>1. <<>> \in Seq(Bytes) /\ <<>> \odot <<>> = <<>>
    BY BytesToSend, Unit
  <2> QED
    BY <1>3, <2>1 DEF Arrived, peers, \odot
<1>5. Rest("up") \in Seq(Bytes)
  BY Parts
<1>6. Whole("up") = Rest("up")
  BY <1>3, <1>4, <1>5, Unit DEF Whole
<1>7. Rest("up")' = r
  BY DEF Rest, peers
<1> HIDE DEF h, r
<1>8. Whole("up")' = r
  BY <1>2, <1>3, <1>4, <1>7, Unit DEF Whole
<1>9. r = t
  BY <1>1, <1>2, <1>6, DropFirst
<1>10. SameIn("down")
  BY <1>1 DEF Takes, SameIn, Arrived, peers
<1>11. inbuf'["up"] \in Seq(Bytes) /\ wire'["up"] \in Seq(Bytes) /\ toSend["up"] \in Seq(Bytes)
  BY <1>1, Parts DEF Takes, Stream
<1>12. wire'["up"] \odot toSend["up"] \in Seq(Bytes)
  BY <1>11, Assoc
<1> QED
  BY <1>8, <1>9, <1>10, <1>11, <1>12 DEF r

\* Between good streams nothing is lost.
LEMMA BalanceInvStep ==
    ASSUME IInv, Next
    PROVE  BalanceInv'
<1> SUFFICES ASSUME pc' \notin Stopped, AllGood', NEW d \in Directions, end'[Dest(d)] # "gone"
             PROVE  Whole(d)' = Expected(d)'
  BY DEF BalanceInv, Balanced
<1>1. TypeOK /\ EarlyInv /\ from \in Directions /\ "up" \in Directions /\ "down" \in Directions
      /\ \A e \in Directions : Dest(e) \in Ends
  BY DEF IInv, TypeOK, Directions, Dest, Ends
<1>2. pc \notin Stopped /\ AllGood /\ end[Dest(d)] # "gone"
  BY <1>1, Forward
<1>3. Whole(d) = Expected(d) /\ Expected(d) \in Seq(Bytes)
  <2>1. Whole(d) = Expected(d)
    BY <1>2 DEF IInv, BalanceInv, Balanced
  <2>2. Whole(d) \in Seq(Bytes)
    BY <1>1, Parts, Assoc DEF Whole
  <2> QED
    BY <2>1, <2>2
<1>4. \A e \in Directions : good[Dest(e)]
  BY <1>2 DEF AllGood, Dest
<1>5. ASSUME SameIn(d), Expected(d)' = Expected(d) PROVE Whole(d)' = Expected(d)'
  BY <1>3, <1>5, SameWhole
<1> USE DEF Early, Unlinked, BeforeLine
<1>6. ASSUME NEW line \in CommandLines, Launch(line) PROVE Whole(d)' = Expected(d)'
  <2>1. SameIn(d)
    BY <1>6 DEF Launch, SameIn, Arrived, peers, buffers
  <2>2. Expected(d)' = Expected(d)
    BY <1>6 DEF Launch, Listens, Expected, Stopped
  <2> QED
    BY <1>5, <2>1, <2>2
<1>7. CASE Accept \/ Connect
  <2>1. SameIn(d)
    BY <1>7 DEF Accept, Connect, SameIn, Arrived, peers, buffers
  <2>2. Expected(d)' = Expected(d)
    BY <1>7 DEF Accept, Connect, Expected, Stopped
  <2> QED
    BY <1>5, <2>1, <2>2
<1>8. CASE Event \/ TimedOut \/ NoFirst \/ NoMore \/ killProxyServer
  <2>1. SameIn(d)
    BY <1>8 DEF Event, TimedOut, NoFirst, NoMore, killProxyServer, SameIn, Arrived, peers, buffers
  <2>2. Expected(d)' = Expected(d)
    BY <1>8 DEF Event, TimedOut, NoFirst, NoMore, killProxyServer, Expected, Stopped
  <2> QED
    BY <1>5, <2>1, <2>2
<1>9. CASE RequestLine
  <2>1. /\ pc = "line" /\ pc' = "header" /\ Got("up") # <<>> /\ Consume("up", 1)
        /\ UNCHANGED <<peers, outbuf, unread>>
    BY <1>9 DEF RequestLine, Stopped
  <2>2. CASE d = "up"
    <3>1. Whole("up") = <<Line>> \odot (<<Blank>> \odot UpBytes)
      BY <1>3, <2>1, <2>2 DEF Expected
    <3>2. <<Blank>> \odot UpBytes \in Seq(Bytes) /\ Line \in Bytes
      BY BytesToSend, Assoc
    <3>3. Whole("up")' = <<Blank>> \odot UpBytes
      BY <1>1, <2>1, <3>1, <3>2, HeaderRead
    <3> QED
      BY <2>1, <2>2, <3>3 DEF Expected
  <2>3. CASE d = "down"
    <3>1. Takes("up", 1)
      BY <1>1, <2>1, OneTaken
    <3>2. SameIn("down")
      BY <2>1, <3>1 DEF Takes, SameIn, Arrived, peers, Directions
    <3>3. Expected(d)' = Expected(d)
      BY <2>1, <2>3 DEF Expected
    <3> QED
      BY <1>5, <2>3, <3>2, <3>3
  <2> QED
    BY <2>2, <2>3 DEF Directions
<1>10. CASE Header
  <2>1. /\ pc = "header" /\ pc' = "connect" /\ Got("up") # <<>> /\ Consume("up", 1)
        /\ UNCHANGED <<peers, outbuf, unread>>
    <3>1. ~(good' = [good EXCEPT !["client"] = FALSE])
      BY <1>1 DEF AllGood, TypeOK, Ends
    <3> QED
      BY <1>10, <3>1 DEF Header
  <2>2. CASE d = "up"
    <3>1. Whole("up") = <<Blank>> \odot UpBytes
      BY <1>3, <2>1, <2>2 DEF Expected
    <3>2. UpBytes \in Seq(Bytes) /\ Blank \in Bytes
      BY BytesToSend
    <3>3. Whole("up")' = UpBytes
      BY <1>1, <2>1, <3>1, <3>2, HeaderRead
    <3> QED
      BY <2>1, <2>2, <3>3 DEF Expected
  <2>3. CASE d = "down"
    <3>1. Takes("up", 1)
      BY <1>1, <2>1, OneTaken
    <3>2. SameIn("down")
      BY <2>1, <3>1 DEF Takes, SameIn, Arrived, peers, Directions
    <3>3. Expected(d)' = Expected(d)
      BY <2>1, <2>3 DEF Expected
    <3> QED
      BY <1>5, <2>3, <3>2, <3>3
  <2> QED
    BY <2>2, <2>3 DEF Directions
<1>11. CASE Greet
  <2>1. /\ pc = "ok" /\ pc' = "greet" /\ Put("down", <<OK>>)
        /\ UNCHANGED <<peers, wire, inbuf, unread>>
    BY <1>11 DEF Greet
  <2>2. Writes("down", <<OK>>)
    BY <1>1, <2>1, BytesToSend, Written
  <2>3. CASE d = "up"
    <3>1. SameIn(d)
      BY <2>1, <2>2, <2>3 DEF Writes, SameIn, Arrived, peers, Directions
    <3>2. Expected(d)' = Expected(d)
      BY <2>1, <2>3 DEF Expected
    <3> QED
      BY <1>5, <3>1, <3>2
  <2>4. CASE d = "down"
    <3>1. outbuf[d] = <<>> /\ received[d] = <<>> /\ unread[d] = <<>>
      BY <1>1, <2>1 DEF EarlyInv, Nothing
    <3>2. /\ <<>> \in Seq(Bytes) /\ <<OK>> \in Seq(Bytes) /\ <<>> \odot <<>> = <<>>
          /\ <<>> \odot <<OK>> = <<OK>>
      BY BytesToSend, Unit
    <3>3. Arrived(d) = <<>> /\ Arrived(d)' = <<>>
      BY <2>1, <3>1, <3>2 DEF Arrived, peers, \odot
    <3>4. Rest(d) \in Seq(Bytes) /\ Rest(d)' = Rest(d)
      BY <1>1, <2>1, Parts DEF Rest, peers
    <3>5. Rest(d) = DownBytes
      <4>1. Whole(d) = Rest(d)
        BY <3>1, <3>3, <3>4, Unit DEF Whole
      <4> QED
        BY <1>3, <2>1, <2>4, <4>1 DEF Expected
    <3>6. outbuf'[d] = <<OK>>
      BY <1>4, <2>2, <2>4, <3>1, <3>2 DEF Writes
    <3>7. <<OK>> \odot Rest(d) \in Seq(Bytes)
      BY <3>2, <3>4, Assoc
    <3>8. Whole(d)' = <<OK>> \odot Rest(d)
      BY <3>3, <3>4, <3>6, <3>7, Unit DEF Whole
    <3> QED
      BY <2>1, <2>4, <3>5, <3>8 DEF Expected
  <2> QED
    BY <2>3, <2>4 DEF Directions
<1>12. ASSUME NEW e \in Directions, Flush(e, "greet", "wait") \/ Flush(e, "flush", "some")
       PROVE  Whole(d)' = Expected(d)'
  <2>1. PICK next \in {"wait", "some"} : Flushes(e, next) /\ pc \in {"greet", "flush"}
    BY <1>1, <1>12, FlushWays
  <2>2. Expected(d)' = Expected(d)
    BY <2>1 DEF Flushes, SomeSent, SendFailed, AllSent, Expected
  <2>3. UNCHANGED <<peers, wire, inbuf>>
    BY <2>1 DEF Flushes
  <2>4. CASE d # e \/ AllSent(e, next)
    <3>1. outbuf'[d] = outbuf[d] /\ unread'[d] = unread[d]
      BY <2>1, <2>4 DEF Flushes, AllSent
    <3>2. SameIn(d)
      BY <2>3, <3>1 DEF SameIn, Arrived, peers
    <3> QED
      BY <1>5, <2>2, <3>2
  <2>5. CASE d = e /\ SomeSent(e)
    <3>1. Whole(d)' = Whole(d)
      BY <1>1, <2>3, <2>5, FlushWhole
    <3> QED
      BY <1>3, <2>2, <3>1
  <2>6. CASE d = e /\ SendFailed(e)
    <3>1. good' = [good EXCEPT ![Dest(d)] = FALSE]
      BY <1>2, <2>6 DEF SendFailed
    <3>2. ~AllGood'
      BY <1>1, <3>1 DEF AllGood, TypeOK, Ends, Dest
    <3> QED
      BY <3>2
  <2> QED
    BY <2>1, <2>4, <2>5, <2>6 DEF Flushes
<1>13. CASE First
  <2>1. /\ pc = "first" /\ pc' = "some" /\ Got(from) # <<>> /\ Consume(from, 1)
        /\ Put(from, <<Head(Got(from))>>) /\ UNCHANGED <<peers, unread>>
    BY <1>13 DEF First
  <2>2. /\ Takes(from, 1) /\ SubSeq(Got(from), 1, 1) = <<Head(Got(from))>>
        /\ <<Head(Got(from))>> \in Seq(Bytes)
    BY <1>1, <2>1, OneTaken
  <2>3. Writes(from, SubSeq(Got(from), 1, 1))
    BY <1>1, <2>1, <2>2, Written
  <2>4. Expected(d)' = Expected(d)
    BY <2>1 DEF Expected
  <2>5. CASE d = from
    <3>1. Whole(d)' = Whole(d)
      BY <1>1, <1>4, <2>1, <2>2, <2>3, <2>5, PassWhole
    <3> QED
      BY <1>3, <2>4, <3>1
  <2>6. CASE d # from
    <3>1. SameIn(d)
      BY <2>1, <2>2, <2>3, <2>6 DEF Takes, Writes, SameIn, Arrived, peers
    <3> QED
      BY <1>5, <2>4, <3>1
  <2> QED
    BY <2>5, <2>6
<1>14. CASE Some
  <2>1. /\ pc = "some" /\ pc' = "flush" /\ Consume(from, Len(Got(from)))
        /\ Put(from, Got(from)) /\ UNCHANGED <<peers, unread>>
    BY <1>14 DEF Some
  <2>2. /\ Takes(from, Len(Got(from))) /\ SubSeq(Got(from), 1, Len(Got(from))) = Got(from)
        /\ Got(from) \in Seq(Bytes)
    BY <1>1, <2>1, AllTaken, GotSome
  <2>3. Writes(from, SubSeq(Got(from), 1, Len(Got(from))))
    BY <1>1, <2>1, <2>2, Written
  <2>4. Expected(d)' = Expected(d)
    BY <2>1 DEF Expected
  <2>5. CASE d = from
    <3>1. Whole(d)' = Whole(d)
      BY <1>1, <1>4, <2>1, <2>2, <2>3, <2>5, PassWhole
    <3> QED
      BY <1>3, <2>4, <3>1
  <2>6. CASE d # from
    <3>1. SameIn(d)
      BY <2>1, <2>2, <2>3, <2>6 DEF Takes, Writes, SameIn, Arrived, peers
    <3> QED
      BY <1>5, <2>4, <3>1
  <2> QED
    BY <2>5, <2>6
<1>15. ASSUME NEW e \in Directions, Send(e) PROVE Whole(d)' = Expected(d)'
  <2>1. Sends(e)
    BY <1>1, <1>15, Sent
  <2>2. UNCHANGED <<pc, received, buffers, unread>>
    BY <1>15 DEF Send
  <2>3. SameIn(d)
    BY <2>1, <2>2 DEF Sends, SameIn, Arrived, buffers
  <2> QED
    BY <1>5, <2>2, <2>3 DEF Expected
<1>16. ASSUME NEW e \in Directions, Receive(e) PROVE Whole(d)' = Expected(d)'
  <2>1. Receives(e)
    BY <1>1, <1>16, Received
  <2>2. UNCHANGED <<pc, toSend, wire, buffers>>
    BY <1>16 DEF Receive
  <2>3. SameIn(d)
    BY <2>1, <2>2 DEF Receives, SameIn, buffers
  <2> QED
    BY <1>5, <2>2, <2>3 DEF Expected
<1>17. ASSUME NEW e \in Ends, Leave(e) PROVE Whole(d)' = Expected(d)'
  <2>1. SameIn(d)
    BY <1>17 DEF Leave, SameIn, Arrived, buffers
  <2>2. Expected(d)' = Expected(d)
    BY <1>17 DEF Leave, Expected
  <2> QED
    BY <1>5, <2>1, <2>2
<1> QED
  BY <1>1, <1>6, <1>7, <1>8, <1>9, <1>10, <1>11, <1>12, <1>13, <1>14, <1>15, <1>16, <1>17
     DEF Next, Thread, Peers, Greeted, Flushed

\* What has arrived remains a beginning of what is to arrive.
LEMMA PrefixInvStep ==
    ASSUME IInv, Next
    PROVE  PrefixInv'
<1> SUFFICES ASSUME NEW d \in Directions
             PROVE  IsPrefix(Arrived(d)', ToArrive(d))
  BY DEF PrefixInv, ToArrive
<1>1. TypeOK /\ from \in Directions /\ "down" \in Directions
  BY DEF IInv, TypeOK, Directions
<1>2. ASSUME Arrived(d)' = Arrived(d) PROVE IsPrefix(Arrived(d)', ToArrive(d))
  BY <1>2 DEF IInv, PrefixInv
<1>3. ASSUME NEW e \in Directions, NEW next, Flushes(e, next), good[Source(e)],
             pc \in {"greet", "flush"}
      PROVE  IsPrefix(Arrived(d)', ToArrive(d))
  <2>1. CASE d = e /\ SomeSent(e)
    <3>1. good[Dest(d)] /\ end[Dest(d)] # "gone"
      BY <2>1 DEF SomeSent, There
    <3>2. AllGood
      BY <1>3, <2>1, <3>1 DEF AllGood, Source, Dest
    <3>3. Whole(d) = Expected(d)
      BY <1>3, <3>1, <3>2 DEF IInv, BalanceInv, Balanced, Stopped
    <3>4. Expected(d) = ToArrive(d)
      BY <1>3 DEF Expected, ToArrive, Early, Unlinked, BeforeLine, Directions, \odot
    <3>5. /\ Arrived(d)' \in Seq(Bytes) /\ outbuf'[d] \odot Rest(d) \in Seq(Bytes)
          /\ Whole(d) = Arrived(d)' \odot (outbuf'[d] \odot Rest(d))
      BY <1>1, <1>3, <2>1, FlushWhole DEF Flushes
    <3> QED
      BY <3>3, <3>4, <3>5, Beginning
  <2>2. CASE d # e \/ ~SomeSent(e)
    <3>1. unread'[d] = unread[d] /\ received' = received
      BY <1>3, <2>2 DEF Flushes, SendFailed, AllSent, peers
    <3> QED
      BY <1>2, <3>1 DEF Arrived
  <2> QED
    BY <2>1, <2>2
<1>4. CASE Greeted
  <2>1. Flushes("down", "wait") /\ pc = "greet"
    BY <1>1, <1>4, FlushWays DEF Greeted
  <2>2. good[Source("down")]
    BY <2>1 DEF IInv, FedInv, Source
  <2> QED
    BY <1>1, <1>3, <2>1, <2>2
<1>5. CASE Flushed
  <2>1. Flushes(from, "some") /\ pc = "flush"
    BY <1>1, <1>5, FlushWays DEF Flushed
  <2>2. good[Source(from)]
    BY <2>1 DEF IInv, FedInv
  <2> QED
    BY <1>1, <1>3, <2>1, <2>2
<1>6. ASSUME NEW e \in Directions, Receive(e) PROVE IsPrefix(Arrived(d)', ToArrive(d))
  <2>1. Arrived(d)' = Arrived(d)
    BY <1>1, <1>6, Received DEF Receives
  <2> QED
    BY <1>2, <2>1
<1>7. ASSUME UNCHANGED <<received, unread>> PROVE IsPrefix(Arrived(d)', ToArrive(d))
  BY <1>2, <1>7 DEF Arrived
<1> USE DEF peers, buffers
<1>8. ASSUME NEW line \in CommandLines, Launch(line) PROVE UNCHANGED <<received, unread>>
  BY <1>8 DEF Launch
<1>9. CASE Accept \/ RequestLine \/ Header \/ Connect \/ Greet
  BY <1>7, <1>9 DEF Accept, RequestLine, Header, Connect, Greet
<1>10. CASE Event \/ TimedOut \/ NoFirst \/ NoMore \/ killProxyServer
  BY <1>7, <1>10 DEF Event, TimedOut, NoFirst, NoMore, killProxyServer
<1>11. CASE First \/ Some
  BY <1>7, <1>11 DEF First, Some
<1>12. ASSUME NEW e \in Directions, Send(e) PROVE UNCHANGED <<received, unread>>
  BY <1>12 DEF Send
<1>13. ASSUME NEW e \in Ends, Leave(e) PROVE UNCHANGED <<received, unread>>
  BY <1>13 DEF Leave
<1> QED
  BY <1>4, <1>5, <1>6, <1>7, <1>8, <1>9, <1>10, <1>11, <1>12, <1>13 DEF Next, Thread, Peers

\* One byte more is one member more.
LEMMA MembersOf ==
    ASSUME NEW s \in Seq(Bytes), NEW b \in Bytes
    PROVE  ToSet(s \odot <<b>>) \subseteq ToSet(s) \cup {b} /\ ToSet(<<>>) = {}
<1>1. Len(s) \in Nat /\ DOMAIN s = 1..Len(s)
  BY LenProperties
<1>2. /\ s \odot <<b>> \in Seq(Bytes) /\ DOMAIN (s \odot <<b>>) = 1..Len(s) + 1
      /\ (s \odot <<b>>)[Len(s) + 1] = b
      /\ \A i \in 1..Len(s) : (s \odot <<b>>)[i] = s[i]
  <2>1. Append(s, b) = s \odot <<b>>
    BY AppendIs
  <2>2. /\ Append(s, b) \in Seq(Bytes) /\ Len(Append(s, b)) = Len(s) + 1
        /\ Append(s, b)[Len(s) + 1] = b
        /\ \A i \in 1..Len(s) : Append(s, b)[i] = s[i]
    BY AppendProperties
  <2>3. DOMAIN Append(s, b) = 1..Len(Append(s, b))
    BY <2>2, LenProperties
  <2> QED
    BY <2>1, <2>2, <2>3
<1>3. \A i \in 1..Len(s) + 1 : i \in 1..Len(s) \/ i = Len(s) + 1
  BY <1>1
<1>4. ToSet(s \odot <<b>>) \subseteq ToSet(s) \cup {b}
  BY <1>1, <1>2, <1>3 DEF ToSet
<1>5. ToSet(<<>>) = {}
  BY DEF ToSet
<1> QED
  BY <1>4, <1>5

\* What is held back came one byte at a time.
LEMMA HeldInvStep ==
    ASSUME IInv, Next
    PROVE  HeldInv'
<1> SUFFICES ASSUME NEW d \in Directions
             PROVE  /\ (Kept(d) /\ good[Dest(d)] => ToSet(outbuf[d]) \subseteq alone)'
                    /\ (pc = "greet" /\ d = "up" => outbuf[d] = <<>>)'
  BY DEF HeldInv
<1> DEFINE Held == /\ Kept(d) /\ good[Dest(d)] => ToSet(outbuf[d]) \subseteq alone
                   /\ pc = "greet" /\ d = "up" => outbuf[d] = <<>>
<1>1. TypeOK /\ EarlyInv /\ Held /\ from \in Directions /\ "up" \in Directions
      /\ "down" \in Directions /\ Dest(d) \in Ends
  BY DEF IInv, HeldInv, TypeOK, Directions, Dest, Ends
<1>2. good'[Dest(d)] => good[Dest(d)]
  BY <1>1, Forward
<1> USE DEF Kept, Unpassed, peers, buffers
<1>3. ASSUME pc' \notin {"greet", "wait", "first", "some", "flush"} PROVE Held'
  BY <1>3
<1>4. ASSUME NEW line \in CommandLines, Launch(line) PROVE Held'
  BY <1>3, <1>4 DEF Launch, Listens
<1>5. CASE Accept \/ RequestLine \/ Header \/ Connect
  BY <1>3, <1>5 DEF Accept, RequestLine, Header, Connect
<1>6. CASE TimedOut \/ NoFirst \/ killProxyServer
  BY <1>3, <1>6 DEF TimedOut, NoFirst, killProxyServer
<1>7. CASE Greet
  <2>1. Put("down", <<OK>>) /\ pc = "ok" /\ pc' = "greet"
    BY <1>7 DEF Greet
  <2>2. Writes("down", <<OK>>)
    BY <1>1, <2>1, BytesToSend, Written
  <2>3. d = "up" => outbuf'[d] = <<>>
    BY <1>1, <2>1, <2>2 DEF EarlyInv, Early, Nothing, Writes, Directions
  <2> QED
    BY <2>1, <2>3
<1>8. CASE Greeted
  <2>1. Flushes("down", "wait") /\ pc = "greet"
    BY <1>1, <1>8, FlushWays DEF Greeted
  <2>2. CASE pc' = "greet"
    BY <1>1, <2>1, <2>2 DEF Flushes
  <2>3. CASE pc' # "greet"
    <3>1. AllSent("down", "wait")
      BY <2>1, <2>3 DEF Flushes, SomeSent, SendFailed
    <3>2. outbuf[d] = <<>> \/ ~good[Dest(d)]
      BY <1>1, <2>1, <3>1 DEF AllSent, Directions
    <3>3. ToSet(<<>>) = {}
      BY BytesToSend, MembersOf
    <3> QED
      BY <3>1, <3>2, <3>3 DEF AllSent
  <2> QED
    BY <2>2, <2>3
<1>9. CASE Flushed
  <2>1. Flushes(from, "some") /\ pc = "flush" /\ UNCHANGED <<from, inbuf, alone>>
    BY <1>1, <1>9, FlushWays DEF Flushed, Flushes
  <2>2. pc' \in {"flush", "some"}
    BY <2>1 DEF Flushes, SomeSent, SendFailed, AllSent
  <2>3. CASE d # from
    BY <1>1, <1>2, <2>1, <2>2, <2>3 DEF Flushes
  <2>4. CASE d = from /\ pc' = "some"
    <3>1. AllSent(from, "some")
      BY <2>1, <2>4 DEF Flushes, SomeSent, SendFailed
    <3>2. ToSet(<<>>) = {}
      BY BytesToSend, MembersOf
    <3> QED
      BY <2>4, <3>1, <3>2 DEF AllSent
  <2>5. CASE d = from /\ pc' = "flush"
    BY <2>1, <2>5
  <2> QED
    BY <2>2, <2>3, <2>4, <2>5
<1>10. CASE Event
  BY <1>1, <1>10 DEF Event
<1>11. CASE NoMore
  BY <1>1, <1>11 DEF NoMore
<1>12. CASE First
  <2> DEFINE h == Head(Got(from))
  <2>1. /\ pc = "first" /\ pc' = "some" /\ Got(from) # <<>> /\ Consume(from, 1)
        /\ Put(from, <<h>>) /\ UNCHANGED <<from, good>>
        /\ alone' = IF Len(Got(from)) = 1 THEN alone \cup {h} ELSE alone
    BY <1>12 DEF First
  <2>2. Takes(from, 1) /\ h \in Bytes /\ <<h>> \in Seq(Bytes)
    BY <1>1, <2>1, OneTaken
  <2>3. Writes(from, <<h>>)
    BY <1>1, <2>1, <2>2, Written
  <2> HIDE DEF h
  <2>4. alone \subseteq alone'
    BY <2>1
  <2>5. CASE d # from
    BY <1>1, <2>1, <2>3, <2>4, <2>5 DEF Writes
  <2>6. CASE d = from /\ Len(Got(from)) = 1
    <3>1. outbuf[d] \in Seq(Bytes)
      BY <1>1, Parts
    <3>2. ToSet(outbuf[d] \odot <<h>>) \subseteq ToSet(outbuf[d]) \cup {h}
      BY <2>2, <3>1, MembersOf
    <3>3. good[Dest(d)] => outbuf'[d] = outbuf[d] \odot <<h>>
      BY <2>3, <2>6 DEF Writes
    <3>4. good[Dest(d)] => ToSet(outbuf[d]) \subseteq alone
      BY <1>1, <2>1
    <3> QED
      BY <2>1, <2>6, <3>2, <3>3, <3>4
  <2>7. CASE d = from /\ Len(Got(from)) # 1
    <3>1. Got(from) \in Seq(Bytes) /\ Len(Got(from)) \in Nat \ {0}
      BY <1>1, <2>1, GotSome, HeadFirst
    <3>2. \A i \in 1 + 1..Len(Got(from)) : Got(from)[i] \in Bytes
      BY <3>1, ElementOfSeq
    <3>3. Len(SubSeq(Got(from), 1 + 1, Len(Got(from))))
             = IF 1 + 1 <= Len(Got(from)) THEN Len(Got(from)) - (1 + 1) + 1 ELSE 0
      BY <3>1, <3>2, SubSeqProperties
    <3>4. Len(inbuf'[from]) # 0
      <4>1. inbuf'[from] = SubSeq(Got(from), 1 + 1, Len(Got(from)))
        BY <2>2 DEF Takes
      <4>2. Len(Got(from)) >= 2
        <5>1. \A n \in Nat \ {0} : n # 1 => n >= 2
          OBVIOUS
        <5>2. Len(Got(from)) \in Nat \ {0} /\ Len(Got(from)) # 1
          BY <2>7, <3>1
        <5> QED
          BY <5>1, <5>2
      <4>3. Len(SubSeq(Got(from), 1 + 1, Len(Got(from)))) # 0
        BY <3>1, <3>3, <4>2
      <4> QED
        BY <4>1, <4>3
    <3>5. inbuf'[d] # <<>>
      BY <2>7, <3>4, EmptySeq
    <3> QED
      BY <2>1, <2>7, <3>5
  <2> QED
    BY <2>5, <2>6, <2>7
<1>13. CASE Some
  <2>1. /\ pc = "some" /\ pc' = "flush" /\ Put(from, Got(from)) /\ UNCHANGED <<from, good, alone>>
    BY <1>13 DEF Some
  <2>2. Writes(from, Got(from))
    BY <1>1, <2>1, GotSome, Written
  <2> QED
    BY <1>1, <2>1, <2>2 DEF Writes
<1>14. ASSUME NEW e \in Directions, Send(e) \/ Receive(e) PROVE Held'
  BY <1>1, <1>14 DEF Send, Receive
<1>15. ASSUME NEW e \in Ends, Leave(e) PROVE Held'
  BY <1>1, <1>15 DEF Leave
<1> QED
  BY <1>4, <1>5, <1>6, <1>7, <1>8, <1>9, <1>10, <1>11, <1>12, <1>13, <1>14, <1>15
     DEF Next, Thread, Peers

\* The get areas are empty, but for what came with the header.
LEMMA AheadInvStep ==
    ASSUME IInv, Next
    PROVE  AheadInv'
<1>1. TypeOK /\ EarlyInv /\ AheadInv /\ from \in Directions /\ "up" \in Directions
      /\ "down" \in Directions
  BY DEF IInv, TypeOK, Directions
<1> USE DEF AheadInv, Ahead, peers, buffers
<1>2. ASSUME NEW line \in CommandLines, Launch(line) PROVE AheadInv'
  BY <1>1, <1>2 DEF Launch, Listens, Stopped
<1>3. CASE Accept
  BY <1>1, <1>3 DEF Accept, Stopped
<1>4. ASSUME Got("up") # <<>>, Consume("up", 1) PROVE inbuf'["down"] = inbuf["down"]
  <2>1. Takes("up", 1)
    BY <1>1, <1>4, OneTaken
  <2> QED
    BY <2>1 DEF Takes, Directions
<1>5. CASE RequestLine
  <2>1. inbuf'["down"] = inbuf["down"] \/ pc' = "dead"
    BY <1>4, <1>5 DEF RequestLine
  <2> QED
    BY <1>1, <1>5, <2>1 DEF RequestLine, Stopped
<1>6. CASE Header
  <2>1. inbuf["down"] = <<>> /\ pc = "header" /\ pc' = "connect"
    BY <1>1, <1>6 DEF Header, EarlyInv, Early, Unlinked
  <2>2. CASE Got("up") # <<>> /\ Consume("up", 1) /\ UNCHANGED good
    <3>1. Whole("up") = <<Blank>> \odot UpBytes
      <4>1. AllGood /\ end["origin"] # "gone"
        BY <2>1 DEF IInv, FedInv, EarlyInv, Early, Unlinked, BeforeLine, AllGood
      <4> QED
        BY <1>1, <2>1, <4>1
           DEF IInv, BalanceInv, Balanced, Expected, BeforeLine, Dest, Stopped
    <3>2. UpBytes \in Seq(Bytes) /\ Blank \in Bytes
      BY BytesToSend
    <3>3. /\ inbuf'["up"] \odot (wire'["up"] \odot toSend["up"]) = UpBytes
          /\ inbuf'["up"] \in Seq(Bytes) /\ wire'["up"] \odot toSend["up"] \in Seq(Bytes)
      BY <1>1, <1>6, <2>1, <2>2, <3>1, <3>2, HeaderRead DEF Header
    <3>4. IsPrefix(inbuf'["up"], UpBytes)
      BY <3>3, Beginning
    <3> QED
      BY <1>4, <2>1, <2>2, <3>4
  <2>3. CASE AtEnd("up") /\ UNCHANGED <<wire, inbuf>>
    <3>1. inbuf'["up"] = <<>>
      BY <2>3 DEF AtEnd, Got
    <3>2. IsPrefix(inbuf'["up"], UpBytes)
      BY <3>1, BytesToSend, Beginning
    <3> QED
      BY <2>1, <2>3, <3>2
  <2> QED
    BY <1>6, <2>2, <2>3 DEF Header
<1>7. CASE Connect \/ Greet
  BY <1>1, <1>7 DEF Connect, Greet, Stopped
<1>8. CASE Greeted
  <2>1. Flushes("down", "wait") /\ pc = "greet" /\ UNCHANGED <<from, inbuf>>
    BY <1>1, <1>8, FlushWays DEF Greeted, Flushes
  <2>2. pc' \in {"greet", "wait"}
    BY <2>1 DEF Flushes, SomeSent, SendFailed, AllSent
  <2> QED
    BY <1>1, <2>1, <2>2 DEF Stopped
<1>9. CASE Flushed
  <2>1. Flushes(from, "some") /\ pc = "flush" /\ UNCHANGED <<from, inbuf>>
    BY <1>1, <1>9, FlushWays DEF Flushed, Flushes
  <2>2. pc' \in {"flush", "some"}
    BY <2>1 DEF Flushes, SomeSent, SendFailed, AllSent
  <2> QED
    BY <1>1, <2>1, <2>2 DEF Stopped
<1>10. CASE Event
  BY <1>1, <1>10 DEF Event, Stopped
<1>11. CASE TimedOut \/ NoFirst \/ killProxyServer
  BY <1>1, <1>11 DEF TimedOut, NoFirst, killProxyServer, Stopped
<1>12. CASE NoMore
  <2>1. inbuf[from] = <<>> /\ pc = "some" /\ pc' = "wait" /\ inbuf' = inbuf
    BY <1>12 DEF NoMore
  <2>2. IsPrefix(<<>>, UpBytes)
    BY BytesToSend, Beginning
  <2> QED
    BY <1>1, <2>1, <2>2 DEF Stopped, Directions
<1>13. CASE First
  <2>1. pc = "first" /\ pc' = "some" /\ from' = from
    BY <1>13 DEF First
  <2>2. Takes(from, 1)
    BY <1>1, <1>13, OneTaken DEF First
  <2>3. \A e \in Directions \ {from} : inbuf'[e] = inbuf[e]
    BY <2>2 DEF Takes
  <2> QED
    BY <1>1, <2>1, <2>3 DEF Stopped, Directions
<1>14. CASE Some
  <2>1. pc = "some" /\ pc' = "flush" /\ from' = from
    BY <1>14 DEF Some
  <2>2. Takes(from, Len(Got(from))) /\ inbuf'[from] = <<>>
    BY <1>1, <1>14, AllTaken DEF Some
  <2>3. \A e \in Directions \ {from} : inbuf'[e] = inbuf[e]
    BY <2>2 DEF Takes
  <2> QED
    BY <1>1, <2>1, <2>2, <2>3 DEF Stopped, Directions
<1>15. ASSUME NEW e \in Directions, Send(e) \/ Receive(e) PROVE AheadInv'
  BY <1>1, <1>15 DEF Send, Receive
<1>16. ASSUME NEW e \in Ends, Leave(e) PROVE AheadInv'
  BY <1>1, <1>16 DEF Leave
<1> QED
  BY <1>2, <1>3, <1>5, <1>6, <1>7, <1>8, <1>9, <1>10, <1>11, <1>12, <1>13, <1>14, <1>15, <1>16
     DEF Next, Thread, Peers

-----------------------------------------------------------------------------
(* The theorems.                                                           *)

\* The invariant holds when the proxy starts.
LEMMA InitIInv == Init => IInv
<1> SUFFICES ASSUME Init PROVE IInv
  OBVIOUS
<1>1. /\ UpBytes \in Seq(Bytes) /\ DownBytes \in Seq(Bytes) /\ <<>> \in Seq(Bytes)
      /\ Line \in Bytes /\ Blank \in Bytes /\ <<Line>> \in Seq(Bytes) /\ <<Blank>> \in Seq(Bytes)
  BY BytesToSend
<1>2. <<Line, Blank>> \o UpBytes = <<Line>> \odot (<<Blank>> \odot UpBytes)
  <2> DEFINE a == <<Line>>
             b == <<Blank>>
  <2>1. a \in Seq(Bytes) /\ b \in Seq(Bytes) /\ UpBytes \in Seq(Bytes)
    BY <1>1
  <2>2. <<Line, Blank>> = Append(a, Blank)
    OBVIOUS
  <2>3. Append(a, Blank) = a \odot b
    BY <1>1, AppendIs
  <2> HIDE DEF a, b
  <2>4. (a \odot b) \odot UpBytes = a \odot (b \odot UpBytes)
    BY <2>1, Assoc
  <2>5. <<Line, Blank>> \o UpBytes = (a \odot b) \odot UpBytes
    BY <2>2, <2>3 DEF \odot
  <2> QED
    BY <2>4, <2>5 DEF a, b
<1>3. /\ Script("up") = <<Line>> \odot (<<Blank>> \odot UpBytes) /\ Script("up") \in Seq(Bytes)
      /\ Script("down") = DownBytes
  <2>1. <<Blank>> \odot UpBytes \in Seq(Bytes)
    BY <1>1, Assoc
  <2>2. <<Line>> \odot (<<Blank>> \odot UpBytes) \in Seq(Bytes)
    BY <1>1, <2>1, Assoc
  <2> QED
    BY <1>2, <2>2 DEF Script
<1>4. Nothing \in Stream /\ \A d \in Directions : Nothing[d] = <<>>
  BY <1>1 DEF Nothing, Stream
<1>5. toSend \in Stream /\ \A d \in Directions : toSend[d] = Script(d) /\ toSend[d] \in Seq(Bytes)
  BY <1>1, <1>3 DEF Init, Stream, Directions
<1>6. TypeOK
  BY <1>4, <1>5 DEF Init, TypeOK, Labels, Early, Unlinked, BeforeLine, Directions, Ends
<1>7. EarlyInv /\ FedInv
  BY <1>4 DEF Init, EarlyInv, FedInv, Early, Unlinked, BeforeLine, Ends, Directions
<1>8. ASSUME NEW d \in Directions PROVE Arrived(d) = <<>> /\ Whole(d) = Expected(d)
  <2>1. <<>> \odot <<>> = <<>> /\ <<>> \odot toSend[d] = toSend[d]
    BY <1>1, <1>5, Unit
  <2>2. Arrived(d) = <<>>
    BY <1>4, <2>1 DEF Init, Arrived, \odot
  <2>3. Whole(d) = toSend[d]
    BY <1>4, <2>1, <2>2 DEF Init, Whole, Rest
  <2>4. Expected(d) = toSend[d]
    BY <1>3, <1>5 DEF Init, Expected, Early, Unlinked, BeforeLine, Directions
  <2> QED
    BY <2>2, <2>3, <2>4
<1>9. BalanceInv
  BY <1>8 DEF BalanceInv, Balanced
<1>10. PrefixInv
  <2>1. ASSUME NEW d \in Directions PROVE IsPrefix(<<>>, ToArrive(d))
    <3>1. ToArrive(d) \in Seq(Bytes)
      BY <1>1, BytesToSend DEF ToArrive
    <3> QED
      BY <3>1, Beginning
  <2> QED
    BY <1>8, <2>1 DEF PrefixInv
<1>11. HeldInv /\ AheadInv
  BY <1>4 DEF Init, HeldInv, Kept, AheadInv, Ahead, Directions
<1> QED
  BY <1>6, <1>7, <1>9, <1>10, <1>11 DEF IInv

\* Every step keeps the whole of it.
LEMMA IInvStep == IInv /\ [Next]_vars => IInv'
<1> SUFFICES ASSUME IInv, [Next]_vars PROVE IInv'
  OBVIOUS
<1>1. CASE Next
  BY <1>1, TypeOKStep, EarlyInvStep, FedInvStep, BalanceInvStep, PrefixInvStep, HeldInvStep,
     AheadInvStep DEF IInv
<1>2. CASE UNCHANGED vars
  <2> USE <1>2 DEF vars, peers, buffers
  <2>1. TypeOK' /\ EarlyInv' /\ FedInv'
    BY DEF IInv, TypeOK, EarlyInv, FedInv
  <2>2. BalanceInv'
    <3>1. \A d \in Directions : Whole(d)' = Whole(d) /\ Expected(d)' = Expected(d)
      BY DEF Whole, Arrived, Rest, Expected
    <3> QED
      BY <3>1 DEF IInv, BalanceInv, Balanced, AllGood
  <2>3. PrefixInv'
    BY DEF IInv, PrefixInv, Arrived
  <2>4. HeldInv' /\ AheadInv'
    BY DEF IInv, HeldInv, Kept, Unpassed, AheadInv, Ahead
  <2> QED
    BY <2>1, <2>2, <2>3, <2>4 DEF IInv
<1> QED
  BY <1>1, <1>2

\* It holds for ever.
LEMMA IInvHolds == Spec => []IInv
<1>1. Init => IInv
  BY InitIInv
<1>2. IInv /\ [Next]_vars => IInv'
  BY IInvStep
<1> QED
  BY <1>1, <1>2, PTL DEF Spec

\* An end has got a beginning of what the other has sent, behind the answer and
\* without the header, and between good streams the rest is on its way.
THEOREM NothingLostCorrect == Spec => []NothingLost
<1>1. IInv => NothingLost
  <2> SUFFICES ASSUME IInv, NEW d \in Directions
               PROVE  /\ IsPrefix(Arrived(d), ToArrive(d))
                      /\ pc \in Tunnelling /\ There(Dest(d)) /\ good = [e \in Ends |-> TRUE]
                         => Arrived(d) \o outbuf[d] \o inbuf[d] \o wire[d] \o toSend[d]
                               = ToArrive(d)
    BY DEF NothingLost
  <2>1. IsPrefix(Arrived(d), ToArrive(d))
    BY DEF IInv, PrefixInv
  <2>2. ASSUME pc \in Tunnelling, There(Dest(d)), good = [e \in Ends |-> TRUE]
        PROVE  Arrived(d) \o outbuf[d] \o inbuf[d] \o wire[d] \o toSend[d] = ToArrive(d)
    <3>1. AllGood /\ end[Dest(d)] # "gone" /\ pc \notin Stopped
      BY <2>2 DEF AllGood, Ends, There, Tunnelling, Stopped
    <3>2. Whole(d) = Expected(d)
      BY <3>1 DEF IInv, BalanceInv, Balanced
    <3>3. Expected(d) = ToArrive(d)
      BY <2>2 DEF Expected, ToArrive, Tunnelling, Early, Unlinked, BeforeLine, Directions, \odot
    <3>4. /\ outbuf[d] \in Seq(Bytes) /\ inbuf[d] \in Seq(Bytes) /\ wire[d] \in Seq(Bytes)
          /\ toSend[d] \in Seq(Bytes) /\ Arrived(d) \in Seq(Bytes)
      BY Parts DEF IInv
    <3>5. Whole(d) = Arrived(d) \o outbuf[d] \o inbuf[d] \o wire[d] \o toSend[d]
      <4> DEFINE v == Arrived(d)
                 w == outbuf[d]
                 x == inbuf[d]
                 y == wire[d]
                 z == toSend[d]
      <4>1. v \in Seq(Bytes) /\ w \in Seq(Bytes) /\ x \in Seq(Bytes) /\ y \in Seq(Bytes)
            /\ z \in Seq(Bytes)
        BY <3>4
      <4> HIDE DEF v, w, x, y, z
      <4>2. v \o w \o x \o y \o z = (((v \odot w) \odot x) \odot y) \odot z
        BY DEF \odot
      <4>3. @ = v \odot (w \odot (x \odot (y \odot z)))
        BY <4>1, Regroup
      <4> QED
        BY <4>2, <4>3 DEF Whole, Rest, v, w, x, y, z
    <3> QED
      BY <3>2, <3>3, <3>5
  <2> QED
    BY <2>1, <2>2
<1> QED
  BY <1>1, IInvHolds, PTL

\* While it waits for an event the proxy sits on nothing but bytes that came one
\* at a time and bytes the client has sent right behind its header.
THEOREM HeldBackCorrect == Spec => []HeldBack
<1>1. IInv => HeldBack
  <2> SUFFICES ASSUME IInv, pc = "wait", NEW d \in Directions
               PROVE  /\ good[Dest(d)] => ToSet(outbuf[d]) \subseteq alone
                      /\ inbuf[d] # <<>> => d = "up" /\ IsPrefix(inbuf[d], UpBytes)
    BY DEF HeldBack
  <2>1. good[Dest(d)] => ToSet(outbuf[d]) \subseteq alone
    BY DEF IInv, HeldInv, Kept, Unpassed
  <2>2. inbuf["down"] = <<>> /\ IsPrefix(inbuf["up"], UpBytes)
    BY DEF IInv, AheadInv, Ahead, Stopped
  <2> QED
    BY <2>1, <2>2 DEF Directions
<1> QED
  BY <1>1, IInvHolds, PTL

=============================================================================
