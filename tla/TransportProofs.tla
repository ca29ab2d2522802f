--------------------------- MODULE TransportProofs ---------------------------
(***************************************************************************)
(* Proofs about the two modules that implement net/transport.h, for any    *)
(* messages, sizes, ids and bounds.                                        *)
(*                                                                         *)
(* FrameStream: however the stream is cut into pieces, what is received    *)
(* are the messages of the other end, in order, and all of them when the   *)
(* end of the stream is found.  So the stream implements the transport of  *)
(* MessageTransport.                                                       *)
(*                                                                         *)
(* SecureChannel: whatever transport is below, no nonce is used twice, and *)
(* what is taken is what was sealed, in that order.                        *)
(***************************************************************************)
EXTENDS FrameStream, SecureChannel, SequenceTheorems, TLAPS

(* s are the bytes of the frames of msgs after the first k, or, if the stream is
   not "whole", a part of them from the start; cut[i] is where the frame of
   msgs[i] ends. *)
Encodes(s, msgs, k, extent) ==
  /\ k \in 0..Len(msgs)
  /\ \E cut \in [k..Len(msgs) -> Nat] :
       /\ cut[k] = 0
       /\ \A i, j \in k..Len(msgs) : i <= j => cut[i] <= cut[j]
       /\ \A i \in (k + 1)..Len(msgs) :
            /\ cut[i] = cut[i - 1] + Len(msgs[i]) + 1
            /\ \A j \in 1..(Len(msgs[i]) + 1) :
                 cut[i - 1] + j <= Len(s) => s[cut[i - 1] + j] = wsEncodeFrame(msgs[i])[j]
       /\ Len(s) <= cut[Len(msgs)]
       /\ extent = "whole" => Len(s) = cut[Len(msgs)]

(* The bytes of e that the other end has not made frames of. *)
Stream(e) == buf[Other(e)] \o (wire[e] \o out[e])

Extent(e) == IF e \in discarded THEN "part" ELSE "whole"

(* What was received is what was sent first, and the stream holds the rest. *)
Delivered(e) ==
  LET o == Other(e)
  IN  /\ \A i \in 1..Len(got[o]) : got[o][i] = Copied(sent[e][i])
      /\ Encodes(Stream(e), sent[e], Len(got[o]), Extent(e))

(* An end that found the other one closed had nothing left to take. *)
ReadToTheEnd(e) ==
  ~connected[Other(e)] /\ Other(e) \notin shut
    => e \in shut /\ wire[e] = <<>> /\ ~Complete(buf[Other(e)])

StreamInv ==
  /\ discarded \subseteq shut
  /\ \A e \in End \ gaveUp : Delivered(e)
  /\ \A e \in End : ReadToTheEnd(e)
----------------------------------------------------------------------------
(* Frames and sequences. *)

LEMMA FrameIs ==
  ASSUME NEW m \in Message
  PROVE  /\ Len(m) \in 1..MaxPayload /\ m \in Seq(Byte)
         /\ wsEncodeFrame(m) \in Seq(Byte) /\ Len(wsEncodeFrame(m)) = Len(m) + 1
         /\ wsEncodeFrame(m)[1] = Len(m)
         /\ \A i \in 1..Len(m) : wsEncodeFrame(m)[i + 1] = m[i]
<1>1. Len(m) \in 1..MaxPayload /\ m \in Seq(Byte) /\ MaxPayload \in Nat
  BY StreamAssumption
<1> DEFINE h == <<Len(m)>>
<1>2. Len(m) \in Byte
  BY <1>1 DEF Byte
<1>3. h \in Seq(Byte) /\ Len(h) = 1 /\ h[1] = Len(m)
  BY <1>2
<1> HIDE DEF h
<1>4. /\ h \o m \in Seq(Byte) /\ Len(h \o m) = Len(h) + Len(m)
      /\ \A i \in 1..(Len(h) + Len(m)) :
           (h \o m)[i] = IF i <= Len(h) THEN h[i] ELSE m[i - Len(h)]
  BY <1>1, <1>3, ConcatProperties
<1> DEFINE f == h \o m
<1>5. f = wsEncodeFrame(m)
  BY DEF wsEncodeFrame, h
<1> HIDE DEF f
<1>6. f \in Seq(Byte) /\ Len(f) = 1 + Len(m)
      /\ \A i \in 1..(1 + Len(m)) : f[i] = IF i <= 1 THEN h[i] ELSE m[i - 1]
  BY <1>3, <1>4 DEF f
<1>7. f[1] = Len(m)
  BY <1>1, <1>3, <1>6
<1>8. ASSUME NEW i \in 1..Len(m) PROVE f[i + 1] = m[i]
  <2>1. i + 1 \in 1..(1 + Len(m)) /\ ~(i + 1 <= 1) /\ (i + 1) - 1 = i
    BY <1>1
  <2> QED BY <1>6, <2>1
<1> QED BY <1>1, <1>5, <1>6, <1>7, <1>8

(* A sequence and its first n members. *)
LEMMA Split ==
  ASSUME NEW S, NEW s \in Seq(S), NEW n \in 0..Len(s)
  PROVE  /\ SubSeq(s, 1, n) \in Seq(S) /\ SubSeq(s, n + 1, Len(s)) \in Seq(S)
         /\ Len(SubSeq(s, 1, n)) = n /\ Len(SubSeq(s, n + 1, Len(s))) = Len(s) - n
         /\ \A i \in 1..n : SubSeq(s, 1, n)[i] = s[i]
         /\ \A i \in 1..(Len(s) - n) : SubSeq(s, n + 1, Len(s))[i] = s[n + i]
         /\ SubSeq(s, 1, n) \o SubSeq(s, n + 1, Len(s)) = s
<1> DEFINE l == Len(s)
<1>0. l \in Nat /\ n \in Nat /\ n <= l /\ \A i \in 1..l : s[i] \in S
  BY LenProperties, ElementOfSeq
<1>1. \A i \in 1..n : s[i] \in S
  BY <1>0
<1>2. \A i \in (n + 1)..l : s[i] \in S
  BY <1>0
<1> DEFINE a == SubSeq(s, 1, n)
           b == SubSeq(s, n + 1, l)
<1>3. /\ a \in Seq(S) /\ Len(a) = IF 1 <= n THEN n - 1 + 1 ELSE 0
      /\ \A i \in 1..(n - 1 + 1) : a[i] = s[1 + i - 1]
  BY <1>0, <1>1, SubSeqProperties
<1>4. /\ b \in Seq(S) /\ Len(b) = IF n + 1 <= l THEN l - (n + 1) + 1 ELSE 0
      /\ \A i \in 1..(l - (n + 1) + 1) : b[i] = s[n + 1 + i - 1]
  BY <1>0, <1>2, SubSeqProperties
<1> HIDE DEF a, b, l
<1>5. Len(a) = n /\ Len(b) = l - n
  BY <1>0, <1>3, <1>4
<1>6. ASSUME NEW i \in 1..n PROVE a[i] = s[i]
  <2>1. i \in 1..(n - 1 + 1) /\ 1 + i - 1 = i
    BY <1>0
  <2> QED BY <1>3, <2>1
<1>7. ASSUME NEW i \in 1..(l - n) PROVE b[i] = s[n + i]
  <2>1. i \in 1..(l - (n + 1) + 1) /\ n + 1 + i - 1 = n + i
    BY <1>0
  <2> QED BY <1>4, <2>1
<1>8. a \o b = s
  <2> DEFINE c == a \o b
  <2>1. /\ c \in Seq(S) /\ Len(c) = Len(a) + Len(b)
        /\ \A i \in 1..(Len(a) + Len(b)) : c[i] = IF i <= Len(a) THEN a[i] ELSE b[i - Len(a)]
    BY <1>3, <1>4, ConcatProperties
  <2> HIDE DEF c
  <2>2. Len(c) = l
    BY <1>0, <1>5, <2>1
  <2>3. ASSUME NEW i \in 1..l PROVE c[i] = s[i]
    <3>1. c[i] = IF i <= n THEN a[i] ELSE b[i - n]
      BY <1>0, <1>5, <2>1
    <3>2. CASE i <= n
      BY <1>0, <1>6, <3>1, <3>2
    <3>3. CASE ~(i <= n)
      <4>1. i - n \in 1..(l - n) /\ n + (i - n) = i
        BY <1>0, <3>3
      <4> QED BY <1>7, <3>1, <3>3, <4>1
    <3> QED BY <3>2, <3>3
  <2>4. Len(c) = Len(s) /\ \A i \in 1..Len(c) : c[i] = s[i]
    BY <2>2, <2>3 DEF l
  <2>5. c = s
    BY <2>1, <2>4, SeqEqual
  <2> QED BY <2>5 DEF c
<1> QED BY <1>3, <1>4, <1>5, <1>6, <1>7, <1>8 DEF a, b, l
----------------------------------------------------------------------------
(* What the stream says of the bytes. *)

(* Nothing is sent and nothing is on the way. *)
LEMMA EncodesNothing == Encodes(<<>>, <<>>, 0, "whole")
<1> DEFINE cut == [i \in {0} |-> 0]
<1>1. cut \in [0..0 -> Nat] /\ cut[0] = 0
  OBVIOUS
<1>2. Len(<<>>) = 0
  OBVIOUS
<1> HIDE DEF cut
<1> QED BY <1>1, <1>2 DEF Encodes

(* A message is sent behind the others. *)
LEMMA EncodesSend ==
  ASSUME NEW s \in Seq(Byte), NEW msgs \in Seq(Message), NEW k, Encodes(s, msgs, k, "whole"),
         NEW m \in Message
  PROVE  Encodes(s \o wsEncodeFrame(m), Append(msgs, m), k, "whole")
<1> DEFINE n == Len(msgs)
           more == Append(msgs, m)
           f == wsEncodeFrame(m)
           t == s \o f
<1>1. n \in Nat /\ k \in 0..n /\ Len(s) \in Nat
  BY LenProperties DEF Encodes
<1>2. PICK cut \in [k..n -> Nat] :
        /\ cut[k] = 0
        /\ \A i, j \in k..n : i <= j => cut[i] <= cut[j]
        /\ \A i \in (k + 1)..n :
             /\ cut[i] = cut[i - 1] + Len(msgs[i]) + 1
             /\ \A j \in 1..(Len(msgs[i]) + 1) :
                  cut[i - 1] + j <= Len(s) => s[cut[i - 1] + j] = wsEncodeFrame(msgs[i])[j]
        /\ Len(s) = cut[n]
  BY DEF Encodes
<1>3. Len(m) \in Nat /\ f \in Seq(Byte) /\ Len(f) = Len(m) + 1
  BY FrameIs
<1>4. /\ Len(t) = Len(s) + Len(f)
      /\ \A i \in 1..(Len(s) + Len(f)) : t[i] = IF i <= Len(s) THEN s[i] ELSE f[i - Len(s)]
  BY <1>3, ConcatProperties
<1>5. Len(more) = n + 1 /\ more[n + 1] = m /\ \A i \in 1..n : more[i] = msgs[i]
  BY AppendProperties
<1>6. \A i \in 1..n : Len(msgs[i]) \in Nat
  BY FrameIs, ElementOfSeq
<1> DEFINE new == [i \in k..(n + 1) |-> IF i = n + 1 THEN cut[n] + Len(m) + 1 ELSE cut[i]]
<1> HIDE DEF n, more, f, t
<1>7. n \in k..n /\ \A i \in k..(n + 1) : i # n + 1 => i \in k..n
  BY <1>1
<1>8. \A i \in k..n : i # n + 1 /\ i \in k..(n + 1)
  BY <1>1
<1>9. new \in [k..(n + 1) -> Nat] /\ new[n + 1] = cut[n] + Len(m) + 1 /\ \A i \in k..n : new[i] = cut[i]
  <2>1. cut[n] + Len(m) + 1 \in Nat
    BY <1>2, <1>3, <1>7
  <2>2. n + 1 \in k..(n + 1)
    BY <1>1
  <2> QED BY <1>2, <1>7, <1>8, <2>1, <2>2
<1> HIDE DEF new
<1>10. new[k] = 0
  BY <1>1, <1>2, <1>9
<1>11. ASSUME NEW i \in k..(n + 1), NEW j \in k..(n + 1), i <= j PROVE new[i] <= new[j]
  <2>1. CASE j = n + 1
    <3>1. CASE i = n + 1
      BY <1>9, <2>1, <3>1
    <3>2. CASE i # n + 1
      <4>1. i \in k..n /\ i <= n
        BY <1>1, <3>2
      <4>2. new[i] = cut[i] /\ cut[i] <= cut[n] /\ cut[i] \in Nat /\ cut[n] \in Nat
        BY <1>2, <1>7, <1>9, <4>1
      <4> QED BY <1>3, <1>9, <2>1, <4>2
    <3> QED BY <3>1, <3>2
  <2>2. CASE j # n + 1
    <3>1. i \in k..n /\ j \in k..n
      BY <1>1, <1>11, <2>2
    <3> QED BY <1>2, <1>9, <1>11, <3>1
  <2> QED BY <2>1, <2>2
<1>12. Len(t) = new[n + 1]
  BY <1>1, <1>2, <1>3, <1>4, <1>7, <1>9
<1>13. ASSUME NEW i \in (k + 1)..(n + 1)
       PROVE  /\ new[i] = new[i - 1] + Len(more[i]) + 1
              /\ \A j \in 1..(Len(more[i]) + 1) :
                   new[i - 1] + j <= Len(t) => t[new[i - 1] + j] = wsEncodeFrame(more[i])[j]
  <2>1. CASE i = n + 1
    <3>1. i - 1 = n /\ more[i] = m /\ new[i - 1] = cut[n] /\ cut[n] \in Nat
      BY <1>1, <1>2, <1>5, <1>7, <1>9, <2>1
    <3>2. ASSUME NEW j \in 1..(Len(m) + 1) PROVE t[cut[n] + j] = f[j]
      <4>1. cut[n] + j \in 1..(Len(s) + Len(f)) /\ ~(cut[n] + j <= Len(s))
            /\ (cut[n] + j) - Len(s) = j
        BY <1>1, <1>2, <1>3, <3>1
      <4> QED BY <1>4, <4>1
    <3> QED BY <1>9, <2>1, <3>1, <3>2 DEF f
  <2>2. CASE i # n + 1
    <3>1. i \in (k + 1)..n /\ i \in k..n /\ i - 1 \in k..n /\ i \in 1..n /\ i <= n
      BY <1>1, <2>2
    <3>2. more[i] = msgs[i] /\ new[i] = cut[i] /\ new[i - 1] = cut[i - 1] /\ Len(msgs[i]) \in Nat
      BY <1>5, <1>6, <1>9, <3>1
    <3>3. cut[i] = cut[i - 1] + Len(msgs[i]) + 1 /\ cut[i] <= cut[n] /\ cut[i] \in Nat /\ cut[i - 1] \in Nat
      BY <1>2, <1>7, <3>1
    <3>4. ASSUME NEW j \in 1..(Len(msgs[i]) + 1)
          PROVE  t[cut[i - 1] + j] = wsEncodeFrame(msgs[i])[j]
      <4>0. cut[n] \in Nat /\ Len(s) = cut[n] /\ Len(f) \in Nat
        BY <1>2, <1>3, <1>7
      <4>1. cut[i - 1] + j <= Len(s) /\ cut[i - 1] + j \in 1..(Len(s) + Len(f))
        <5> DEFINE x == cut[i - 1]
                   y == cut[i]
                   l == Len(msgs[i])
                   z == Len(s)
        <5>1. /\ x \in Nat /\ y \in Nat /\ l \in Nat /\ z \in Nat /\ Len(f) \in Nat
              /\ y = x + l + 1 /\ y <= z /\ j \in 1..(l + 1)
          BY <3>2, <3>3, <4>0
        <5> HIDE DEF x, y, l, z
        <5>2. x + j <= z /\ x + j \in 1..(z + Len(f))
          BY <5>1
        <5> QED BY <5>2 DEF x, z
      <4>2. s[cut[i - 1] + j] = wsEncodeFrame(msgs[i])[j]
        BY <1>2, <3>1, <4>1
      <4> QED BY <1>4, <4>1, <4>2
    <3> QED BY <3>2, <3>3, <3>4
  <2> QED BY <2>1, <2>2
<1>14. k \in 0..(n + 1)
  BY <1>1
<1>15. Len(t) <= new[n + 1]
  <2>1. new[n + 1] \in Nat /\ n + 1 \in k..(n + 1)
    BY <1>1, <1>9
  <2> QED BY <1>12, <2>1
<1>16. Encodes(t, more, k, "whole")
  <2> DEFINE l == Len(more)
  <2>1. l = n + 1 /\ k \in 0..l /\ new \in [k..l -> Nat]
    BY <1>5, <1>9, <1>14
  <2> HIDE DEF l
  <2>2. /\ \A i, j \in k..l : i <= j => new[i] <= new[j]
        /\ \A i \in (k + 1)..l :
             /\ new[i] = new[i - 1] + Len(more[i]) + 1
             /\ \A j \in 1..(Len(more[i]) + 1) :
                  new[i - 1] + j <= Len(t) => t[new[i - 1] + j] = wsEncodeFrame(more[i])[j]
    BY <1>11, <1>13, <2>1
  <2>3. Len(t) <= new[l] /\ Len(t) = new[l]
    BY <1>12, <1>15, <2>1
  <2> QED BY <1>10, <2>1, <2>2, <2>3 DEF Encodes, l
<1> QED BY <1>16 DEF t, more, f

(* A part of the stream from the start is a part of the stream. *)
LEMMA EncodesPart ==
  ASSUME NEW s \in Seq(Byte), NEW msgs \in Seq(Message), NEW k, NEW w, Encodes(s, msgs, k, w),
         NEW a \in Seq(Byte), NEW b \in Seq(Byte), s = a \o b
  PROVE  Encodes(a, msgs, k, "part")
<1> DEFINE n == Len(msgs)
<1>1. n \in Nat /\ k \in 0..n /\ Len(s) \in Nat /\ Len(a) \in Nat /\ Len(b) \in Nat
  BY LenProperties DEF Encodes
<1>2. PICK cut \in [k..n -> Nat] :
        /\ cut[k] = 0
        /\ \A i, j \in k..n : i <= j => cut[i] <= cut[j]
        /\ \A i \in (k + 1)..n :
             /\ cut[i] = cut[i - 1] + Len(msgs[i]) + 1
             /\ \A j \in 1..(Len(msgs[i]) + 1) :
                  cut[i - 1] + j <= Len(s) => s[cut[i - 1] + j] = wsEncodeFrame(msgs[i])[j]
        /\ Len(s) <= cut[n]
  BY DEF Encodes
<1>3. /\ Len(s) = Len(a) + Len(b)
      /\ \A i \in 1..(Len(a) + Len(b)) : s[i] = IF i <= Len(a) THEN a[i] ELSE b[i - Len(a)]
  BY ConcatProperties
<1>4. Len(a) <= cut[n]
  <2>1. n \in k..n
    BY <1>1
  <2>2. cut[n] \in Nat
    BY <1>2, <2>1
  <2>3. Len(s) <= cut[n]
    BY <1>2
  <2> QED BY <1>1, <1>3, <2>2, <2>3
<1>5. \A i \in 1..n : Len(msgs[i]) \in Nat
  <2> SUFFICES ASSUME NEW i \in 1..n PROVE Len(msgs[i]) \in Nat
    OBVIOUS
  <2>1. msgs[i] \in Message
    BY ElementOfSeq
  <2> QED BY <2>1, FrameIs
<1> HIDE DEF n
<1>6. ASSUME NEW i \in (k + 1)..n, NEW j \in 1..(Len(msgs[i]) + 1), cut[i - 1] + j <= Len(a)
      PROVE  a[cut[i - 1] + j] = wsEncodeFrame(msgs[i])[j]
  <2>1. i - 1 \in k..n /\ i \in 1..n
    BY <1>1
  <2>2. cut[i - 1] \in Nat /\ Len(msgs[i]) \in Nat
    BY <1>2, <1>5, <2>1
  <2>3. cut[i - 1] + j \in 1..(Len(a) + Len(b)) /\ cut[i - 1] + j <= Len(s)
    BY <1>1, <1>3, <1>6, <2>2, SMTT(30)
  <2>4. s[cut[i - 1] + j] = a[cut[i - 1] + j]
    BY <1>3, <1>6, <2>3
  <2> QED BY <1>2, <2>3, <2>4
<1> QED BY <1>1, <1>2, <1>4, <1>6 DEF Encodes, n

(* The stream begins with a frame: the next message. *)
LEMMA EncodesHead ==
  ASSUME NEW s \in Seq(Byte), NEW msgs \in Seq(Message), NEW k, NEW w, Encodes(s, msgs, k, w),
         s # <<>>
  PROVE  /\ k < Len(msgs) /\ msgs[k + 1] \in Message
         /\ Head(s) = Len(msgs[k + 1])
         /\ \A j \in 1..(Len(msgs[k + 1]) + 1) :
              j <= Len(s) => s[j] = wsEncodeFrame(msgs[k + 1])[j]
<1> DEFINE n == Len(msgs)
<1>1. n \in Nat /\ k \in 0..n /\ Len(s) \in Nat /\ Len(s) > 0
  BY LenProperties, HeadTailProperties DEF Encodes
<1>2. PICK cut \in [k..n -> Nat] :
        /\ cut[k] = 0
        /\ \A i \in (k + 1)..n :
             \A j \in 1..(Len(msgs[i]) + 1) :
                  cut[i - 1] + j <= Len(s) => s[cut[i - 1] + j] = wsEncodeFrame(msgs[i])[j]
        /\ Len(s) <= cut[n]
  BY DEF Encodes
<1>3. k < n
  BY <1>1, <1>2
<1>4. k + 1 \in 1..n /\ k + 1 \in (k + 1)..n /\ (k + 1) - 1 = k
  BY <1>1, <1>3
<1>5. msgs[k + 1] \in Message
  BY <1>4, ElementOfSeq
<1> DEFINE m == msgs[k + 1]
<1>6. Len(m) \in Nat /\ wsEncodeFrame(m)[1] = Len(m)
  BY <1>5, FrameIs
<1>7. \A j \in 1..(Len(m) + 1) : j <= Len(s) => s[j] = wsEncodeFrame(m)[j]
  <2> HIDE DEF m, n
  <2> TAKE j \in 1..(Len(m) + 1)
  <2>1. cut[(k + 1) - 1] + j <= Len(s) => s[cut[(k + 1) - 1] + j] = wsEncodeFrame(m)[j]
    BY <1>2, <1>4 DEF m
  <2>2. cut[(k + 1) - 1] + j = j
    BY <1>2, <1>4, <1>6
  <2> QED BY <2>1, <2>2
<1>8. Head(s) = Len(m)
  <2>1. Head(s) = s[1] /\ 1 \in 1..(Len(m) + 1) /\ 1 <= Len(s)
    BY <1>1, <1>6, HeadTailProperties
  <2> QED BY <1>6, <1>7, <2>1
<1> QED BY <1>3, <1>5, <1>7, <1>8

(* A whole stream that does not begin with a complete frame is at its end. *)
LEMMA EncodesEnd ==
  ASSUME NEW s \in Seq(Byte), NEW msgs \in Seq(Message), NEW k, Encodes(s, msgs, k, "whole"),
         ~Complete(s)
  PROVE  k = Len(msgs)
<1> DEFINE n == Len(msgs)
<1>1. n \in Nat /\ k \in 0..n /\ Len(s) \in Nat
  BY LenProperties DEF Encodes
<1>2. PICK cut \in [k..n -> Nat] :
        /\ cut[k] = 0
        /\ \A i, j \in k..n : i <= j => cut[i] <= cut[j]
        /\ \A i \in (k + 1)..n : cut[i] = cut[i - 1] + Len(msgs[i]) + 1
        /\ Len(s) = cut[n]
  BY DEF Encodes
<1> SUFFICES ASSUME k < n PROVE FALSE
  BY <1>1
<1>3. /\ k + 1 \in 1..n /\ k + 1 \in (k + 1)..n /\ k + 1 \in k..n /\ n \in k..n /\ k + 1 <= n
      /\ (k + 1) - 1 = k
  BY <1>1
<1>4. msgs[k + 1] \in Message
  BY <1>3, ElementOfSeq
<1>5. Len(msgs[k + 1]) \in 1..MaxPayload /\ MaxPayload \in Nat
  BY <1>4, FrameIs, StreamAssumption
<1>6. cut[k + 1] = Len(msgs[k + 1]) + 1 /\ cut[k + 1] <= cut[n]
  <2>1. cut[k + 1] = cut[k] + Len(msgs[k + 1]) + 1 /\ cut[k + 1] <= cut[n]
    BY <1>2, <1>3
  <2> QED BY <1>2, <1>5, <2>1
<1>7. Len(s) > Len(msgs[k + 1])
  BY <1>1, <1>2, <1>5, <1>6
<1>8. s # <<>>
  BY <1>5, <1>7
<1>9. Head(s) = Len(msgs[k + 1])
  <2>1. Encodes(s, msgs, k, "whole")
    OBVIOUS
  <2> QED BY <1>8, <2>1, EncodesHead
<1> QED BY <1>5, <1>7, <1>8, <1>9 DEF Complete

(* The first frame is taken off: its payload is the next message, and the rest
   of the stream is that of the rest of the messages. *)
LEMMA EncodesTake ==
  ASSUME NEW b \in Seq(Byte), NEW r \in Seq(Byte), NEW msgs \in Seq(Message), NEW k, NEW w,
         Encodes(b \o r, msgs, k, w), Complete(b)
  PROVE  /\ k < Len(msgs) /\ msgs[k + 1] \in Message
         /\ Payload(b) = msgs[k + 1]
         /\ Rest(b) \in Seq(Byte)
         /\ Encodes(Rest(b) \o r, msgs, k + 1, w)
<1> DEFINE n == Len(msgs)
           s == b \o r
           l == Len(msgs[k + 1])
           c == Rest(b)
           t == c \o r
<1>1. /\ b # <<>> /\ Len(b) > Head(b) /\ Len(b) \in Nat /\ Len(b) > 0 /\ Head(b) = b[1]
      /\ Len(r) \in Nat
  BY HeadTailProperties, LenProperties DEF Complete
<1>2. /\ s \in Seq(Byte) /\ Len(s) = Len(b) + Len(r)
      /\ \A i \in 1..(Len(b) + Len(r)) : s[i] = IF i <= Len(b) THEN b[i] ELSE r[i - Len(b)]
  BY ConcatProperties
<1>3. s # <<>>
  BY <1>1, <1>2
<1>4. Head(s) = Head(b)
  BY <1>1, <1>2, <1>3, HeadTailProperties
<1>5. /\ k < n /\ msgs[k + 1] \in Message /\ Head(b) = l
      /\ \A j \in 1..(l + 1) : j <= Len(s) => s[j] = wsEncodeFrame(msgs[k + 1])[j]
  <2>1. s \in Seq(Byte) /\ s # <<>> /\ Encodes(s, msgs, k, w)
    BY <1>2, <1>3
  <2> HIDE DEF s, n, l
  <2>2. /\ k < Len(msgs) /\ msgs[k + 1] \in Message /\ Head(s) = Len(msgs[k + 1])
        /\ \A j \in 1..(Len(msgs[k + 1]) + 1) :
             j <= Len(s) => s[j] = wsEncodeFrame(msgs[k + 1])[j]
    BY <2>1, EncodesHead, SMTT(60)
  <2> QED BY <1>4, <2>2 DEF n, l
<1>6. /\ l \in Nat /\ msgs[k + 1] \in Seq(Byte)
      /\ \A i \in 1..l : wsEncodeFrame(msgs[k + 1])[i + 1] = msgs[k + 1][i]
  BY <1>5, FrameIs, SMTT(30)
<1>7. Len(b) >= l + 1
  BY <1>1, <1>5, <1>6
<1>8. Payload(b) = msgs[k + 1]
  <2>1. \A i \in 2..(l + 1) : b[i] \in Byte
    BY <1>1, <1>6, <1>7, ElementOfSeq
  <2> DEFINE p == SubSeq(b, 2, l + 1)
  <2>2. /\ p \in Seq(Byte) /\ Len(p) = IF 2 <= l + 1 THEN (l + 1) - 2 + 1 ELSE 0
        /\ \A i \in 1..((l + 1) - 2 + 1) : p[i] = b[2 + i - 1]
    BY <1>6, <2>1, SubSeqProperties
  <2> HIDE DEF p
  <2>3. Len(p) = l
    BY <1>6, <2>2
  <2>4. ASSUME NEW i \in 1..l PROVE p[i] = msgs[k + 1][i]
    <3>1. i \in 1..((l + 1) - 2 + 1) /\ 2 + i - 1 = i + 1 /\ i + 1 \in 1..(l + 1)
          /\ i + 1 <= Len(b) /\ i + 1 \in 1..(Len(b) + Len(r)) /\ i + 1 <= Len(s)
      BY <1>1, <1>2, <1>6, <1>7
    <3>2. p[i] = s[i + 1]
      BY <1>2, <2>2, <3>1
    <3> QED BY <1>5, <1>6, <3>1, <3>2
  <2>5. p = msgs[k + 1]
    BY <1>6, <2>2, <2>3, <2>4, SeqEqual
  <2> QED BY <1>5, <2>5 DEF Payload, p
<1>9. /\ c \in Seq(Byte) /\ Len(c) = Len(b) - (l + 1)
      /\ \A i \in 1..(Len(b) - (l + 1)) : c[i] = b[(l + 1) + i]
  <2>1. l + 1 \in 0..Len(b) /\ (l + 1) + 1 = l + 2
    BY <1>1, <1>6, <1>7
  <2>2. Rest(b) = SubSeq(b, (l + 1) + 1, Len(b))
    BY <1>5, <2>1 DEF Rest
  <2> DEFINE e == l + 1
  <2>3. e \in 0..Len(b) /\ c = SubSeq(b, e + 1, Len(b))
    BY <2>1, <2>2
  <2> HIDE DEF c, e
  <2>4. /\ SubSeq(b, e + 1, Len(b)) \in Seq(Byte) /\ Len(SubSeq(b, e + 1, Len(b))) = Len(b) - e
        /\ \A i \in 1..(Len(b) - e) : SubSeq(b, e + 1, Len(b))[i] = b[e + i]
    BY <2>3, Split
  <2> QED BY <2>3, <2>4 DEF e
<1> HIDE DEF c
<1>10. /\ t \in Seq(Byte) /\ Len(t) = Len(c) + Len(r)
       /\ \A i \in 1..(Len(c) + Len(r)) : t[i] = IF i <= Len(c) THEN c[i] ELSE r[i - Len(c)]
  BY <1>9, ConcatProperties
<1>11. k \in 0..n /\ n \in Nat
  BY LenProperties DEF Encodes
<1>12. PICK cut \in [k..n -> Nat] :
        /\ cut[k] = 0
        /\ \A i, j \in k..n : i <= j => cut[i] <= cut[j]
        /\ \A i \in (k + 1)..n :
             /\ cut[i] = cut[i - 1] + Len(msgs[i]) + 1
             /\ \A j \in 1..(Len(msgs[i]) + 1) :
                  cut[i - 1] + j <= Len(s) => s[cut[i - 1] + j] = wsEncodeFrame(msgs[i])[j]
        /\ Len(s) <= cut[n]
        /\ w = "whole" => Len(s) = cut[n]
  BY DEF Encodes
<1>13. \A i \in 1..n : Len(msgs[i]) \in Nat
  BY FrameIs, ElementOfSeq
<1> HIDE DEF s, t, n, l
<1>14. Len(t) = Len(s) - (l + 1) /\ Len(t) \in Nat /\ Len(s) \in Nat
  BY <1>1, <1>2, <1>6, <1>7, <1>9, <1>10
<1>15. ASSUME NEW i \in 1..Len(t) PROVE t[i] = s[(l + 1) + i]
  <2>1. (l + 1) + i \in 1..(Len(b) + Len(r)) /\ i \in 1..(Len(c) + Len(r))
    BY <1>1, <1>2, <1>6, <1>7, <1>9, <1>10, <1>14
  <2>2. CASE i <= Len(c)
    <3>1. (l + 1) + i <= Len(b) /\ i \in 1..(Len(b) - (l + 1))
      BY <1>1, <1>6, <1>7, <1>9, <2>2
    <3> QED BY <1>2, <1>9, <1>10, <2>1, <2>2, <3>1
  <2>3. CASE ~(i <= Len(c))
    <3>1. ~((l + 1) + i <= Len(b)) /\ ((l + 1) + i) - Len(b) = i - Len(c)
      BY <1>1, <1>6, <1>7, <1>9, <2>3
    <3> QED BY <1>2, <1>10, <2>1, <2>3, <3>1
  <2> QED BY <2>2, <2>3
<1>16. k + 1 \in 0..n /\ k + 1 \in k..n /\ k + 1 \in (k + 1)..n /\ (k + 1) - 1 = k
       /\ n \in (k + 1)..n /\ n \in k..n
  BY <1>5, <1>11 DEF n
<1>17. cut[k + 1] = l + 1
  <2>1. cut[k + 1] = cut[k] + Len(msgs[k + 1]) + 1
    BY <1>12, <1>16
  <2> QED BY <1>6, <1>12, <2>1 DEF l
<1> DEFINE new == [i \in (k + 1)..n |-> cut[i] - (l + 1)]
<1>18. ASSUME NEW i \in (k + 1)..n
       PROVE  cut[i] \in Nat /\ cut[i] - (l + 1) \in Nat /\ i \in k..n /\ i \in 1..n
  <2>1. i \in k..n /\ k + 1 <= i /\ i \in 1..n
    BY <1>11
  <2>2. cut[k + 1] <= cut[i] /\ cut[i] \in Nat
    BY <1>12, <1>16, <2>1
  <2> QED BY <1>6, <1>17, <2>1, <2>2
<1>19. new \in [(k + 1)..n -> Nat] /\ \A i \in (k + 1)..n : new[i] = cut[i] - (l + 1)
  BY <1>18
<1> HIDE DEF new
<1>20. new[k + 1] = 0
  BY <1>6, <1>16, <1>17, <1>19
<1>21. ASSUME NEW i \in (k + 1)..n, NEW j \in (k + 1)..n, i <= j PROVE new[i] <= new[j]
  <2>1. cut[i] <= cut[j] /\ cut[i] \in Nat /\ cut[j] \in Nat
    BY <1>12, <1>18, <1>21
  <2> QED BY <1>6, <1>19, <2>1
<1>22. ASSUME NEW i \in (k + 1 + 1)..n
       PROVE  /\ new[i] = new[i - 1] + Len(msgs[i]) + 1
              /\ \A j \in 1..(Len(msgs[i]) + 1) :
                   new[i - 1] + j <= Len(t) => t[new[i - 1] + j] = wsEncodeFrame(msgs[i])[j]
  <2>1. i \in (k + 1)..n /\ i - 1 \in (k + 1)..n
    BY <1>11
  <2>2. /\ cut[i] \in Nat /\ cut[i - 1] \in Nat /\ Len(msgs[i]) \in Nat
        /\ new[i] = cut[i] - (l + 1) /\ new[i - 1] = cut[i - 1] - (l + 1)
        /\ new[i] \in Nat /\ new[i - 1] \in Nat
        /\ cut[i] = cut[i - 1] + Len(msgs[i]) + 1
    BY <1>12, <1>13, <1>18, <1>19, <2>1
  <2>3. ASSUME NEW j \in 1..(Len(msgs[i]) + 1), new[i - 1] + j <= Len(t)
        PROVE  t[new[i - 1] + j] = wsEncodeFrame(msgs[i])[j]
    <3> DEFINE x == new[i - 1]
               y == cut[i - 1]
               h == Len(msgs[i])
    <3>0. /\ x \in Nat /\ y \in Nat /\ h \in Nat /\ x = y - (l + 1) /\ j \in 1..(h + 1)
          /\ x + j <= Len(t)
      BY <2>2, <2>3
    <3> HIDE DEF x, y, h
    <3>1. x + j \in 1..Len(t) /\ (l + 1) + (x + j) = y + j /\ y + j <= Len(s)
      <4> DEFINE p == Len(t)
                 q == Len(s)
      <4>1. l \in Nat /\ p \in Nat /\ q \in Nat /\ p = q - (l + 1) /\ x + j <= p
        BY <1>6, <1>14, <3>0
      <4>2. j \in Nat /\ j >= 1
        BY <3>0
      <4> HIDE DEF p, q
      <4>3. x + j \in 1..p /\ (l + 1) + (x + j) = y + j /\ y + j <= q
        BY <3>0, <4>1, <4>2
      <4> QED BY <4>3 DEF p, q
    <3> USE DEF x, y
    <3>2. s[cut[i - 1] + j] = wsEncodeFrame(msgs[i])[j]
      BY <1>12, <2>1, <3>1
    <3>3. t[x + j] = s[y + j]
      <4> HIDE DEF x, y
      <4> QED BY <1>15, <3>1
    <3> QED BY <3>2, <3>3
  <2>4. new[i] = new[i - 1] + Len(msgs[i]) + 1
    <3> DEFINE x == cut[i]
               y == cut[i - 1]
               h == Len(msgs[i])
    <3>1. x \in Nat /\ y \in Nat /\ h \in Nat /\ x = y + h + 1
      BY <2>2
    <3> HIDE DEF x, y, h
    <3>2. x - (l + 1) = (y - (l + 1)) + h + 1
      BY <1>6, <3>1
    <3> QED BY <2>2, <3>2 DEF x, y, h
  <2> QED BY <2>3, <2>4
<1>23. Len(t) <= new[n] /\ (w = "whole" => Len(t) = new[n])
  <2>1. new[n] = cut[n] - (l + 1) /\ cut[n] \in Nat
    BY <1>16, <1>18, <1>19
  <2> QED BY <1>6, <1>12, <1>14, <2>1
<1>24. Encodes(t, msgs, k + 1, w)
  BY <1>16, <1>19, <1>20, <1>21, <1>22, <1>23 DEF Encodes, n
<1> QED BY <1>5, <1>8, <1>9, <1>24 DEF n, c, t
----------------------------------------------------------------------------
(* Types. *)

LEMMA Between ==
  ASSUME NEW S, NEW s \in Seq(S), NEW a \in Nat \ {0}, NEW z \in Nat, z <= Len(s)
  PROVE  SubSeq(s, a, z) \in Seq(S)
<1>1. Len(s) \in Nat /\ \A i \in 1..Len(s) : s[i] \in S
  BY LenProperties, ElementOfSeq
<1>2. \A i \in a..z : s[i] \in S
  BY <1>1
<1> QED BY <1>2, SubSeqProperties

(* What is taken out of a buffer, and what stays there. *)
LEMMA PartsTyped ==
  ASSUME NEW b \in Seq(Byte)
  PROVE  /\ Kept(b) \in Seq(Byte)
         /\ Complete(b) => Rest(b) \in Seq(Byte) /\ Copied(Payload(b)) \in Seq(Byte)
<1>1. Kept(b) \in Seq(Byte)
  <2>1. <<>> \in Seq(Byte)
    OBVIOUS
  <2> QED BY <2>1 DEF Kept
<1>2. ASSUME Complete(b) PROVE Rest(b) \in Seq(Byte) /\ Copied(Payload(b)) \in Seq(Byte)
  <2> DEFINE h == Head(b)
             l == Len(b)
             p == Payload(b)
  <2>1. b # <<>> /\ l > h /\ l \in Nat /\ h = b[1] /\ 1 \in 1..l
    BY <1>2, LenProperties, HeadTailProperties DEF Complete
  <2>2. h \in Nat
    BY <2>1, ElementOfSeq, StreamAssumption DEF Byte
  <2> HIDE DEF h, l
  <2>3. Rest(b) \in Seq(Byte)
    <3>1. h + 2 \in Nat \ {0} /\ l <= Len(b)
      BY <2>1, <2>2 DEF l
    <3> QED BY <2>1, <3>1, Between DEF Rest, h, l
  <2>4. p \in Seq(Byte)
    <3>1. h + 1 \in Nat /\ h + 1 <= Len(b)
      BY <2>1, <2>2 DEF l
    <3> QED BY <3>1, Between DEF Payload, h
  <2> HIDE DEF p
  <2>5. Copied(p) \in Seq(Byte)
    <3> DEFINE n == IF Len(p) <= RecvCap THEN Len(p) ELSE RecvCap
    <3>1. Len(p) \in Nat /\ RecvCap \in Nat
      BY <2>4, LenProperties, StreamAssumption
    <3>2. n \in Nat /\ n <= Len(p)
      BY <3>1
    <3> HIDE DEF n
    <3>3. SubSeq(p, 1, n) \in Seq(Byte)
      BY <2>4, <3>2, Between
    <3> QED BY <3>3 DEF Copied, n
  <2> QED BY <2>3, <2>5 DEF p
<1> QED BY <1>1, <1>2

LEMMA Ends ==
  ASSUME NEW e \in End
  PROVE  Other(e) \in End /\ Other(e) # e /\ Other(Other(e)) = e /\ \A d \in End : d # e => d = Other(e)
BY DEF End, Other

LEMMA InitType == Init => TypeOK
<1> SUFFICES ASSUME Init PROVE TypeOK
  OBVIOUS
<1>1. <<>> \in Seq(Byte) /\ <<>> \in Seq(Message) /\ <<>> \in Seq(Seq(Byte)) /\ Len(<<>>) = 0
  OBVIOUS
<1>2. Room \in Nat
  BY StreamAssumption
<1> QED BY <1>1, <1>2 DEF Init, TypeOK

(* A buffer of which a frame was delivered. *)
LEMMA DeliverTyped ==
  ASSUME TypeOK, NEW e \in End, NEW b \in Seq(Byte), Complete(b), Deliver(e, b)
  PROVE  buf' \in [End -> Seq(Byte)] /\ got' \in [End -> Seq(Seq(Byte))]
<1>1. Rest(b) \in Seq(Byte) /\ Copied(Payload(b)) \in Seq(Byte)
  BY PartsTyped
<1>2. buf' \in [End -> Seq(Byte)]
  BY <1>1 DEF Deliver, TypeOK
<1> DEFINE c == Copied(Payload(b))
           g == IF Payload(b) = <<>> THEN got[e] ELSE Append(got[e], c)
<1>3. got[e] \in Seq(Seq(Byte)) /\ c \in Seq(Byte)
  BY <1>1 DEF TypeOK
<1>4. g \in Seq(Seq(Byte))
  <2> HIDE DEF c
  <2> QED BY <1>3, AppendProperties
<1>5. got' = [got EXCEPT ![e] = g]
  BY DEF Deliver
<1> HIDE DEF g
<1> QED BY <1>2, <1>4, <1>5 DEF TypeOK

(* The bytes that are left and that are moved when the first n are taken. *)
LEMMA WriteTyped ==
  ASSUME TypeOK, NEW e \in End, Write(e)
  PROVE  TypeOK'
<1>1. PICK n \in 1..Len(out[e]) :
        /\ Len(wire[e]) + n <= Room
        /\ wire' = [wire EXCEPT ![e] = @ \o SubSeq(out[e], 1, n)]
        /\ out' = [out EXCEPT ![e] = SubSeq(@, n + 1, Len(@))]
  BY DEF Write
<1>2. out[e] \in Seq(Byte) /\ wire[e] \in Seq(Byte) /\ Len(out[e]) \in Nat /\ Len(wire[e]) \in Nat
  BY LenProperties DEF TypeOK
<1> DEFINE a == SubSeq(out[e], 1, n)
           z == SubSeq(out[e], n + 1, Len(out[e]))
           w == wire[e] \o a
<1>3. n \in 0..Len(out[e])
  BY <1>1, <1>2
<1>4. a \in Seq(Byte) /\ z \in Seq(Byte) /\ Len(a) = n
  BY <1>2, <1>3, Split
<1>5. wire' = [wire EXCEPT ![e] = w] /\ out' = [out EXCEPT ![e] = z]
  BY <1>1
<1> HIDE DEF a, z
<1>6. w \in Seq(Byte) /\ Len(w) <= Room
  BY <1>1, <1>2, <1>4, ConcatProperties
<1> HIDE DEF w
<1>7. e \notin shut
  <2>1. out[e] # <<>>
    BY <1>1, <1>2
  <2> QED BY <2>1 DEF TypeOK
<1> QED BY <1>4, <1>5, <1>6, <1>7 DEF TypeOK, Write

LEMMA ReadsTyped ==
  ASSUME TypeOK, NEW e \in End, RecvReads(e)
  PROVE  TypeOK'
<1> DEFINE o == Other(e)
<1>1. PICK n \in 1..Len(wire[o]) :
        LET fed == Kept(buf[e]) \o SubSeq(wire[o], 1, n)
        IN  /\ wire' = [wire EXCEPT ![o] = SubSeq(@, n + 1, Len(@))]
            /\ IF Complete(fed)
               THEN Deliver(e, fed)
               ELSE buf' = [buf EXCEPT ![e] = Kept(fed)] /\ UNCHANGED got
  BY DEF RecvReads
<1>2. o \in End /\ wire[o] \in Seq(Byte) /\ Len(wire[o]) \in Nat /\ Len(wire[o]) <= Room /\ Room \in Nat
      /\ buf[e] \in Seq(Byte)
  BY Ends, LenProperties, StreamAssumption DEF TypeOK
<1> DEFINE a == SubSeq(wire[o], 1, n)
           z == SubSeq(wire[o], n + 1, Len(wire[o]))
           b == Kept(buf[e])
           fed == b \o a
<1>3. n \in 0..Len(wire[o])
  BY <1>1, <1>2
<1>4. a \in Seq(Byte) /\ z \in Seq(Byte) /\ Len(z) = Len(wire[o]) - n
  BY <1>2, <1>3, Split
<1>5. wire' = [wire EXCEPT ![o] = z]
  BY <1>1
<1>6. b \in Seq(Byte)
  BY <1>2, PartsTyped
<1>7. IF Complete(fed) THEN Deliver(e, fed) ELSE buf' = [buf EXCEPT ![e] = Kept(fed)] /\ UNCHANGED got
  BY <1>1
<1> HIDE DEF a, z, b
<1>8. fed \in Seq(Byte)
  BY <1>4, <1>6, ConcatProperties
<1> HIDE DEF fed
<1>9. buf' \in [End -> Seq(Byte)] /\ got' \in [End -> Seq(Seq(Byte))]
  <2>1. CASE Complete(fed)
    BY <1>7, <1>8, <2>1, DeliverTyped
  <2>2. CASE ~Complete(fed)
    <3>1. Kept(fed) \in Seq(Byte)
      BY <1>8, PartsTyped
    <3> QED BY <1>7, <2>2, <3>1 DEF TypeOK
  <2> QED BY <2>1, <2>2
<1>10. wire' \in [End -> Seq(Byte)] /\ \A d \in End : Len(wire'[d]) <= Room
  <2>1. Len(z) <= Room
    BY <1>2, <1>3, <1>4
  <2> QED BY <1>2, <1>4, <1>5, <2>1 DEF TypeOK
<1> QED BY <1>9, <1>10 DEF TypeOK, RecvReads

LEMMA NextType == TypeOK /\ [Next]_vars => TypeOK'
<1> SUFFICES ASSUME TypeOK, [Next]_vars PROVE TypeOK'
  OBVIOUS
<1>0. <<>> \in Seq(Byte) /\ Len(<<>>) = 0 /\ Room \in Nat
  BY StreamAssumption
<1>1. ASSUME NEW e \in End, NEW m \in Message, Send(e, m) PROVE TypeOK'
  <2> DEFINE f == wsEncodeFrame(m)
             l == Append(sent[e], m)
  <2>1. f \in Seq(Byte) /\ l \in Seq(Message) /\ e \notin shut
    BY <1>1, FrameIs, AppendProperties DEF TypeOK, Send
  <2>2. out' = [out EXCEPT ![e] = f] /\ sent' = [sent EXCEPT ![e] = l]
    BY <1>1 DEF Send
  <2> HIDE DEF f, l
  <2> QED BY <1>1, <2>1, <2>2 DEF TypeOK, Send
<1>2. ASSUME NEW e \in End, Write(e) PROVE TypeOK'
  BY <1>2, WriteTyped
<1>3. ASSUME NEW e \in End, GiveUp(e) PROVE TypeOK'
  BY <1>0, <1>3 DEF TypeOK, GiveUp
<1>4. ASSUME NEW e \in End, RecvBuffered(e) PROVE TypeOK'
  <2>1. buf[e] \in Seq(Byte) /\ Complete(buf[e]) /\ Deliver(e, buf[e])
    BY <1>4 DEF TypeOK, RecvBuffered
  <2> DEFINE b == buf[e]
  <2>2. buf' \in [End -> Seq(Byte)] /\ got' \in [End -> Seq(Seq(Byte))]
    <3>1. b \in Seq(Byte) /\ Complete(b) /\ Deliver(e, b)
      BY <2>1
    <3> HIDE DEF b
    <3> QED BY <3>1, DeliverTyped
  <2> QED BY <1>4, <2>2 DEF TypeOK, RecvBuffered
<1>5. ASSUME NEW e \in End, RecvReads(e) PROVE TypeOK'
  BY <1>5, ReadsTyped
<1>6. ASSUME NEW e \in End, RecvNothing(e) PROVE TypeOK'
  BY <1>0, <1>6 DEF TypeOK, RecvNothing
<1>7. ASSUME NEW e \in End, RecvEnds(e) PROVE TypeOK'
  <2>1. Kept(buf[e]) \in Seq(Byte)
    BY PartsTyped DEF TypeOK
  <2> QED BY <1>7, <2>1 DEF TypeOK, RecvEnds
<1>8. ASSUME NEW e \in End, Close(e) PROVE TypeOK'
  BY <1>8 DEF TypeOK, Close
<1>9. ASSUME NEW e \in End, Reset(e) PROVE TypeOK'
  BY <1>0, <1>9, SMTT(30) DEF TypeOK, Reset
<1>10. CASE UNCHANGED vars
  BY <1>10 DEF TypeOK, vars
<1> QED BY <1>1, <1>2, <1>3, <1>4, <1>5, <1>6, <1>7, <1>8, <1>9, <1>10 DEF Next, Recv

(* The types hold throughout. *)
THEOREM StreamTyped == Spec => []TypeOK
BY InitType, NextType, PTL DEF Spec
----------------------------------------------------------------------------
(* The stream. *)

LEMMA Together ==
  ASSUME NEW a \in Seq(Byte), NEW b \in Seq(Byte), NEW c \in Seq(Byte)
  PROVE  a \o (b \o c) = (a \o b) \o c /\ a \o b \in Seq(Byte) /\ b \o c \in Seq(Byte)
<1>1. a \o b \in Seq(Byte) /\ b \o c \in Seq(Byte)
  BY ConcatProperties
<1>2. a \o (b \o c) = (a \o b) \o c
  BY ConcatAssociative, SMTT(30)
<1> QED BY <1>1, <1>2

LEMMA StreamStart == Init => StreamInv
<1> SUFFICES ASSUME Init PROVE StreamInv
  OBVIOUS
<1>1. ASSUME NEW e \in End PROVE Delivered(e)
  <2>1. Other(e) \in End
    BY Ends
  <2>2. buf[Other(e)] = <<>> /\ wire[e] = <<>> /\ out[e] = <<>> /\ sent[e] = <<>>
        /\ got[Other(e)] = <<>> /\ Extent(e) = "whole"
    BY <2>1 DEF Init, Extent
  <2>3. <<>> \o (<<>> \o <<>>) = <<>> /\ Len(<<>>) = 0
    OBVIOUS
  <2>4. Encodes(Stream(e), sent[e], Len(got[Other(e)]), Extent(e))
    BY <2>2, <2>3, EncodesNothing DEF Stream
  <2> QED BY <2>2, <2>3, <2>4 DEF Delivered
<1>2. ASSUME NEW e \in End PROVE ReadToTheEnd(e)
  BY Ends DEF ReadToTheEnd, Init
<1> QED BY <1>1, <1>2 DEF StreamInv, Init

(* A step that leaves the stream of e and what it stands for alone. *)
LEMMA DeliveredStays ==
  ASSUME NEW e \in End, Delivered(e), Stream(e)' = Stream(e), sent'[e] = sent[e],
         got'[Other(e)] = got[Other(e)], Extent(e)' = Extent(e)
  PROVE  Delivered(e)'
BY DEF Delivered, Other

LEMMA SendDelivers ==
  ASSUME TypeOK, NEW e \in End, NEW m \in Message, Send(e, m), Delivered(e), discarded \subseteq shut
  PROVE  Delivered(e)'
<1> DEFINE o == Other(e)
           x == buf[o] \o wire[e]
           f == wsEncodeFrame(m)
           l == Append(sent[e], m)
           k == Len(got[o])
<1>1. /\ o \in End /\ buf[o] \in Seq(Byte) /\ wire[e] \in Seq(Byte) /\ sent[e] \in Seq(Message)
      /\ f \in Seq(Byte) /\ got[o] \in Seq(Seq(Byte)) /\ k \in Nat
  BY Ends, FrameIs, LenProperties DEF TypeOK
<1>2. Extent(e) = "whole" /\ Extent(e)' = "whole"
  BY DEF Send, TypeOK, Extent
<1>3. Stream(e) = x
  <2>1. out[e] = <<>> /\ wire[e] \o <<>> = wire[e]
    BY <1>1, ConcatEmptySeq DEF Send
  <2> QED BY <2>1 DEF Stream
<1>4. /\ buf'[o] = buf[o] /\ wire'[e] = wire[e] /\ out'[e] = f /\ sent'[e] = l /\ got'[o] = got[o]
  BY DEF Send, TypeOK
<1>5. Stream(e)' = x \o f /\ x \in Seq(Byte)
  <2> HIDE DEF f
  <2>1. buf[o] \o (wire[e] \o f) = (buf[o] \o wire[e]) \o f /\ buf[o] \o wire[e] \in Seq(Byte)
    BY <1>1, Together, ZenonT(30)
  <2> QED BY <1>4, <2>1 DEF Stream, Other
<1>6. Encodes(x, sent[e], k, "whole")
  BY <1>2, <1>3 DEF Delivered
<1>7. Encodes(x \o f, l, k, "whole")
  <2> HIDE DEF x, k
  <2> QED BY <1>1, <1>5, <1>6, EncodesSend
<1>8. ASSUME NEW i \in 1..k PROVE got[o][i] = Copied(l[i])
  <2>1. k \in 0..Len(sent[e]) /\ Len(sent[e]) \in Nat
    BY <1>1, <1>6, LenProperties DEF Encodes
  <2>2. i \in 1..Len(sent[e])
    BY <2>1
  <2>3. l[i] = sent[e][i]
    BY <1>1, <2>2, AppendProperties
  <2> QED BY <2>3 DEF Delivered
<1> HIDE DEF x, f, l
<1> QED BY <1>2, <1>4, <1>5, <1>7, <1>8 DEF Delivered, Other

LEMMA WriteKeepsStream ==
  ASSUME TypeOK, NEW e \in End, Write(e)
  PROVE  Stream(e)' = Stream(e)
<1>1. PICK n \in 1..Len(out[e]) :
        /\ wire' = [wire EXCEPT ![e] = @ \o SubSeq(out[e], 1, n)]
        /\ out' = [out EXCEPT ![e] = SubSeq(@, n + 1, Len(@))]
  BY DEF Write
<1>2. /\ out[e] \in Seq(Byte) /\ wire[e] \in Seq(Byte) /\ Len(out[e]) \in Nat /\ n \in 0..Len(out[e])
      /\ Other(e) \in End /\ buf[Other(e)] \in Seq(Byte)
  BY <1>1, LenProperties, Ends DEF TypeOK
<1> DEFINE a == SubSeq(out[e], 1, n)
           z == SubSeq(out[e], n + 1, Len(out[e]))
<1>3. a \in Seq(Byte) /\ z \in Seq(Byte) /\ a \o z = out[e]
  BY <1>2, Split
<1>4. wire'[e] = wire[e] \o a /\ out'[e] = z /\ buf' = buf
  BY <1>1 DEF TypeOK, Write
<1> HIDE DEF a, z
<1>5. (wire[e] \o a) \o z = wire[e] \o out[e]
  <2> DEFINE u == wire[e]
  <2>1. u \in Seq(Byte)
    BY <1>2
  <2> HIDE DEF u
  <2>2. u \o (a \o z) = (u \o a) \o z
    BY <1>3, <2>1, Together
  <2> QED BY <1>3, <2>2 DEF u
<1> QED BY <1>4, <1>5 DEF Stream, Other

(* A buffer at the head of the stream begins with a frame. *)
LEMMA KeptWhole ==
  ASSUME NEW b \in Seq(Byte), NEW r \in Seq(Byte), NEW msgs \in Seq(Message), NEW k, NEW w,
         Encodes(b \o r, msgs, k, w)
  PROVE  Kept(b) = b /\ ~Broken(b)
<1> SUFFICES ASSUME Broken(b) PROVE FALSE
  BY DEF Kept
<1> DEFINE s == b \o r
<1>1. b # <<>> /\ Head(b) > MaxPayload /\ Head(b) = b[1] /\ Len(b) > 0 /\ Len(b) \in Nat /\ Len(r) \in Nat
  BY HeadTailProperties, LenProperties DEF Broken
<1>2. s \in Seq(Byte) /\ Len(s) = Len(b) + Len(r)
      /\ \A i \in 1..(Len(b) + Len(r)) : s[i] = IF i <= Len(b) THEN b[i] ELSE r[i - Len(b)]
  BY ConcatProperties
<1>3. s # <<>> /\ Head(s) = Head(b)
  <2>1. Len(s) > 0 /\ s[1] = b[1]
    BY <1>1, <1>2
  <2> HIDE DEF s
  <2> QED BY <1>1, <1>2, <2>1, HeadTailProperties
<1>4. Encodes(s, msgs, k, w)
  OBVIOUS
<1> HIDE DEF s
<1>5. Head(s) = Len(msgs[k + 1]) /\ msgs[k + 1] \in Message
  <2>1. s \in Seq(Byte) /\ s # <<>>
    BY <1>2, <1>3
  <2> QED BY <1>4, <2>1, EncodesHead
<1>6. Len(msgs[k + 1]) \in 1..MaxPayload /\ MaxPayload \in Nat
  BY <1>5, FrameIs, StreamAssumption
<1> QED BY <1>1, <1>3, <1>5, <1>6

(* The head of the stream of o is made a message of. *)
LEMMA TakeDelivers ==
  ASSUME TypeOK, NEW e \in End, NEW o \in End, o = Other(e), Delivered(o),
         NEW b \in Seq(Byte), NEW r \in Seq(Byte), Stream(o) = b \o r,
         Complete(b), Deliver(e, b), wire'[o] \o out'[o] = r, sent' = sent, discarded' = discarded
  PROVE  Delivered(o)'
<1> DEFINE k == Len(got[e])
           w == Extent(o)
           msgs == sent[o]
           c == Rest(b)
           p == Payload(b)
           g == Append(got[e], Copied(p))
<1>1. Other(o) = e /\ msgs \in Seq(Message) /\ got[e] \in Seq(Seq(Byte)) /\ k \in Nat /\ w' = w
  BY Ends, LenProperties DEF TypeOK, Extent
<1>2. Encodes(b \o r, msgs, k, w) /\ \A i \in 1..k : got[e][i] = Copied(msgs[i])
  BY <1>1 DEF Delivered
<1>3. /\ k < Len(msgs) /\ msgs[k + 1] \in Message /\ p = msgs[k + 1] /\ c \in Seq(Byte)
      /\ Encodes(c \o r, msgs, k + 1, w)
  <2> HIDE DEF k, w, msgs
  <2> QED BY <1>1, <1>2, EncodesTake
<1>4. p # <<>> /\ Copied(p) \in Seq(Byte)
  <2>1. Len(p) \in 1..MaxPayload
    BY <1>3, FrameIs
  <2> QED BY <2>1, PartsTyped
<1>5. got'[e] = g /\ buf'[e] = c
  BY <1>4 DEF Deliver, TypeOK
<1>6. Len(g) = k + 1 /\ g[k + 1] = Copied(p) /\ \A i \in 1..k : g[i] = got[e][i]
  <2> DEFINE q == Copied(p)
  <2>1. q \in Seq(Byte)
    BY <1>4
  <2> HIDE DEF p, q
  <2> QED BY <1>1, <2>1, AppendProperties
<1> HIDE DEF g, p, c
<1>7. ASSUME NEW i \in 1..(k + 1) PROVE g[i] = Copied(msgs[i])
  <2>1. CASE i = k + 1
    BY <1>3, <1>6, <2>1
  <2>2. CASE i # k + 1
    <3>1. i \in 1..k
      <4>1. k \in Nat
        BY <1>1
      <4> HIDE DEF k
      <4> QED BY <2>2, <4>1
    <3> QED BY <1>2, <1>6, <3>1
  <2> QED BY <2>1, <2>2
<1>8. Stream(o)' = c \o r
  BY <1>1, <1>5 DEF Stream, Other
<1> HIDE DEF k
<1>9. \A i \in 1..Len(got'[e]) : got'[e][i] = Copied(sent'[o][i])
  BY <1>5, <1>6, <1>7
<1>10. Encodes(c \o r, sent'[o], Len(got'[e]), w')
  BY <1>1, <1>3, <1>5, <1>6
<1> QED BY <1>1, <1>8, <1>9, <1>10 DEF Delivered, Other

(* recv on what is in the assembler. *)
LEMMA BufferedDelivers ==
  ASSUME TypeOK, NEW e \in End, NEW o \in End, o = Other(e), RecvBuffered(e), Delivered(o)
  PROVE  Delivered(o)'
<1> DEFINE b == buf[e]
           r == wire[o] \o out[o]
<1>1. /\ b \in Seq(Byte) /\ wire[o] \in Seq(Byte) /\ out[o] \in Seq(Byte) /\ Other(o) = e
      /\ Complete(b) /\ Deliver(e, b)
      /\ wire' = wire /\ out' = out /\ sent' = sent /\ discarded' = discarded
  BY Ends DEF TypeOK, RecvBuffered
<1>2. r \in Seq(Byte)
  BY <1>1, ConcatProperties
<1>3. Stream(o) = b \o r /\ wire'[o] \o out'[o] = r
  BY <1>1 DEF Stream
<1> HIDE DEF b, r
<1> QED BY <1>1, <1>2, <1>3, TakeDelivers

(* recv on what it read. *)
LEMMA ReadsDelivers ==
  ASSUME TypeOK, NEW e \in End, NEW o \in End, o = Other(e), RecvReads(e), Delivered(o)
  PROVE  Delivered(o)'
<1>1. PICK n \in 1..Len(wire[o]) :
        LET fed == Kept(buf[e]) \o SubSeq(wire[o], 1, n)
        IN  /\ wire' = [wire EXCEPT ![o] = SubSeq(@, n + 1, Len(@))]
            /\ IF Complete(fed)
               THEN Deliver(e, fed)
               ELSE buf' = [buf EXCEPT ![e] = Kept(fed)] /\ UNCHANGED got
  BY DEF RecvReads
<1>2. /\ wire[o] \in Seq(Byte) /\ out[o] \in Seq(Byte) /\ Len(wire[o]) \in Nat /\ n \in 0..Len(wire[o])
      /\ buf[e] \in Seq(Byte) /\ Other(o) = e
      /\ out' = out /\ sent' = sent /\ discarded' = discarded
  BY <1>1, Ends, LenProperties DEF TypeOK, RecvReads
<1> DEFINE x == buf[e]
           v == wire[o]
           y == out[o]
           a == SubSeq(v, 1, n)
           z == SubSeq(v, n + 1, Len(v))
           b == x \o a
           r == z \o y
           msgs == sent[o]
           k == Len(got[e])
           w == Extent(o)
<1>3. a \in Seq(Byte) /\ z \in Seq(Byte) /\ a \o z = v
  BY <1>2, Split
<1>4. wire'[o] = z
  BY <1>1, <1>2 DEF TypeOK
<1>5. /\ x \in Seq(Byte) /\ v \in Seq(Byte) /\ y \in Seq(Byte) /\ msgs \in Seq(Message)
      /\ Stream(o) = x \o (v \o y) /\ Encodes(Stream(o), msgs, k, w)
  BY <1>2 DEF Stream, Delivered, TypeOK
<1>6. Kept(x) = x
  <2> HIDE DEF x, v, y, msgs, k, w
  <2> DEFINE q == v \o y
  <2>1. q \in Seq(Byte) /\ Encodes(x \o q, msgs, k, w)
    BY <1>5, ConcatProperties
  <2> HIDE DEF q
  <2> QED BY <1>5, <2>1, KeptWhole
<1>7. IF Complete(b) THEN Deliver(e, b) ELSE buf' = [buf EXCEPT ![e] = Kept(b)] /\ UNCHANGED got
  BY <1>1, <1>6
<1> HIDE DEF a, z, v, x, y
<1>8. b \in Seq(Byte) /\ r \in Seq(Byte) /\ Stream(o) = b \o r
  <2>0. a \in Seq(Byte) /\ z \in Seq(Byte) /\ y \in Seq(Byte) /\ x \in Seq(Byte)
    BY <1>3, <1>5
  <2>1. a \o (z \o y) = (a \o z) \o y /\ z \o y \in Seq(Byte)
    BY <2>0, Together, SMTT(30)
  <2>2. x \o (a \o r) = (x \o a) \o r /\ x \o a \in Seq(Byte)
    <3>1. r \in Seq(Byte)
      BY <2>1
    <3> HIDE DEF r, a, x
    <3>2. x \o (a \o r) = (x \o a) \o r
      BY <2>0, <3>1, Together, ZenonT(60)
    <3>3. x \o a \in Seq(Byte)
      BY <2>0, Together
    <3> QED BY <3>2, <3>3
  <2> QED BY <1>3, <1>5, <2>1, <2>2
<1>9. wire'[o] \o out'[o] = r
  BY <1>2, <1>4 DEF y
<1> HIDE DEF b, r
<1>10. CASE Complete(b)
  BY <1>2, <1>7, <1>8, <1>9, <1>10, TakeDelivers
<1>11. CASE ~Complete(b)
  <2>1. Encodes(b \o r, msgs, k, w)
    BY <1>5, <1>8
  <2>2. Kept(b) = b
    <3> HIDE DEF msgs, k, w
    <3> QED BY <1>5, <1>8, <2>1, KeptWhole
  <2>3. buf'[e] = b /\ got' = got
    BY <1>7, <1>11, <2>2 DEF TypeOK
  <2>4. Stream(o)' = Stream(o)
    BY <1>2, <1>8, <1>9, <2>3 DEF Stream, Other
  <2>5. Extent(o)' = Extent(o)
    BY <1>2 DEF Extent
  <2> QED BY <1>2, <2>3, <2>4, <2>5, DeliveredStays
<1> QED BY <1>10, <1>11

(* What a closed end had written is lost. *)
LEMMA ResetDelivers ==
  ASSUME TypeOK, NEW e \in End, Reset(e), Delivered(e)
  PROVE  Delivered(e)'
<1> DEFINE a == buf[Other(e)]
           b == wire[e] \o out[e]
           s == a \o b
           k == Len(got[Other(e)])
<1>1. Other(e) \in End /\ a \in Seq(Byte) /\ wire[e] \in Seq(Byte) /\ out[e] \in Seq(Byte)
      /\ out[e] = <<>> /\ sent[e] \in Seq(Message)
  BY Ends DEF TypeOK, Reset
<1>2. b \in Seq(Byte)
  BY <1>1, ConcatProperties
<1>3. Encodes(a \o b, sent[e], k, Extent(e))
  BY DEF Delivered, Stream
<1>4. Encodes(a, sent[e], k, "part")
  <2> HIDE DEF a, b, k
  <2>1. a \o b \in Seq(Byte)
    BY <1>1, <1>2, ConcatProperties
  <2> DEFINE x == a \o b
             w == Extent(e)
  <2>2. x \in Seq(Byte) /\ x = a \o b /\ Encodes(x, sent[e], k, w)
    BY <1>3, <2>1
  <2> HIDE DEF x, w
  <2> QED BY <1>1, <1>2, <2>2, EncodesPart
<1>5. Stream(e)' = a
  <2>1. wire'[e] = <<>> /\ out'[e] = <<>> /\ buf' = buf
    BY <1>1 DEF Reset, TypeOK
  <2>2. a \o (<<>> \o <<>>) = a
    <3> HIDE DEF a
    <3>1. <<>> \o <<>> = <<>>
      OBVIOUS
    <3> QED BY <1>1, <3>1, ConcatEmptySeq
  <2> QED BY <2>1, <2>2 DEF Stream, Other
<1>6. Extent(e)' = "part" /\ sent' = sent /\ got' = got
  BY DEF Reset, Extent
<1> HIDE DEF a
<1> QED BY <1>4, <1>5, <1>6 DEF Delivered, Other

LEMMA EndsRead ==
  ASSUME TypeOK, StreamInv, [Next]_vars, NEW d \in End
  PROVE  ReadToTheEnd(d)'
<1> DEFINE o == Other(d)
<1>0. o \in End /\ o # d /\ Other(o) = d /\ ReadToTheEnd(d)
      /\ \A e \in End : e = d \/ e = o
  BY Ends DEF StreamInv
<1> SUFFICES ASSUME ~connected'[o], o \notin shut'
             PROVE  d \in shut' /\ wire'[d] = <<>> /\ ~Complete(buf'[o])
  BY DEF ReadToTheEnd, Other
<1> HIDE DEF o
<1>1. ASSUME NEW e \in End, NEW m \in Message, Send(e, m)
      PROVE  d \in shut' /\ wire'[d] = <<>> /\ ~Complete(buf'[o])
  BY <1>0, <1>1 DEF Send, ReadToTheEnd, o
<1>2. ASSUME NEW e \in End, Write(e)
      PROVE  d \in shut' /\ wire'[d] = <<>> /\ ~Complete(buf'[o])
  <2>1. d \in shut /\ wire[d] = <<>> /\ ~Complete(buf[o])
    BY <1>0, <1>2 DEF Write, ReadToTheEnd, o
  <2>2. e # d
    BY <2>1, <1>2 DEF Write, TypeOK
  <2>3. wire'[d] = wire[d] /\ buf' = buf /\ shut' = shut
    BY <1>2, <2>2 DEF Write, TypeOK
  <2> QED BY <2>1, <2>3
<1>3. ASSUME NEW e \in End, GiveUp(e)
      PROVE  d \in shut' /\ wire'[d] = <<>> /\ ~Complete(buf'[o])
  BY <1>0, <1>3 DEF GiveUp, ReadToTheEnd, o
<1>4. ASSUME NEW e \in End, RecvBuffered(e)
      PROVE  d \in shut' /\ wire'[d] = <<>> /\ ~Complete(buf'[o])
  <2>1. connected[e] /\ connected' = connected /\ shut' = shut /\ wire' = wire
        /\ buf' = [buf EXCEPT ![e] = Rest(buf[e])]
    BY <1>4 DEF RecvBuffered, Deliver
  <2> QED BY <1>0, <2>1 DEF ReadToTheEnd, TypeOK, o
<1>5. ASSUME NEW e \in End, RecvReads(e)
      PROVE  d \in shut' /\ wire'[d] = <<>> /\ ~Complete(buf'[o])
  <2>1. connected[e] /\ connected' = connected /\ shut' = shut
    BY <1>5 DEF RecvReads
  <2>2. e = d
    BY <1>0, <2>1
  <2>3. wire'[d] = wire[d] /\ buf'[o] = buf[o]
    BY <1>0, <1>5, <2>2 DEF RecvReads, Deliver, TypeOK, o
  <2> QED BY <1>0, <2>1, <2>3 DEF ReadToTheEnd, o
<1>6. ASSUME NEW e \in End, RecvNothing(e)
      PROVE  d \in shut' /\ wire'[d] = <<>> /\ ~Complete(buf'[o])
  BY <1>0, <1>6 DEF RecvNothing, ReadToTheEnd, TypeOK, o
<1>7. ASSUME NEW e \in End, RecvEnds(e)
      PROVE  d \in shut' /\ wire'[d] = <<>> /\ ~Complete(buf'[o])
  <2>1. CASE e = d
    BY <1>0, <1>7, <2>1 DEF RecvEnds, ReadToTheEnd, TypeOK, o
  <2>2. CASE e = o
    <3>1. ~Complete(Kept(buf[e]))
      BY <1>7 DEF RecvEnds, Kept, Complete
    <3> QED BY <1>0, <1>7, <2>2, <3>1 DEF RecvEnds, TypeOK
  <2> QED BY <1>0, <2>1, <2>2
<1>8. ASSUME NEW e \in End, Close(e)
      PROVE  d \in shut' /\ wire'[d] = <<>> /\ ~Complete(buf'[o])
  <2>1. e # o /\ connected'[o] = connected[o] /\ o \notin shut /\ shut \subseteq shut' /\ wire' = wire /\ buf' = buf
    BY <1>0, <1>8 DEF Close, TypeOK
  <2> QED BY <1>0, <2>1 DEF ReadToTheEnd, o
<1>9. ASSUME NEW e \in End, Reset(e)
      PROVE  d \in shut' /\ wire'[d] = <<>> /\ ~Complete(buf'[o])
  BY <1>0, <1>9 DEF Reset, ReadToTheEnd, TypeOK, o
<1>10. CASE UNCHANGED vars
  BY <1>0, <1>10 DEF vars, ReadToTheEnd, o
<1> QED BY <1>1, <1>2, <1>3, <1>4, <1>5, <1>6, <1>7, <1>8, <1>9, <1>10 DEF Next, Recv

LEMMA AllDelivered ==
  ASSUME TypeOK, StreamInv, [Next]_vars, NEW d \in End \ gaveUp'
  PROVE  Delivered(d)'
<1> DEFINE o == Other(d)
<1>0. d \in End /\ o \in End /\ o # d /\ Other(o) = d /\ \A e \in End : e = d \/ e = o
  BY Ends
<1> HIDE DEF o
<1> DEFINE Same == Stream(d)' = Stream(d) /\ sent'[d] = sent[d]
                     /\ got'[o] = got[o] /\ Extent(d)' = Extent(d)
<1>1. d \notin gaveUp
  <2>1. gaveUp \subseteq gaveUp'
    BY DEF Next, vars, Send, Write, GiveUp, Recv, RecvBuffered, RecvReads, RecvNothing, RecvEnds, Close, Reset
  <2> QED BY <2>1
<1>2. Delivered(d) /\ discarded \subseteq shut
  BY <1>1 DEF StreamInv
<1>3. Same => Delivered(d)'
  BY <1>0, <1>2, DeliveredStays DEF o
<1>4. ASSUME NEW e \in End, NEW m \in Message, Send(e, m) PROVE Delivered(d)'
  <2>1. CASE e = d
    BY <1>2, <1>4, <2>1, SendDelivers
  <2>2. CASE e # d
    <3>1. Same
      BY <1>0, <1>4, <2>2 DEF Send, Stream, Extent, TypeOK, Other
    <3> QED BY <1>3, <3>1
  <2> QED BY <2>1, <2>2
<1>5. ASSUME NEW e \in End, Write(e) PROVE Delivered(d)'
  <2>1. Same
    <3>1. CASE e = d
      <4>1. Stream(d)' = Stream(d)
        BY <1>5, <3>1, WriteKeepsStream
      <4> QED BY <1>5, <4>1 DEF Write, Extent
    <3>2. CASE e # d
      BY <1>0, <1>5, <3>2 DEF Write, Stream, Extent, TypeOK, Other
    <3> QED BY <3>1, <3>2
  <2> QED BY <1>3, <2>1
<1>6. ASSUME NEW e \in End, GiveUp(e) PROVE Delivered(d)'
  <2>1. e # d
    BY <1>6 DEF GiveUp
  <2>2. Same
    BY <1>0, <1>6, <2>1 DEF GiveUp, Stream, Extent, TypeOK, Other
  <2> QED BY <1>3, <2>2
<1>7. ASSUME NEW e \in End, RecvBuffered(e) PROVE Delivered(d)'
  <2>1. CASE e = o
    BY <1>0, <1>2, <1>7, <2>1, BufferedDelivers
  <2>2. CASE e = d
    <3>1. buf'[o] = buf[o] /\ got'[o] = got[o]
      BY <1>0, <1>7, <2>2 DEF RecvBuffered, Deliver, TypeOK
    <3>2. Same
      BY <1>7, <3>1 DEF RecvBuffered, Stream, Extent, o, Other
    <3> QED BY <1>3, <3>2
  <2> QED BY <1>0, <2>1, <2>2
<1>8. ASSUME NEW e \in End, RecvReads(e) PROVE Delivered(d)'
  <2>1. CASE e = o
    BY <1>0, <1>2, <1>8, <2>1, ReadsDelivers
  <2>2. CASE e = d
    <3>1. buf'[o] = buf[o] /\ got'[o] = got[o] /\ wire'[d] = wire[d] /\ out' = out /\ sent' = sent
          /\ discarded' = discarded
      BY <1>0, <1>8, <2>2 DEF RecvReads, Deliver, TypeOK, o
    <3>2. Same
      BY <3>1 DEF Stream, Extent, o, Other
    <3> QED BY <1>3, <3>2
  <2> QED BY <1>0, <2>1, <2>2
<1>9. ASSUME NEW e \in End, RecvNothing(e) \/ RecvEnds(e) PROVE Delivered(d)'
  <2>1. buf'[o] = buf[o]
    <3>1. CASE e = o
      <4> DEFINE b == buf[o]
                 r == wire[d] \o out[d]
                 msgs == sent[d]
                 k == Len(got[o])
                 w == Extent(d)
      <4>1. b \in Seq(Byte) /\ r \in Seq(Byte) /\ msgs \in Seq(Message) /\ Encodes(b \o r, msgs, k, w)
        <5>1. b \in Seq(Byte) /\ wire[d] \in Seq(Byte) /\ out[d] \in Seq(Byte) /\ msgs \in Seq(Message)
          BY <1>0 DEF TypeOK
        <5>2. r \in Seq(Byte)
          BY <5>1, ConcatProperties
        <5> QED BY <1>2, <5>1, <5>2 DEF Delivered, Stream, o
      <4> HIDE DEF b, r, msgs, k, w
      <4>2. Kept(b) = b /\ ~Broken(b)
        BY <4>1, KeptWhole
      <4> QED BY <1>0, <1>9, <3>1, <4>2 DEF RecvNothing, RecvEnds, TypeOK, b
    <3>2. CASE e # o
      BY <1>0, <1>9, <3>2 DEF RecvNothing, RecvEnds, TypeOK
    <3> QED BY <3>1, <3>2
  <2>2. Same
    BY <1>9, <2>1 DEF RecvNothing, RecvEnds, Stream, Extent, o, Other
  <2> QED BY <1>3, <2>2
<1>10. ASSUME NEW e \in End, Close(e) PROVE Delivered(d)'
  <2>1. Same
    BY <1>10 DEF Close, Stream, Extent, Other
  <2> QED BY <1>3, <2>1
<1>11. ASSUME NEW e \in End, Reset(e) PROVE Delivered(d)'
  <2>1. CASE e = d
    BY <1>2, <1>11, <2>1, ResetDelivers
  <2>2. CASE e # d
    <3>1. Same
      BY <1>0, <1>11, <2>2 DEF Reset, Stream, Extent, TypeOK, Other
    <3> QED BY <1>3, <3>1
  <2> QED BY <2>1, <2>2
<1>12. CASE UNCHANGED vars
  <2>1. Same
    BY <1>12 DEF vars, Stream, Extent, Other
  <2> QED BY <1>3, <2>1
<1> QED BY <1>4, <1>5, <1>6, <1>7, <1>8, <1>9, <1>10, <1>11, <1>12 DEF Next, Recv

LEMMA StreamStep == TypeOK /\ StreamInv /\ [Next]_vars => StreamInv'
<1> SUFFICES ASSUME TypeOK, StreamInv, [Next]_vars PROVE StreamInv'
  OBVIOUS
<1>1. (discarded \subseteq shut)'
  <2>1. discarded \subseteq shut
    BY DEF StreamInv
  <2> QED BY <2>1 DEF Next, vars, Send, Write, GiveUp, Recv, RecvBuffered, RecvReads, RecvNothing,
             RecvEnds, Close, Reset
<1>2. (\A d \in End \ gaveUp : Delivered(d))'
  BY AllDelivered
<1>3. (\A d \in End : ReadToTheEnd(d))'
  BY EndsRead
<1> QED BY <1>1, <1>2, <1>3 DEF StreamInv
----------------------------------------------------------------------------
(* What the stream delivers. *)

LEMMA InOrder == TypeOK /\ StreamInv => InOrderAndWhole
<1> SUFFICES ASSUME TypeOK, StreamInv, NEW e \in End \ gaveUp
             PROVE  IsPrefix(got[Other(e)], CopiesOf(sent[e]))
  BY DEF InOrderAndWhole
<1> DEFINE g == got[Other(e)]
           c == CopiesOf(sent[e])
           k == Len(g)
           n == Len(sent[e])
<1>1. g \in Seq(Seq(Byte)) /\ sent[e] \in Seq(Message) /\ k \in Nat /\ n \in Nat
  BY Ends, LenProperties DEF TypeOK
<1>2. k \in 0..n /\ \A i \in 1..k : g[i] = Copied(sent[e][i])
  BY DEF StreamInv, Delivered, Encodes
<1>3. DOMAIN c = 1..n /\ Len(c) = n /\ \A i \in 1..n : c[i] = Copied(sent[e][i])
  BY <1>1, LenProperties DEF CopiesOf
<1> HIDE DEF g, c, k, n
<1>4. SubSeq(g, 1, k) = SubSeq(c, 1, k)
  BY <1>1, <1>2, <1>3 DEF k
<1> QED BY <1>1, <1>2, <1>3, <1>4 DEF IsPrefix, g, c, k

(* Of an end that was closed and all of whose bytes were made frames of, every
   message was received. *)
LEMMA AllWasTaken ==
  ASSUME TypeOK, StreamInv, NEW e \in shut \ (gaveUp \cup discarded),
         wire[e] = <<>>, ~Complete(buf[Other(e)])
  PROVE  Len(got[Other(e)]) = Len(sent[e])
<1> DEFINE b == buf[Other(e)]
           k == Len(got[Other(e)])
<1>1. e \in End /\ Other(e) \in End /\ out[e] = <<>> /\ Extent(e) = "whole"
      /\ b \in Seq(Byte) /\ sent[e] \in Seq(Message) /\ ~Complete(b)
  BY Ends DEF TypeOK, Extent
<1>2. Encodes(Stream(e), sent[e], k, "whole")
  BY <1>1 DEF StreamInv, Delivered
<1>3. Stream(e) = b
  <2>1. Stream(e) = b \o (<<>> \o <<>>)
    BY <1>1 DEF Stream
  <2> HIDE DEF b
  <2>2. b \o (<<>> \o <<>>) = b
    <3>1. <<>> \o <<>> = <<>>
      OBVIOUS
    <3> QED BY <1>1, <3>1, ConcatEmptySeq
  <2> QED BY <2>1, <2>2
<1> HIDE DEF b, k
<1>4. k = Len(sent[e])
  BY <1>1, <1>2, <1>3, EncodesEnd
<1> QED BY <1>4 DEF k

LEMMA AllAtTheEnd == TypeOK /\ StreamInv => NothingLostAtTheEnd
<1> SUFFICES ASSUME TypeOK, StreamInv, NEW e \in shut \ (gaveUp \cup discarded),
                    ~connected[Other(e)], Other(e) \notin shut
             PROVE  got[Other(e)] = CopiesOf(sent[e])
  BY DEF NothingLostAtTheEnd
<1> DEFINE g == got[Other(e)]
<1>1. e \in End /\ Other(e) \in End /\ wire[e] = <<>> /\ ~Complete(buf[Other(e)])
      /\ g \in Seq(Seq(Byte)) /\ sent[e] \in Seq(Message)
  BY Ends DEF TypeOK, StreamInv, ReadToTheEnd
<1>2. \A i \in 1..Len(g) : g[i] = Copied(sent[e][i])
  BY <1>1 DEF StreamInv, Delivered
<1>3. Len(g) = Len(sent[e])
  BY <1>1, AllWasTaken
<1>4. g = [i \in 1..Len(g) |-> g[i]] /\ DOMAIN sent[e] = 1..Len(sent[e])
  BY <1>1
<1> HIDE DEF g
<1> QED BY <1>2, <1>3, <1>4 DEF CopiesOf, g

(* What is received are the messages that were sent, in that order, each as it was
   and once, as long as no send has failed (ws_transport send and recv,
   WsFrameAssembler::next). *)
THEOREM StreamInOrder == Spec => []InOrderAndWhole
<1>1. Spec => [](TypeOK /\ StreamInv)
  BY InitType, NextType, StreamStart, StreamStep, PTL DEF Spec
<1> QED BY <1>1, InOrder, PTL

(* An end that finds the other one closed has received all that was sent, unless the
   connection was reset (recv: assembler, socket, end of the stream). *)
THEOREM StreamComplete == Spec => []NothingLostAtTheEnd
<1>1. Spec => [](TypeOK /\ StreamInv)
  BY InitType, NextType, StreamStart, StreamStep, PTL DEF Spec
<1> QED BY <1>1, AllAtTheEnd, PTL
----------------------------------------------------------------------------
(* The stream implements a transport of messages. *)

LEMMA PayloadTyped == ASSUME NEW b \in Seq(Byte), Complete(b) PROVE Payload(b) \in Seq(Byte)
<1>1. b # <<>> /\ Len(b) > Head(b) /\ Len(b) \in Nat /\ Head(b) = b[1] /\ 1 \in 1..Len(b)
  BY LenProperties, HeadTailProperties, EmptySeq DEF Complete
<1>2. Head(b) \in Nat
  BY <1>1, ElementOfSeq, StreamAssumption DEF Byte
<1>3. Head(b) + 1 \in Nat /\ Head(b) + 1 <= Len(b)
  BY <1>1, <1>2
<1> QED BY <1>3, Between DEF Payload

LEMMA CopiedBytes ==
  ASSUME NEW p \in Seq(Byte), p # <<>>
  PROVE  Copied(p) \in Transport!Bytes
<1> DEFINE n == IF Len(p) <= RecvCap THEN Len(p) ELSE RecvCap
<1>1. Len(p) \in Nat \ {0} /\ RecvCap \in Nat \ {0} /\ \A i \in 1..Len(p) : p[i] \in Byte
  BY EmptySeq, LenProperties, ElementOfSeq, StreamAssumption
<1>2. n \in 1..RecvCap /\ n <= Len(p)
  BY <1>1
<1>3. Copied(p) = SubSeq(p, 1, n)
  BY DEF Copied
<1> HIDE DEF n
<1>4. SubSeq(p, 1, n) = [i \in 1..n |-> p[i]]
  BY <1>1, <1>2
<1>5. [i \in 1..n |-> p[i]] \in [1..n -> Byte]
  BY <1>1, <1>2
<1> QED BY <1>2, <1>3, <1>4, <1>5 DEF Transport!Bytes

(* A frame that is taken is the next message, or the sender has failed. *)
LEMMA DeliverReceives ==
  ASSUME TypeOK, StreamInv, StreamInv', NEW e \in End, NEW b \in Seq(Byte),
         Complete(b), Deliver(e, b), connected[e],
         UNCHANGED <<connected, shut, sent, gaveUp, discarded>>
  PROVE  got' = got \/ Transport!Recv(e)
<1> DEFINE o == Other(e)
           p == Payload(b)
           x == Copied(p)
           k == Len(got[e])
<1>1. o \in End /\ Other(o) = e /\ got[e] \in Seq(Seq(Byte)) /\ k \in Nat /\ sent[o] \in Seq(Message)
  BY Ends, LenProperties DEF TypeOK
<1>2. CASE p = <<>>
  <2>1. got' = [got EXCEPT ![e] = got[e]]
    BY <1>2 DEF Deliver
  <2> QED BY <2>1 DEF TypeOK
<1>3. CASE p # <<>>
  <2>1. got' = [got EXCEPT ![e] = Append(got[e], x)]
    BY <1>3 DEF Deliver
  <2>2. p \in Seq(Byte)
    BY PayloadTyped
  <2>3. x \in Transport!Bytes /\ x \in Seq(Byte)
    BY <1>3, <2>2, CopiedBytes, PartsTyped
  <2> HIDE DEF x, p
  <2>4. CASE o \in gaveUp
    BY <2>1, <2>3, <2>4 DEF Transport!Recv, Transport!Other, Other, o
  <2>5. CASE o \notin gaveUp
    <3>1. got'[e] = Append(got[e], x)
      BY <2>1 DEF TypeOK
    <3>2. Len(got'[e]) = k + 1 /\ got'[e][k + 1] = x
      BY <1>1, <2>3, <3>1, AppendProperties
    <3>3. Delivered(o)'
      BY <1>1, <2>5 DEF StreamInv
    <3>4. /\ Len(got'[e]) \in 0..Len(sent[o])
          /\ \A i \in 1..Len(got'[e]) : got'[e][i] = Copied(sent[o][i])
      <4>1. /\ \A i \in 1..Len(got'[Other(o)]) : got'[Other(o)][i] = Copied(sent'[o][i])
            /\ Encodes(Stream(o)', sent'[o], Len(got'[Other(o)]), Extent(o)')
        <5> HIDE DEF o
        <5> QED BY <3>3 DEF Delivered
      <4>2. Len(got'[Other(o)]) \in 0..Len(sent'[o])
        <5> HIDE DEF o
        <5> QED BY <4>1 DEF Encodes
      <4>3. Other(o) = e /\ sent' = sent
        BY <1>1
      <4> HIDE DEF o
      <4> QED BY <4>1, <4>2, <4>3
    <3>5. k < Len(sent[o]) /\ x = Copied(sent[o][k + 1])
      <4>1. Len(sent[o]) \in Nat
        BY <1>1, LenProperties
      <4> HIDE DEF k, o
      <4> QED BY <1>1, <3>2, <3>4, <4>1
    <3>6. x = Transport!UpTo(sent[o][k + 1])
      BY <3>5 DEF Copied, Transport!UpTo
    <3> QED BY <2>1, <3>5, <3>6 DEF Transport!Recv, Transport!Other, Other, o, k
  <2> QED BY <2>4, <2>5
<1> QED BY <1>2, <1>3

LEMMA TransportStep ==
  TypeOK /\ StreamInv /\ [Next]_vars => [Transport!TNext]_(Transport!tvars)
<1> SUFFICES ASSUME TypeOK, StreamInv, [Next]_vars
             PROVE  [Transport!TNext]_(Transport!tvars)
  OBVIOUS
<1> DEFINE Step == [Transport!TNext]_(Transport!tvars)
<1>0. StreamInv' /\ Transport!End = End
  BY StreamStep DEF Transport!End, End
<1>1. ASSUME NEW e \in End, NEW m \in Message, Send(e, m) PROVE Step
  <2>1. Transport!Send(e, m)
    BY <1>1 DEF Send, Transport!Send
  <2> QED BY <1>0, <2>1 DEF Transport!TNext
<1>2. ASSUME NEW e \in End, Write(e) \/ RecvNothing(e) PROVE Step
  BY <1>2 DEF Write, RecvNothing, Transport!tvars
<1>3. ASSUME NEW e \in End, GiveUp(e) PROVE Step
  <2>1. Transport!Fail(e)
    BY <1>3 DEF GiveUp, TypeOK, Transport!Fail
  <2> QED BY <1>0, <2>1 DEF Transport!TNext
<1>4. ASSUME NEW e \in End, NEW b \in Seq(Byte), Complete(b), Deliver(e, b), connected[e],
             UNCHANGED <<connected, shut, sent, gaveUp, discarded>>
      PROVE  Step
  <2>1. got' = got \/ Transport!Recv(e)
    BY <1>0, <1>4, DeliverReceives
  <2> QED BY <1>0, <1>4, <2>1 DEF Transport!TNext, Transport!tvars
<1>5. ASSUME NEW e \in End, RecvBuffered(e) PROVE Step
  <2>1. buf[e] \in Seq(Byte)
    BY DEF TypeOK
  <2> QED BY <1>4, <1>5, <2>1 DEF RecvBuffered
<1>6. ASSUME NEW e \in End, RecvReads(e) PROVE Step
  <2> DEFINE o == Other(e)
  <2>1. PICK n \in 1..Len(wire[o]) :
          LET fed == Kept(buf[e]) \o SubSeq(wire[o], 1, n)
          IN  IF Complete(fed) THEN Deliver(e, fed) ELSE UNCHANGED got
    BY <1>6 DEF RecvReads
  <2> DEFINE a == Kept(buf[e])
             c == SubSeq(wire[o], 1, n)
             fed == a \o c
  <2>2. fed \in Seq(Byte)
    <3>1. o \in End /\ wire[o] \in Seq(Byte) /\ buf[e] \in Seq(Byte) /\ n \in 0..Len(wire[o])
      BY <2>1, Ends DEF TypeOK
    <3>2. a \in Seq(Byte) /\ c \in Seq(Byte)
      BY <3>1, PartsTyped, Split
    <3> HIDE DEF a, c
    <3> QED BY <3>2, ConcatProperties
  <2>3. CASE Complete(fed)
    <3>1. Deliver(e, fed) /\ connected[e] /\ UNCHANGED <<connected, shut, sent, gaveUp, discarded>>
      BY <1>6, <2>1, <2>3 DEF RecvReads
    <3> HIDE DEF fed
    <3> QED BY <1>4, <2>2, <2>3, <3>1
  <2>4. CASE ~Complete(fed)
    BY <1>6, <2>1, <2>4 DEF RecvReads, Transport!tvars
  <2> QED BY <2>3, <2>4
<1>7. ASSUME NEW e \in End, RecvEnds(e) PROVE Step
  <2>1. /\ Other(e) \in shut /\ wire[Other(e)] = <<>> /\ ~Complete(buf[e])
        /\ Other(Other(e)) = e
    BY <1>7, Ends DEF RecvEnds
  <2>2. Other(e) \notin gaveUp \cup discarded => Len(got[e]) = Len(sent[Other(e)])
    BY <2>1, AllWasTaken
  <2>3. Transport!RecvOver(e)
    BY <1>7, <2>1, <2>2 DEF RecvEnds, Transport!RecvOver, Transport!Other, Other
  <2> QED BY <1>0, <2>3 DEF Transport!TNext
<1>8. ASSUME NEW e \in End, Close(e) PROVE Step
  <2>1. Transport!Close(e)
    BY <1>8 DEF Close, Transport!Close
  <2> QED BY <1>0, <2>1 DEF Transport!TNext
<1>9. ASSUME NEW e \in End, Reset(e) PROVE Step
  <2>1. Transport!CutOff(e)
    BY <1>9 DEF Reset, Transport!CutOff
  <2> QED BY <1>0, <2>1 DEF Transport!TNext
<1>10. CASE UNCHANGED vars
  BY <1>10 DEF vars, Transport!tvars
<1> QED BY <1>1, <1>2, <1>3, <1>5, <1>6, <1>7, <1>8, <1>9, <1>10 DEF Next, Recv

(* Whatever way the bytes of a connection are cut, it implements the interface of
   net/transport.h as MessageTransport states it. *)
THEOREM StreamImplementsTransport == Spec => ImplementsTransport
<1>1. Init => Transport!TInit
  BY DEF Init, Transport!TInit, Transport!End, End
<1>2. Spec => [](TypeOK /\ StreamInv)
  BY InitType, NextType, StreamStart, StreamStep, PTL DEF Spec
<1> QED BY <1>1, <1>2, TransportStep, PTL DEF Spec, ImplementsTransport, Transport!TSpec
----------------------------------------------------------------------------
(* The sealed link. *)

(* The two ends of a link have one role each (linkRoleFor). *)
LEMMA Roles ==
  /\ \A p \in Peer : sendRole(p) \in {0, 1} /\ otherEnd(p) \in Peer
  /\ \A p \in Peer : recvRole(p) = sendRole(otherEnd(p))
  /\ \A p, q \in Peer : sendRole(p) = sendRole(q) => p = q
BY ChannelAssumption DEF Peer, otherEnd, sendRole, recvRole, linkRoleFor

LEMMA SealType ==
  ASSUME ChannelTypeOK, NEW p \in Peer, NEW m \in Plaintext
  PROVE  Seal(p, m) \in Frame
BY Roles DEF ChannelTypeOK, Seal, Frame

LEMMA SealedTyped == ChannelTypeOK /\ [ChannelNext]_channelVars => ChannelTypeOK'
<1> SUFFICES ASSUME ChannelTypeOK, [ChannelNext]_channelVars PROVE ChannelTypeOK'
  OBVIOUS
<1>1. ASSUME NEW p \in Peer, NEW m \in Plaintext, SealedSend(p, m) PROVE ChannelTypeOK'
  <2>1. sendCtr' \in [Peer -> 0..MaxCtr]
    BY <1>1, ChannelAssumption DEF SealedSend, ChannelTypeOK
  <2>2. sealed' \subseteq Frame
    BY <1>1, SealType DEF SealedSend, ChannelTypeOK
  <2> QED BY <1>1, <2>1, <2>2 DEF SealedSend, ChannelTypeOK
<1>2. ASSUME NEW p \in Peer, NEW f \in Arrives, SealedRecv(p, f) PROVE ChannelTypeOK'
  <2>1. f \in Frame
    BY DEF Arrives, ChannelTypeOK, Frame
  <2>2. taken' \in [Peer -> Seq(Frame)]
    BY <1>2, <2>1 DEF SealedRecv, ChannelTypeOK
  <2> QED BY <1>2, <2>1, <2>2 DEF SealedRecv, ChannelTypeOK, Frame
<1>3. CASE UNCHANGED channelVars
  BY <1>3 DEF ChannelTypeOK, channelVars
<1> QED BY <1>1, <1>2, <1>3 DEF ChannelNext, SendRefused, RecvRejects

(* The variables of a link keep their types (EncryptedTransport's members); the
   counter never wraps. *)
THEOREM ChannelTypeCorrect == ChannelSpec => []ChannelTypeOK
<1>1. ChannelInit => ChannelTypeOK
  BY ChannelAssumption DEF ChannelInit, ChannelTypeOK
<1> QED BY <1>1, SealedTyped, PTL DEF ChannelSpec

(* The inductive invariant of the link. *)
ChannelInv ==
  /\ ChannelTypeOK
  /\ SealedIsSpent
  /\ NonceIsNeverReused
  /\ LastCovers
  /\ TakesWhatWasSent

LEMMA SendKeeps ==
  ASSUME ChannelInv, ChannelTypeOK', NEW p \in Peer, NEW m \in Plaintext, SealedSend(p, m)
  PROVE  ChannelInv'
<1> DEFINE new == Seal(p, m)
<1>1. sealed' = sealed \cup {new} /\ sendCtr' = [sendCtr EXCEPT ![p] = @ + 1]
      /\ UNCHANGED <<lastRecv, haveRecv, taken>>
  BY DEF SealedSend
<1>2. new.role = sendRole(p) /\ new.ctr = sendCtr[p] /\ new.intact
  BY DEF Seal
<1>3. \A q \in Peer : sendCtr[q] \in Nat /\ sendCtr'[q] \in Nat /\ sendCtr[q] <= sendCtr'[q]
  BY <1>1, ChannelAssumption DEF ChannelInv, ChannelTypeOK
<1>4. sendCtr'[p] = sendCtr[p] + 1
  BY <1>1 DEF ChannelInv, ChannelTypeOK
<1>5. \A f \in sealed : f.ctr \in Nat
  BY ChannelAssumption DEF ChannelInv, ChannelTypeOK, Frame
<1>6. SealedIsSpent'
  <2> SUFFICES ASSUME NEW f \in sealed'
               PROVE  \E q \in Peer : f.role = sendRole(q) /\ f.ctr < sendCtr'[q] /\ f.intact
    BY DEF SealedIsSpent
  <2>1. CASE f = new
    BY <2>1, <1>2, <1>3, <1>4
  <2>2. CASE f \in sealed
    <3>1. PICK q \in Peer : f.role = sendRole(q) /\ f.ctr < sendCtr[q] /\ f.intact
      BY <2>2 DEF ChannelInv, SealedIsSpent
    <3> QED BY <3>1, <1>3, <1>5, <2>2
  <2> QED BY <2>1, <2>2, <1>1
<1>7. NonceIsNeverReused'
  <2>1. \A f \in sealed : ~(f.role = new.role /\ f.ctr = new.ctr)
    <3> SUFFICES ASSUME NEW f \in sealed, f.role = new.role PROVE f.ctr # new.ctr
      OBVIOUS
    <3>1. PICK q \in Peer : f.role = sendRole(q) /\ f.ctr < sendCtr[q]
      BY DEF ChannelInv, SealedIsSpent
    <3>2. q = p
      BY <3>1, <1>2, Roles
    <3> QED BY <3>1, <3>2, <1>2, <1>3, <1>5
  <2> QED BY <2>1, <1>1 DEF ChannelInv, NonceIsNeverReused
<1>8. LastCovers' /\ TakesWhatWasSent'
  BY <1>1 DEF ChannelInv, LastCovers, TakesWhatWasSent, Increasing
<1> QED BY <1>6, <1>7, <1>8 DEF ChannelInv

LEMMA RecvKeeps ==
  ASSUME ChannelInv, ChannelTypeOK', NEW p \in Peer, NEW f \in Arrives, SealedRecv(p, f)
  PROVE  ChannelInv'
<1>1. f \in sealed /\ f.role = sendRole(otherEnd(p)) /\ (haveRecv[p] => f.ctr > lastRecv[p])
  BY Roles DEF SealedRecv, Acceptable, Arrives, ChannelInv, ChannelTypeOK, Frame
<1>2. f \in Frame /\ f.ctr \in Nat /\ lastRecv[p] \in Nat
  BY <1>1, ChannelAssumption DEF ChannelInv, ChannelTypeOK, Frame
<1> DEFINE n == Len(taken[p])
<1>3. /\ n \in Nat /\ Len(taken'[p]) = n + 1
      /\ \A i \in 1..n : taken'[p][i] = taken[p][i] /\ taken[p][i] \in Frame
      /\ taken'[p][n + 1] = f
      /\ \A q \in Peer : q # p => taken'[q] = taken[q]
  BY <1>2 DEF SealedRecv, ChannelInv, ChannelTypeOK
<1>4. \A i \in 1..n : taken[p][i].ctr < f.ctr /\ taken[p][i].ctr \in Nat
  <2> SUFFICES ASSUME NEW i \in 1..n PROVE taken[p][i].ctr < f.ctr /\ taken[p][i].ctr \in Nat
    OBVIOUS
  <2>1. haveRecv[p] /\ taken[p][i].ctr <= lastRecv[p]
    BY DEF ChannelInv, LastCovers
  <2>2. taken[p][i].ctr \in Nat
    BY <1>3, ChannelAssumption DEF Frame
  <2> QED BY <2>1, <2>2, <1>1, <1>2
<1>5. LastCovers'
  <2> SUFFICES ASSUME NEW q \in Peer, NEW i \in 1..Len(taken'[q])
               PROVE  haveRecv'[q] /\ taken'[q][i].ctr <= lastRecv'[q]
    BY DEF LastCovers
  <2>1. CASE q = p
    <3>1. haveRecv'[p] /\ lastRecv'[p] = f.ctr
      BY DEF SealedRecv, ChannelInv, ChannelTypeOK
    <3>2. i \in 1..n \/ i = n + 1
      BY <2>1, <1>3
    <3> QED BY <2>1, <3>1, <3>2, <1>2, <1>3, <1>4, SMTT(30)
  <2>2. CASE q # p
    BY <2>2, <1>3 DEF SealedRecv, ChannelInv, ChannelTypeOK, LastCovers
  <2> QED BY <2>1, <2>2
<1>6. TakesWhatWasSent'
  <2> SUFFICES ASSUME NEW q \in Peer
               PROVE  /\ Increasing(taken'[q])
                      /\ \A i \in 1..Len(taken'[q]) :
                           taken'[q][i] \in sealed /\ taken'[q][i].role = sendRole(otherEnd(q))
    BY DEF TakesWhatWasSent, SealedRecv
  <2>1. CASE q = p
    <3>1. \A i, j \in 1..(n + 1) : i < j => taken'[p][i].ctr < taken'[p][j].ctr
      <4> SUFFICES ASSUME NEW i \in 1..(n + 1), NEW j \in 1..(n + 1), i < j
                   PROVE  taken'[p][i].ctr < taken'[p][j].ctr
        OBVIOUS
      <4>1. i \in 1..n
        BY <1>3
      <4>2. CASE j = n + 1
        BY <4>1, <4>2, <1>3, <1>4
      <4>3. CASE j \in 1..n
        BY <4>1, <4>3, <1>3 DEF ChannelInv, TakesWhatWasSent, Increasing
      <4> QED BY <4>2, <4>3, <1>3
    <3>2. \A i \in 1..(n + 1) :
            taken'[p][i] \in sealed /\ taken'[p][i].role = sendRole(otherEnd(p))
      <4> SUFFICES ASSUME NEW i \in 1..(n + 1)
                   PROVE  taken'[p][i] \in sealed /\ taken'[p][i].role = sendRole(otherEnd(p))
        OBVIOUS
      <4>1. CASE i = n + 1
        BY <4>1, <1>1, <1>3
      <4>2. CASE i \in 1..n
        BY <4>2, <1>3 DEF ChannelInv, TakesWhatWasSent
      <4> QED BY <4>1, <4>2, <1>3
    <3> QED BY <2>1, <3>1, <3>2, <1>3 DEF Increasing
  <2>2. CASE q # p
    BY <2>2, <1>3 DEF ChannelInv, TakesWhatWasSent
  <2> QED BY <2>1, <2>2
<1>7. SealedIsSpent' /\ NonceIsNeverReused'
  BY DEF SealedRecv, ChannelInv, SealedIsSpent, NonceIsNeverReused
<1> QED BY <1>5, <1>6, <1>7 DEF ChannelInv

LEMMA ChannelInvNext == ChannelInv /\ [ChannelNext]_channelVars => ChannelInv'
<1> SUFFICES ASSUME ChannelInv, [ChannelNext]_channelVars PROVE ChannelInv'
  OBVIOUS
<1>1. ChannelTypeOK'
  BY SealedTyped DEF ChannelInv
<1>2. CASE UNCHANGED channelVars
  BY <1>2 DEF channelVars, ChannelInv, ChannelTypeOK, SealedIsSpent, NonceIsNeverReused, LastCovers,
              TakesWhatWasSent, Increasing
<1> QED BY <1>1, <1>2, SendKeeps, RecvKeeps DEF ChannelNext, SendRefused, RecvRejects

LEMMA ChannelInvInit == ChannelInit => ChannelInv
BY ChannelAssumption DEF ChannelInit, ChannelInv, ChannelTypeOK, SealedIsSpent, NonceIsNeverReused,
                         LastCovers, TakesWhatWasSent, Increasing

(* No nonce stands for two frames of a link (makeNonce, linkRoleFor). *)
THEOREM NonceUnique == ChannelSpec => []NonceIsNeverReused
<1>1. ChannelInv => NonceIsNeverReused
  BY DEF ChannelInv
<1> QED BY <1>1, ChannelInvInit, ChannelInvNext, PTL DEF ChannelSpec

(* Over any transport a machine takes the frames the other has sealed, in the order
   of their sealing, each at most once (recv). *)
THEOREM ReceivesInOrder == ChannelSpec => []TakesWhatWasSent
<1>1. ChannelInv => TakesWhatWasSent
  BY DEF ChannelInv
<1> QED BY <1>1, ChannelInvInit, ChannelInvNext, PTL DEF ChannelSpec
=============================================================================
