------------------------- MODULE FileTransferProofs -------------------------
(***************************************************************************)
(* Proofs about FileTransfer, for any machines, files and selections: what *)
(* a receiver holds are the first chunks of the files that its session     *)
(* transfers, and what is on the wire are the chunks that come next, so a  *)
(* file that is read to its end is the promised one while the source keeps *)
(* what it promised.                                                       *)
(***************************************************************************)
EXTENDS FileTransfer, SequenceTheorems, TLAPS

(* The places of the thread and the states of a link are the values they list. *)
USE DEF Stage, LinkState

(* from and to count what a receiver has of each of files before and after it
   takes message, the next of the transfer. *)
Follows(files, from, message, to) ==
  \/ /\ from = <<>>
     /\ message = Meta(files)
     /\ to = [i \in DOMAIN files |-> 0]
  \/ \E i \in DOMAIN files :
       /\ Len(from) = Len(files)
       /\ from[i] < Chunks[files[i]]
       /\ message = Chunk(i, from[i], <<files[i], from[i] + 1>>)
       /\ to = [from EXCEPT ![i] = @ + 1]

(* The same for all of messages, in their order. *)
Carries(files, from, messages, to) ==
  \E counts \in [0..Len(messages) -> Seq(Nat)] :
    /\ counts[0] = from /\ counts[Len(messages)] = to
    /\ \A j \in 1..Len(messages) : Follows(files, counts[j - 1], messages[j], counts[j])

(* A receiver has nothing yet, or of each of files the first chunks. *)
Holds(files, bufs, recv) ==
  \/ bufs = <<>> /\ recv = <<>>
  \/ /\ Len(bufs) = Len(files) /\ Len(recv) = Len(files)
     /\ \A i \in DOMAIN files :
          /\ Len(bufs[i]) = Chunks[files[i]]
          /\ recv[i] <= Chunks[files[i]]
          /\ \A k \in 1..recv[i] : bufs[i][k] = <<files[i], k>>

Fresh(d) == wire[d] = <<>> /\ buffers[d] = <<>> /\ received[d] = <<>>
Serving(d) == server.dest = d /\ server.at \in {"meta", "chunks"}

(* The session of d transfers files: the wire takes its receiver to where the
   sender stands. *)
Transfers(d, files) ==
  /\ Holds(files, buffers[d], received[d])
  /\ \E counts \in Seq(Nat) :
       /\ Carries(files, received[d], wire[d], counts)
       /\ Serving(d) /\ server.at = "chunks" /\ link[d] = "open" => counts = server.cursors

SessionInv(d) == \E files \in Seq(File) :
  /\ Transfers(d, files)
  /\ Serving(d) => files = server.files
  /\ SourceKept => files = copied

(* The thread serves a session that has dialed, and sends it all that was copied. *)
ServerInv ==
  /\ server.at = "listening" => server = Idle
  /\ server.at \in {"accepting", "loading"} => server.files = <<>>
  /\ server.at # "listening" => server.dest \in Dest
  /\ server.at \in {"loading", "reading", "meta", "chunks"} => dialed[server.dest]
  /\ server.at \in {"loading", "reading", "meta"} => Fresh(server.dest)
  /\ server.at \in {"meta", "chunks"} => Len(server.cursors) = Len(server.files)
  /\ server.at = "meta" => server.cursors = [i \in DOMAIN server.files |-> 0]
  /\ SourceKept =>
       /\ server.at = "reading" => server.files \o server.paths = copied
       /\ server.at \in {"meta", "chunks"} => server.files = copied

(* Nothing has been copied yet. *)
Untouched ==
  /\ copied = <<>> /\ server = Idle
  /\ \A d \in Dest : mail[d] = <<>> /\ promise[d] = <<>> /\ paste[d] = NoPaste /\ ~dialed[d]

AnnouncedInv ==
  /\ copies = 0 => Untouched
  /\ \A d \in Dest : ~dialed[d] => Fresh(d)
  /\ SourceKept => \A d \in Dest :
       /\ \A i \in DOMAIN mail[d] : mail[d][i] = copied
       /\ promise[d] \in {<<>>, copied}

(* What a paste has taken: the promised files, the last of them up to some chunk. *)
PasteInv(d) ==
  LET taken == paste[d].taken
      n == Len(taken)
  IN  paste[d].at # "none" =>
        /\ promise[d] # <<>>
        /\ n \in 1..Len(promise[d])
        /\ SourceKept =>
             /\ \A i \in 1..(n - 1) : taken[i] = Content(promise[d][i])
             /\ Len(taken[n]) <= Chunks[promise[d][n]]
             /\ \A k \in 1..Len(taken[n]) : taken[n][k] = <<promise[d][n], k>>
             /\ paste[d].at = "done" => taken[n] = Content(promise[d][n])

TransferInv ==
  /\ TypeOK
  /\ ServerInv
  /\ AnnouncedInv
  /\ \A d \in Dest : SessionInv(d) /\ PasteInv(d)
----------------------------------------------------------------------------
(* The messages of a transfer and what a receiver makes of them. *)

LEMMA FileFacts ==
  ASSUME NEW files \in Seq(File), NEW i \in DOMAIN files
  PROVE  i \in 1..Len(files) /\ files[i] \in File /\ Chunks[files[i]] \in Nat
<1>1. i \in 1..Len(files) /\ files[i] \in File
  BY LenProperties, ElementOfSeq
<1> QED BY <1>1, FileAssumption

LEMMA StartIs ==
  ASSUME NEW files \in Seq(File)
  PROVE  /\ [i \in DOMAIN files |-> 0] \in Seq(Nat)
         /\ Len([i \in DOMAIN files |-> 0]) = Len(files)
<1>1. DOMAIN files = 1..Len(files) /\ Len(files) \in Nat
  BY LenProperties
<1>2. [i \in 1..Len(files) |-> 0] \in Seq(Nat) /\ Len([i \in 1..Len(files) |-> 0]) = Len(files)
  BY <1>1
<1> QED BY <1>1, <1>2

LEMMA MetaIs ==
  ASSUME NEW files \in Seq(File)
  PROVE  /\ Meta(files) \in Message /\ Meta(files).kind = "meta"
         /\ Meta(files).sizes \in Seq(Nat) /\ Len(Meta(files).sizes) = Len(files)
         /\ \A i \in DOMAIN files : Meta(files).sizes[i] = Chunks[files[i]]
<1>1. DOMAIN files = 1..Len(files) /\ Len(files) \in Nat
  BY LenProperties
<1> DEFINE s == [i \in DOMAIN files |-> Chunks[files[i]]]
<1>2. \A i \in 1..Len(files) : Chunks[files[i]] \in Nat
  BY <1>1, FileFacts
<1>3. s \in Seq(Nat) /\ Len(s) = Len(files)
  BY <1>1, <1>2
<1>4. \A i \in DOMAIN files : s[i] = Chunks[files[i]]
  OBVIOUS
<1>5. Meta(files) = [kind |-> "meta", sizes |-> s]
  BY DEF Meta
<1> HIDE DEF s
<1> QED BY <1>3, <1>4, <1>5 DEF Message

LEMMA ChunkIs ==
  ASSUME NEW i \in Nat, NEW k \in Nat, NEW f \in File
  PROVE  /\ Chunk(i, k, <<f, k + 1>>) \in Message
         /\ Chunk(i, k, <<f, k + 1>>).kind = "chunk"
         /\ Chunk(i, k, <<f, k + 1>>).index = i
         /\ Chunk(i, k, <<f, k + 1>>).offset = k
         /\ Chunk(i, k, <<f, k + 1>>).data = <<f, k + 1>>
         /\ <<f, k + 1>> \in Data
<1>1. <<f, k + 1>> \in Data
  BY DEF Data
<1> QED BY <1>1 DEF Chunk, Message

LEMMA CarriesNothing ==
  ASSUME NEW files, NEW from \in Seq(Nat)
  PROVE  Carries(files, from, <<>>, from)
<1> DEFINE counts == [j \in 0..0 |-> from]
<1>1. counts \in [0..0 -> Seq(Nat)] /\ counts[0] = from
  OBVIOUS
<1>2. Len(<<>>) = 0 /\ 1..0 = {}
  OBVIOUS
<1> HIDE DEF counts
<1>3. \A j \in 1..0 : Follows(files, counts[j - 1], <<>>[j], counts[j])
  BY <1>2
<1> QED BY <1>1, <1>2, <1>3 DEF Carries

LEMMA CarriesMore ==
  ASSUME NEW files, NEW from, NEW messages \in Seq(Message), NEW to,
         Carries(files, from, messages, to),
         NEW message \in Message, NEW next \in Seq(Nat), Follows(files, to, message, next)
  PROVE  Carries(files, from, Append(messages, message), next)
<1> DEFINE n == Len(messages)
           more == Append(messages, message)
<1>1. PICK counts \in [0..n -> Seq(Nat)] :
        /\ counts[0] = from /\ counts[n] = to
        /\ \A j \in 1..n : Follows(files, counts[j - 1], messages[j], counts[j])
  BY DEF Carries
<1>2. /\ n \in Nat /\ Len(more) = n + 1 /\ more[n + 1] = message
      /\ \A j \in 1..n : more[j] = messages[j]
  BY LenProperties, AppendProperties
<1> DEFINE longer == [j \in 0..(n + 1) |-> IF j = n + 1 THEN next ELSE counts[j]]
<1> HIDE DEF n, more
<1>3. longer \in [0..(n + 1) -> Seq(Nat)]
  BY <1>1, <1>2
<1>4. longer[0] = from /\ longer[n + 1] = next
  BY <1>1, <1>2
<1>5. ASSUME NEW j \in 1..(n + 1)
      PROVE  Follows(files, longer[j - 1], more[j], longer[j])
  <2>1. CASE j = n + 1
    <3>1. longer[j - 1] = to /\ longer[j] = next /\ more[j] = message
      BY <1>1, <1>2, <2>1
    <3> QED BY <3>1
  <2>2. CASE j \in 1..n
    <3>1. longer[j - 1] = counts[j - 1] /\ longer[j] = counts[j] /\ more[j] = messages[j]
      BY <1>2, <2>2
    <3> QED BY <1>1, <2>2, <3>1
  <2> QED BY <1>2, <2>1, <2>2
<1> HIDE DEF longer
<1>6. Carries(files, from, more, next)
  BY <1>2, <1>3, <1>4, <1>5 DEF Carries
<1> QED BY <1>6 DEF more

LEMMA CarriesFirst ==
  ASSUME NEW files, NEW from, NEW messages \in Seq(Message), NEW to,
         Carries(files, from, messages, to), messages # <<>>
  PROVE  \E next \in Seq(Nat) : /\ Follows(files, from, Head(messages), next)
                                /\ Carries(files, next, Tail(messages), to)
<1> DEFINE n == Len(messages)
           rest == Tail(messages)
<1>1. PICK counts \in [0..n -> Seq(Nat)] :
        /\ counts[0] = from /\ counts[n] = to
        /\ \A j \in 1..n : Follows(files, counts[j - 1], messages[j], counts[j])
  BY DEF Carries
<1>2. n \in Nat \ {0} /\ Head(messages) = messages[1]
  BY EmptySeq, LenProperties
<1>3. Len(rest) = n - 1 /\ \A j \in 1..Len(rest) : rest[j] = messages[j + 1]
  BY HeadTailProperties
<1> DEFINE later == [j \in 0..(n - 1) |-> counts[j + 1]]
<1> HIDE DEF n, rest
<1>4. later \in [0..(n - 1) -> Seq(Nat)] /\ later[0] = counts[1] /\ later[n - 1] = to
  <2>1. \A j \in 0..(n - 1) : j + 1 \in 0..n
    BY <1>2
  <2>2. 0 \in 0..(n - 1) /\ n - 1 \in 0..(n - 1) /\ 0 + 1 = 1 /\ (n - 1) + 1 = n
    BY <1>2
  <2> QED BY <1>1, <2>1, <2>2
<1>5. ASSUME NEW j \in 1..(n - 1)
      PROVE  Follows(files, later[j - 1], rest[j], later[j])
  <2>1. /\ j + 1 \in 1..n /\ (j + 1) - 1 = j
        /\ j - 1 \in 0..(n - 1) /\ j \in 0..(n - 1) /\ (j - 1) + 1 = j
    BY <1>2
  <2>2. later[j - 1] = counts[j] /\ later[j] = counts[j + 1] /\ rest[j] = messages[j + 1]
    BY <1>3, <2>1
  <2>3. Follows(files, counts[(j + 1) - 1], messages[j + 1], counts[j + 1])
    BY <1>1, <2>1
  <2> QED BY <2>1, <2>2, <2>3
<1>6. Follows(files, from, messages[1], counts[1]) /\ counts[1] \in Seq(Nat)
  <2>1. 1 \in 1..n /\ 1 - 1 = 0 /\ 1 \in 0..n
    BY <1>2
  <2>2. Follows(files, counts[1 - 1], messages[1], counts[1])
    BY <1>1, <2>1
  <2> QED BY <1>1, <2>1, <2>2
<1> HIDE DEF later
<1>7. Carries(files, counts[1], rest, to)
  BY <1>2, <1>3, <1>4, <1>5 DEF Carries
<1> QED BY <1>2, <1>6, <1>7 DEF rest

(* What an empty wire carries is nothing. *)
LEMMA CarriedByNone ==
  ASSUME NEW files, NEW from, NEW to, Carries(files, from, <<>>, to)
  PROVE  from = to /\ from \in Seq(Nat)
<1>1. Len(<<>>) = 0
  OBVIOUS
<1>2. PICK counts \in [0..0 -> Seq(Nat)] : counts[0] = from /\ counts[0] = to
  BY <1>1 DEF Carries
<1> QED BY <1>2

(* A receiver takes the message that comes next. *)
LEMMA Takes ==
  ASSUME NEW files \in Seq(File), NEW bufs \in Seq(Seq(Data \cup {Blank})), NEW recv \in Seq(Nat),
         Holds(files, bufs, recv),
         NEW message, NEW next \in Seq(Nat), Follows(files, recv, message, next)
  PROVE  LET fed == Accept([buffers |-> bufs, received |-> recv], message)
         IN  /\ fed.received = next
             /\ fed.buffers \in Seq(Seq(Data \cup {Blank}))
             /\ Holds(files, fed.buffers, next)
<1> DEFINE receiver == [buffers |-> bufs, received |-> recv]
           fed == Accept(receiver, message)
           S == Data \cup {Blank}
<1>0. DOMAIN files = 1..Len(files) /\ Len(files) \in Nat
  BY LenProperties
<1>1. ASSUME recv = <<>>, message = Meta(files), next = [i \in DOMAIN files |-> 0]
      PROVE  /\ fed.received = next
             /\ fed.buffers \in Seq(Seq(S))
             /\ Holds(files, fed.buffers, next)
  <2> DEFINE sizes == Meta(files).sizes
             made == [i \in DOMAIN sizes |-> [k \in 1..sizes[i] |-> Blank]]
  <2>1. /\ message.kind = "meta" /\ message.sizes = sizes
        /\ DOMAIN sizes = DOMAIN files
        /\ \A i \in DOMAIN files : sizes[i] = Chunks[files[i]] /\ Chunks[files[i]] \in Nat
    BY <1>0, <1>1, MetaIs, FileFacts, LenProperties
  <2>2. fed.buffers = made /\ fed.received = [i \in DOMAIN sizes |-> 0]
    BY <2>1 DEF Accept, AcceptMeta
  <2> HIDE DEF sizes, receiver, fed
  <2>3. \A i \in 1..Len(files) : made[i] \in Seq(S) /\ Len(made[i]) = Chunks[files[i]]
    <3> SUFFICES ASSUME NEW i \in 1..Len(files)
                 PROVE  made[i] \in Seq(S) /\ Len(made[i]) = Chunks[files[i]]
      OBVIOUS
    <3>1. sizes[i] = Chunks[files[i]] /\ sizes[i] \in Nat /\ i \in DOMAIN sizes
      BY <1>0, <2>1
    <3>2. made[i] = [k \in 1..sizes[i] |-> Blank]
      BY <3>1
    <3> HIDE DEF made
    <3>3. [k \in 1..sizes[i] |-> Blank] \in Seq(S) /\ Len([k \in 1..sizes[i] |-> Blank]) = sizes[i]
      BY <3>1
    <3> QED BY <3>1, <3>2, <3>3
  <2>4. DOMAIN made = 1..Len(files)
    BY <1>0, <2>1
  <2>5. made \in [1..Len(files) -> Seq(S)]
    BY <2>3, <2>4
  <2> HIDE DEF made, S
  <2>6. made \in Seq(Seq(S)) /\ Len(made) = Len(files)
    <3> DEFINE T == Seq(S)
    <3>1. made \in [1..Len(files) -> T] /\ Len(files) \in Nat
      BY <1>0, <2>5
    <3> HIDE DEF T
    <3>2. made \in Seq(T) /\ Len(made) = Len(files)
      BY <3>1
    <3> QED BY <3>2 DEF T
  <2>7. Holds(files, made, next)
    <3>1. Len(next) = Len(files) /\ \A i \in DOMAIN files : next[i] = 0
      BY <1>1, StartIs
    <3>2. \A i \in DOMAIN files : 1..next[i] = {} /\ next[i] <= Chunks[files[i]]
      BY <2>1, <3>1
    <3> QED BY <1>0, <2>3, <2>6, <3>1, <3>2 DEF Holds
  <2>8. fed.received = next
    BY <1>1, <2>1, <2>2
  <2> QED BY <2>2, <2>6, <2>7, <2>8 DEF fed, receiver, S
<1>2. ASSUME NEW i \in DOMAIN files,
             Len(recv) = Len(files), recv[i] < Chunks[files[i]],
             message = Chunk(i, recv[i], <<files[i], recv[i] + 1>>),
             next = [recv EXCEPT ![i] = @ + 1]
      PROVE  /\ fed.received = next
             /\ fed.buffers \in Seq(Seq(S))
             /\ Holds(files, fed.buffers, next)
  <2> DEFINE k == recv[i] + 1
             piece == <<files[i], k>>
             new == [bufs[i] EXCEPT ![k] = piece]
             put == [bufs EXCEPT ![i] = new]
  <2>1. /\ i \in 1..Len(files) /\ files[i] \in File /\ Chunks[files[i]] \in Nat
        /\ recv[i] \in Nat /\ i \in Nat /\ DOMAIN recv = 1..Len(files)
    BY <1>0, <1>2, FileFacts, LenProperties, ElementOfSeq
  <2>2. /\ Len(bufs) = Len(files)
        /\ \A j \in DOMAIN files :
             /\ Len(bufs[j]) = Chunks[files[j]]
             /\ recv[j] <= Chunks[files[j]]
             /\ \A h \in 1..recv[j] : bufs[j][h] = <<files[j], h>>
    <3>1. Len(<<>>) = 0
      OBVIOUS
    <3>2. Len(files) # 0
      BY <1>0, <2>1
    <3> QED BY <1>2, <3>1, <3>2 DEF Holds
  <2>3. /\ message.kind = "chunk" /\ message.index = i
        /\ message.offset = recv[i] /\ message.data = piece /\ piece \in S
    <3> DEFINE n == recv[i]
               f == files[i]
    <3>1. n \in Nat /\ f \in File /\ i \in Nat /\ message = Chunk(i, n, <<f, n + 1>>)
      BY <1>2, <2>1
    <3> HIDE DEF n, f
    <3>2. /\ message.kind = "chunk" /\ message.index = i /\ message.offset = n
          /\ message.data = <<f, n + 1>> /\ <<f, n + 1>> \in Data
      BY <3>1 DEF Chunk, Data
    <3> QED BY <3>2 DEF n, f
  <2>4. k \in 1..Len(bufs[i]) /\ bufs[i] \in Seq(S) /\ DOMAIN bufs = 1..Len(files)
    BY <1>0, <1>2, <2>1, <2>2, LenProperties, ElementOfSeq
  <2>5. fed.buffers = put /\ fed.received = next
    <3>1. /\ message.index \in DOMAIN receiver.buffers
          /\ message.offset + 1 <= Len(receiver.buffers[message.index])
      BY <2>1, <2>3, <2>4
    <3>2. fed = [receiver EXCEPT !.buffers[message.index][message.offset + 1] = message.data,
                                 !.received[message.index] = @ + 1]
      BY <2>3, <3>1 DEF Accept, AcceptChunk
    <3> HIDE DEF fed
    <3>3. fed.buffers = put
      BY <2>3, <3>2
    <3>4. fed.received = next
      BY <1>2, <2>3, <3>2
    <3> QED BY <3>3, <3>4
  <2> HIDE DEF fed, receiver
  <2>6. /\ [bufs[i] EXCEPT ![k] = piece] \in Seq(S)
        /\ Len([bufs[i] EXCEPT ![k] = piece]) = Len(bufs[i])
        /\ \A h \in 1..Len(bufs[i]) :
             [bufs[i] EXCEPT ![k] = piece][h] = IF h = k THEN piece ELSE bufs[i][h]
    <3> DEFINE b == bufs[i]
    <3>1. b \in Seq(S) /\ k \in 1..Len(b) /\ piece \in S
      BY <2>3, <2>4
    <3> HIDE DEF k, piece, S, b
    <3>2. /\ [b EXCEPT ![k] = piece] \in Seq(S)
          /\ Len([b EXCEPT ![k] = piece]) = Len(b)
          /\ \A h \in 1..Len(b) : [b EXCEPT ![k] = piece][h] = IF h = k THEN piece ELSE b[h]
      BY <3>1, ExceptSeq
    <3> QED BY <3>2 DEF b
  <2>7. /\ put \in Seq(Seq(S)) /\ Len(put) = Len(bufs)
        /\ \A j \in 1..Len(bufs) : put[j] = IF j = i THEN new ELSE bufs[j]
    <3>1. new \in Seq(S) /\ i \in 1..Len(bufs)
      BY <2>1, <2>2, <2>6
    <3> DEFINE T == Seq(S)
    <3>2. new \in T /\ bufs \in Seq(T)
      BY <3>1
    <3> HIDE DEF new, S, T
    <3>3. /\ put \in Seq(T) /\ Len(put) = Len(bufs)
          /\ \A j \in 1..Len(bufs) : put[j] = IF j = i THEN new ELSE bufs[j]
      BY <3>1, <3>2, ExceptSeq
    <3> QED BY <3>3 DEF T
  <2>8. Len(next) = Len(files) /\ \A j \in DOMAIN files : next[j] = IF j = i THEN k ELSE recv[j]
    BY <1>0, <1>2, <2>1
  <2>9. /\ Len(new) = Chunks[files[i]] /\ k <= Chunks[files[i]]
        /\ \A h \in 1..k : new[h] = <<files[i], h>>
    <3>1. Len(new) = Chunks[files[i]]
      BY <1>2, <2>2, <2>6
    <3>2. k <= Chunks[files[i]] /\ k \in Nat
      BY <1>2, <2>1
    <3>3. ASSUME NEW h \in 1..k PROVE new[h] = <<files[i], h>>
      <4>1. h \in 1..Len(bufs[i])
        BY <2>4
      <4> DEFINE b == bufs[i]
      <4>2. new[h] = IF h = k THEN piece ELSE b[h]
        BY <2>6, <4>1
      <4>3. h = k \/ h \in 1..recv[i]
        BY <2>1
      <4>4. \A x \in 1..recv[i] : b[x] = <<files[i], x>>
        BY <1>2, <2>2
      <4>5. piece = <<files[i], k>>
        OBVIOUS
      <4> HIDE DEF new, piece, b, k
      <4>6. CASE h = k
        BY <4>2, <4>5, <4>6
      <4>7. CASE h # k
        BY <4>2, <4>3, <4>4, <4>7
      <4> QED BY <4>6, <4>7
    <3> QED BY <3>1, <3>2, <3>3
  <2>10. ASSUME NEW j \in DOMAIN files
         PROVE  /\ Len(put[j]) = Chunks[files[j]]
                /\ next[j] <= Chunks[files[j]]
                /\ \A h \in 1..next[j] : put[j][h] = <<files[j], h>>
    <3>1. j \in 1..Len(bufs)
      BY <1>0, <2>2
    <3>2. CASE j # i
      <4>1. put[j] = bufs[j] /\ next[j] = recv[j]
        BY <2>7, <2>8, <3>1, <3>2
      <4> HIDE DEF put
      <4> QED BY <2>2, <4>1
    <3>3. CASE j = i
      <4>1. put[j] = new /\ next[j] = k
        BY <2>7, <2>8, <3>1, <3>3
      <4> HIDE DEF new, k, put
      <4> QED BY <2>9, <3>3, <4>1
    <3> QED BY <3>2, <3>3
  <2> HIDE DEF put
  <2>11. Holds(files, put, next)
    BY <2>2, <2>7, <2>8, <2>10 DEF Holds
  <2> QED BY <2>5, <2>7, <2>11
<1> HIDE DEF fed, S
<1>3. /\ fed.received = next
      /\ fed.buffers \in Seq(Seq(S))
      /\ Holds(files, fed.buffers, next)
  BY <1>1, <1>2 DEF Follows
<1> QED BY <1>3 DEF fed, S
----------------------------------------------------------------------------
(* What the session of d holds of the file that is read. *)
LEMMA WhatIsThere ==
  ASSUME TypeOK, NEW d \in Dest, SessionInv(d)
  PROVE  /\ Have(d) \in Nat
         /\ ~HaveFile(d) => Have(d) = 0
         /\ HaveFile(d) => /\ Index(d) \in 1..Len(buffers[d])
                           /\ Have(d) <= Len(buffers[d][Index(d)])
         /\ HaveFile(d) /\ SourceKept =>
              /\ Index(d) \in 1..Len(copied)
              /\ Len(buffers[d][Index(d)]) = Chunks[copied[Index(d)]]
              /\ \A k \in 1..Have(d) : buffers[d][Index(d)][k] = <<copied[Index(d)], k>>
<1>1. /\ buffers[d] \in Seq(Seq(Data \cup {Blank})) /\ received[d] \in Seq(Nat)
      /\ DOMAIN buffers[d] = 1..Len(buffers[d])
  BY LenProperties DEF TypeOK
<1>2. PICK files \in Seq(File) :
        Holds(files, buffers[d], received[d]) /\ (SourceKept => files = copied)
  BY DEF SessionInv, Transfers
<1>3. CASE ~HaveFile(d)
  BY <1>3 DEF Have
<1>4. CASE HaveFile(d)
  <2> DEFINE i == Index(d)
  <2>1. i \in 1..Len(buffers[d]) /\ Have(d) = received[d][i]
    BY <1>1, <1>4 DEF HaveFile, Have
  <2>2. buffers[d] # <<>> /\ Len(files) \in Nat /\ DOMAIN files = 1..Len(files)
    BY <1>1, <2>1, EmptySeq, LenProperties
  <2> HIDE DEF i
  <2>3. /\ Len(buffers[d]) = Len(files) /\ Len(received[d]) = Len(files)
        /\ \A j \in DOMAIN files :
             /\ Len(buffers[d][j]) = Chunks[files[j]]
             /\ received[d][j] <= Chunks[files[j]]
             /\ \A k \in 1..received[d][j] : buffers[d][j][k] = <<files[j], k>>
    BY <1>2, <2>2 DEF Holds
  <2>4. i \in DOMAIN files /\ i \in 1..Len(received[d])
    BY <2>1, <2>2, <2>3
  <2>5. received[d][i] \in Nat
    BY <1>1, <2>4, ElementOfSeq
  <2>6. /\ Len(buffers[d][i]) = Chunks[files[i]]
        /\ received[d][i] <= Chunks[files[i]]
        /\ \A k \in 1..received[d][i] : buffers[d][i][k] = <<files[i], k>>
    BY <2>3, <2>4
  <2>7. i \in 1..Len(files)
    BY <2>2, <2>4
  <2> QED BY <1>2, <1>4, <2>1, <2>5, <2>6, <2>7 DEF i
<1> QED BY <1>3, <1>4

(* A chunk of a file that is not yet sent. *)
LEMMA NextChunk ==
  ASSUME TypeOK, ServerInv, NEW i \in DOMAIN server.files,
         server.at \in {"meta", "chunks"}, ~Sent(i)
  PROVE  /\ server.files[i] \in File /\ i \in 1..Len(server.files) /\ i \in 1..Len(server.cursors)
         /\ server.cursors[i] \in Nat /\ server.cursors[i] < Chunks[server.files[i]]
         /\ Content(server.files[i])[server.cursors[i] + 1]
              = <<server.files[i], server.cursors[i] + 1>>
<1>1. /\ server.files \in Seq(File) /\ server.cursors \in Seq(Nat)
      /\ Len(server.cursors) = Len(server.files)
  BY DEF TypeOK, ServerInv
<1>2. i \in 1..Len(server.files) /\ server.files[i] \in File /\ Chunks[server.files[i]] \in Nat
  BY <1>1, FileFacts
<1>3. i \in 1..Len(server.cursors) /\ server.cursors[i] \in Nat
  BY <1>1, <1>2, ElementOfSeq
<1>4. server.cursors[i] < Chunks[server.files[i]]
  BY <1>2, <1>3 DEF Sent
<1>5. server.cursors[i] + 1 \in 1..Chunks[server.files[i]]
  BY <1>2, <1>3, <1>4
<1> QED BY <1>2, <1>3, <1>4, <1>5 DEF Content

LEMMA SendsType ==
  ASSUME TypeOK, server.dest \in Dest, NEW message \in Message, Sends(message)
  PROVE  /\ wire' \in [Dest -> Seq(Message)] /\ \A d \in Dest : Len(wire'[d]) <= MaxWire
         /\ wire'[server.dest] = Append(wire[server.dest], message)
         /\ \A d \in Dest \ {server.dest} : wire'[d] = wire[d]
         /\ link[server.dest] = "open"
         /\ UNCHANGED <<sourceVars, mail, link, sessionVars, draining, paste>>
<1> DEFINE s == server.dest
<1>1. /\ wire \in [Dest -> Seq(Message)] /\ \A d \in Dest : Len(wire[d]) <= MaxWire
      /\ s \in Dest
  BY DEF TypeOK
<1>2. /\ Len(wire[s]) < MaxWire /\ link[s] = "open"
      /\ wire' = [wire EXCEPT ![s] = Append(wire[s], message)]
      /\ UNCHANGED <<sourceVars, mail, link, sessionVars, draining, paste>>
  BY DEF Sends
<1> HIDE DEF s
<1>3. /\ Append(wire[s], message) \in Seq(Message) /\ Len(wire[s]) \in Nat
      /\ Len(Append(wire[s], message)) = Len(wire[s]) + 1
  BY <1>1, AppendProperties, LenProperties
<1>4. MaxWire \in Nat
  BY FileAssumption
<1>5. /\ wire' \in [Dest -> Seq(Message)]
      /\ wire'[s] = Append(wire[s], message)
      /\ \A d \in Dest \ {s} : wire'[d] = wire[d]
  BY <1>1, <1>2, <1>3
<1>6. \A d \in Dest : Len(wire'[d]) <= MaxWire
  BY <1>1, <1>2, <1>3, <1>4, <1>5
<1> QED BY <1>2, <1>5, <1>6 DEF s
----------------------------------------------------------------------------
(* Every action keeps the types. *)

LEMMA SourceType ==
  ASSUME TypeOK, \/ \E list \in Lists : CopyFiles(list)
                 \/ \E f \in File : FileGoes(f)
  PROVE  TypeOK'
<1>1. ASSUME NEW list \in Lists, CopyFiles(list) PROVE TypeOK'
  <2>1. mail' \in [Dest -> Seq(Lists)]
    <3>1. \A d \in Dest : Append(mail[d], list) \in Seq(Lists)
      BY AppendProperties DEF TypeOK
    <3> QED BY <1>1, <3>1 DEF CopyFiles
  <2>2. copied' \in Lists \cup {<<>>} /\ copies' \in Nat
    BY <1>1 DEF CopyFiles, TypeOK
  <2>3. UNCHANGED <<gone, server, wire, link, sessionVars, draining, paste>>
    BY <1>1 DEF CopyFiles
  <2> QED BY <2>1, <2>2, <2>3 DEF TypeOK, sessionVars
<1>2. ASSUME NEW f \in File, FileGoes(f) PROVE TypeOK'
  <2>1. gone' \subseteq File
    BY <1>2 DEF FileGoes, TypeOK
  <2> QED BY <1>2, <2>1 DEF FileGoes, TypeOK, sessionVars
<1> QED BY <1>1, <1>2

LEMMA ServesType ==
  ASSUME TypeOK, ServerInv, Serves \/ CallerStalls
  PROVE  TypeOK'
<1> DEFINE Server == [at : Stage, dest : Dest \cup {NoDest}, paths : Seq(File), files : Seq(File),
                      cursors : Seq(Nat)]
<1>1. /\ server \in Server
      /\ copied \in Lists \cup {<<>>} /\ link \in [Dest -> LinkState]
      /\ wire \in [Dest -> Seq(Message)] /\ \A d \in Dest : Len(wire[d]) <= MaxWire
  BY DEF TypeOK
<1>2. server.at # "listening" => server.dest \in Dest
  BY DEF ServerInv
<1>3. Idle \in Server
  BY DEF Idle
<1>4. SUFFICES /\ server' \in Server
               /\ link' \in [Dest -> LinkState]
               /\ wire' \in [Dest -> Seq(Message)] /\ \A d \in Dest : Len(wire'[d]) <= MaxWire
               /\ UNCHANGED <<sourceVars, mail, sessionVars, draining, paste>>
  BY DEF TypeOK, sourceVars, sessionVars
<1>5. CASE ServeLoads
  <2>1. copied \in Seq(File)
    <3>1. Lists \subseteq Seq(File) /\ <<>> \in Seq(File)
      BY FileAssumption
    <3> QED BY <1>1, <3>1
  <2> QED BY <1>1, <1>5, <2>1 DEF ServeLoads
<1>6. CASE ServeReads
  <2> DEFINE path == Head(server.paths)
  <2>1. /\ server.paths \in Seq(File) /\ server.paths # <<>> /\ server.files \in Seq(File)
        /\ server' = [server EXCEPT !.paths = Tail(@),
                                    !.files = IF Readable(path) THEN Append(@, path) ELSE @]
        /\ UNCHANGED <<sourceVars, mail, wire, link, sessionVars, draining, paste>>
    BY <1>1, <1>6 DEF ServeReads
  <2>2. path \in File /\ Tail(server.paths) \in Seq(File)
    BY <2>1, HeadTailProperties
  <2>3. Append(server.files, path) \in Seq(File)
    BY <2>1, <2>2, AppendProperties
  <2> HIDE DEF path
  <2> QED BY <1>1, <2>1, <2>2, <2>3
<1>7. CASE ServeStarts
  <2>1. [i \in DOMAIN server.files |-> 0] \in Seq(Nat)
    BY <1>1, StartIs
  <2>2. CASE server.files = <<>>
    BY <1>1, <1>3, <1>7, <2>2 DEF ServeStarts
  <2>3. CASE server.files # <<>>
    <3> DEFINE start == [i \in DOMAIN server.files |-> 0]
    <3>1. /\ server' = [server EXCEPT !.at = "meta", !.cursors = start]
          /\ UNCHANGED <<link, sourceVars, mail, wire, sessionVars, draining, paste>>
      BY <1>7, <2>3 DEF ServeStarts
    <3>2. start \in Seq(Nat)
      BY <2>1
    <3> HIDE DEF start
    <3>3. server' \in Server
      BY <1>1, <3>1, <3>2
    <3> QED BY <1>1, <3>1, <3>3
  <2> QED BY <2>2, <2>3
<1>8. CASE SendsMeta
  <2>1. server.dest \in Dest /\ Sends(Meta(server.files)) /\ Meta(server.files) \in Message
    BY <1>1, <1>2, <1>8, MetaIs DEF SendsMeta
  <2>2. server' \in Server
    BY <1>1, <1>8 DEF SendsMeta
  <2>3. /\ wire' \in [Dest -> Seq(Message)] /\ \A d \in Dest : Len(wire'[d]) <= MaxWire
        /\ UNCHANGED <<sourceVars, mail, link, sessionVars, draining, paste>>
    BY <2>1, SendsType
  <2> QED BY <1>1, <2>2, <2>3
<1>9. ASSUME NEW i \in DOMAIN server.files, SendsChunk(i)
      PROVE  /\ server' \in Server
             /\ link' \in [Dest -> LinkState]
             /\ wire' \in [Dest -> Seq(Message)] /\ \A d \in Dest : Len(wire'[d]) <= MaxWire
             /\ UNCHANGED <<sourceVars, mail, sessionVars, draining, paste>>
  <2> DEFINE k == server.cursors[i]
             f == server.files[i]
  <2>1. /\ f \in File /\ i \in 1..Len(server.cursors) /\ k \in Nat /\ i \in Nat
        /\ Content(f)[k + 1] = <<f, k + 1>>
    <3>1. server.at \in {"meta", "chunks"} /\ ~Sent(i)
      BY <1>9 DEF SendsChunk
    <3>2. /\ f \in File /\ i \in 1..Len(server.cursors) /\ k \in Nat
          /\ Content(f)[k + 1] = <<f, k + 1>>
      BY <3>1, NextChunk
    <3>3. server.cursors \in Seq(Nat)
      BY <1>1
    <3>4. Len(server.cursors) \in Nat
      BY <3>3, LenProperties
    <3> QED BY <3>2, <3>4
  <2>2. Sends(Chunk(i, k, Content(f)[k + 1])) /\ server.dest \in Dest
    BY <1>2, <1>9 DEF SendsChunk
  <2>3. server' = [server EXCEPT !.cursors = [@ EXCEPT ![i] = k + 1]]
    BY <1>9 DEF SendsChunk
  <2> HIDE DEF f, k
  <2>4. Chunk(i, k, <<f, k + 1>>) \in Message
    BY <2>1, ChunkIs
  <2>5. /\ wire' \in [Dest -> Seq(Message)] /\ \A d \in Dest : Len(wire'[d]) <= MaxWire
        /\ UNCHANGED <<sourceVars, mail, link, sessionVars, draining, paste>>
    BY <2>1, <2>2, <2>4, SendsType
  <2>6. [server.cursors EXCEPT ![i] = k + 1] \in Seq(Nat)
    BY <1>1, <2>1, ExceptSeq
  <2>7. server' \in Server
    BY <1>1, <2>3, <2>6
  <2> QED BY <1>1, <2>5, <2>7
<1>10. CASE ServeSent
  <2>1. Lingers(server) \in Server
    BY <1>1, <1>3 DEF Lingers
  <2> QED BY <1>1, <1>10, <2>1 DEF ServeSent
<1>11. CASE ServeEnds
  BY <1>1, <1>3, <1>11 DEF ServeEnds
<1>12. CASE AcceptFails \/ CallerStalls
  BY <1>1, <1>3, <1>12 DEF AcceptFails, CallerStalls
<1> HIDE DEF Server
<1> QED BY <1>5, <1>6, <1>7, <1>8, <1>9, <1>10, <1>11, <1>12 DEF Serves

(* The bytes that a read hands over. *)
LEMMA ReadIs ==
  ASSUME TypeOK, NEW d \in Dest, SessionInv(d), PasteInv(d), ReadBytes(d)
  PROVE  LET n == Index(d)
             read == paste'[d].taken[n]
         IN  /\ HaveFile(d) /\ n \in 1..Len(paste[d].taken)
             /\ read \in Seq(Data \cup {Blank}) /\ Len(read) = Have(d)
             /\ \A k \in 1..Have(d) :
                  read[k] = IF k <= Offset(d) THEN paste[d].taken[n][k] ELSE buffers[d][n][k]
             /\ paste' \in [Dest -> [at : {"none", "reading", "done", "error"},
                                     taken : Seq(Seq(Data \cup {Blank}))]]
             /\ paste'[d].at = paste[d].at /\ Len(paste'[d].taken) = Len(paste[d].taken)
             /\ \A j \in 1..Len(paste[d].taken) : j # n => paste'[d].taken[j] = paste[d].taken[j]
             /\ \A e \in Dest \ {d} : paste'[e] = paste[e]
<1> DEFINE n == Index(d)
           S == Data \cup {Blank}
           P == [at : {"none", "reading", "done", "error"}, taken : Seq(Seq(S))]
           old == paste[d].taken[n]
           read == [k \in 1..Have(d) |-> IF k <= Offset(d) THEN old[k] ELSE buffers[d][n][k]]
<1>1. paste \in [Dest -> P] /\ paste[d] \in P /\ buffers[d] \in Seq(Seq(S))
  BY DEF TypeOK
<1>2. n \in 1..Len(paste[d].taken)
  <2>1. paste[d].at # "none"
    BY DEF ReadBytes, Reading
  <2>2. Len(paste[d].taken) \in 1..Len(promise[d])
    BY <2>1 DEF PasteInv
  <2> QED BY <2>2 DEF Index
<1>3. old \in Seq(S) /\ Offset(d) = Len(old) /\ Offset(d) \in Nat
  BY <1>1, <1>2, ElementOfSeq, LenProperties DEF Offset
<1>4. HaveFile(d) /\ Have(d) \in Nat /\ n \in 1..Len(buffers[d]) /\ Have(d) <= Len(buffers[d][n])
  <2>1. Offset(d) < Have(d)
    BY DEF ReadBytes
  <2> QED BY <1>3, <2>1, WhatIsThere
<1>5. buffers[d][n] \in Seq(S) /\ Len(buffers[d][n]) \in Nat
  BY <1>1, <1>4, ElementOfSeq, LenProperties
<1>6. paste' = [paste EXCEPT ![d].taken[n] = read]
  BY DEF ReadBytes
<1> HIDE DEF n, S, old
<1>7. read \in Seq(S) /\ Len(read) = Have(d)
  <2>1. \A k \in 1..Have(d) : old[k] \in S \/ ~(k <= Offset(d))
    BY <1>3, <1>4, ElementOfSeq
  <2>2. \A k \in 1..Have(d) : buffers[d][n][k] \in S
    <3>1. \A k \in 1..Have(d) : k \in 1..Len(buffers[d][n])
      BY <1>4, <1>5
    <3> QED BY <1>5, <3>1, ElementOfSeq
  <2>3. read \in [1..Have(d) -> S]
    BY <2>1, <2>2
  <2> HIDE DEF read
  <2> QED BY <1>4, <2>3
<1>8. \A k \in 1..Have(d) : read[k] = IF k <= Offset(d) THEN old[k] ELSE buffers[d][n][k]
  OBVIOUS
<1> HIDE DEF read
<1> DEFINE new == [paste[d] EXCEPT !.taken[n] = read]
<1>9. /\ new \in P /\ new.at = paste[d].at
      /\ Len(new.taken) = Len(paste[d].taken) /\ new.taken[n] = read
      /\ \A j \in 1..Len(paste[d].taken) : j # n => new.taken[j] = paste[d].taken[j]
  <2> DEFINE T == Seq(S)
             taken == [paste[d].taken EXCEPT ![n] = read]
  <2>1. paste[d].taken \in Seq(T) /\ read \in T
    BY <1>1, <1>7
  <2>2. new = [paste[d] EXCEPT !.taken = taken]
    OBVIOUS
  <2> HIDE DEF T, new
  <2>3. /\ taken \in Seq(T) /\ Len(taken) = Len(paste[d].taken)
        /\ \A j \in 1..Len(paste[d].taken) : taken[j] = IF j = n THEN read ELSE paste[d].taken[j]
    BY <1>2, <2>1, ExceptSeq
  <2> HIDE DEF taken
  <2>4. new \in P /\ new.taken = taken /\ new.at = paste[d].at
    BY <1>1, <2>2, <2>3 DEF T
  <2> QED BY <1>2, <2>3, <2>4
<1>10. paste' = [paste EXCEPT ![d] = new]
  BY <1>6
<1> HIDE DEF new, P
<1>11. paste' \in [Dest -> P] /\ paste'[d] = new /\ \A e \in Dest \ {d} : paste'[e] = paste[e]
  BY <1>1, <1>9, <1>10
<1> QED BY <1>2, <1>4, <1>7, <1>8, <1>9, <1>11 DEF n, S, old, P

(* Another file is read. *)
LEMMA NextFileIs ==
  ASSUME TypeOK, NEW d \in Dest, PasteInv(d), ReadEnds(d)
  PROVE  LET P == [at : {"none", "reading", "done", "error"},
                   taken : Seq(Seq(Data \cup {Blank}))]
         IN  /\ Index(d) \in 1..Len(promise[d])
             /\ paste' \in [Dest -> P]
             /\ \A e \in Dest \ {d} : paste'[e] = paste[e]
             /\ \/ /\ Index(d) = Len(promise[d])
                   /\ paste'[d].at = "done" /\ paste'[d].taken = paste[d].taken
                \/ /\ Index(d) # Len(promise[d])
                   /\ paste'[d].at = "reading" /\ paste'[d].taken = Append(paste[d].taken, <<>>)
<1> DEFINE S == Data \cup {Blank}
           T == Seq(S)
           P == [at : {"none", "reading", "done", "error"}, taken : Seq(T)]
<1>1. paste \in [Dest -> P] /\ paste[d] \in P
  BY DEF TypeOK
<1>2. paste[d].at = "reading"
  BY DEF ReadEnds, Reading
<1>3. Index(d) \in 1..Len(promise[d])
  BY <1>2 DEF PasteInv, Index
<1>4. <<>> \in T
  OBVIOUS
<1> HIDE DEF S, T
<1>6. Append(paste[d].taken, <<>>) \in Seq(T)
  BY <1>1, <1>4, AppendProperties
<1>7. CASE Index(d) = Len(promise[d])
  <2> DEFINE new == [paste[d] EXCEPT !.at = "done"]
  <2>1. new \in P /\ new.at = "done" /\ new.taken = paste[d].taken
    BY <1>1
  <2>2. paste' = [paste EXCEPT ![d] = new]
    BY <1>7 DEF ReadEnds
  <2> HIDE DEF new, P
  <2>3. paste' \in [Dest -> P] /\ paste'[d] = new /\ \A e \in Dest \ {d} : paste'[e] = paste[e]
    BY <1>1, <2>1, <2>2
  <2> QED BY <1>3, <1>7, <2>1, <2>3 DEF P, T, S
<1>8. CASE Index(d) # Len(promise[d])
  <2> DEFINE new == [paste[d] EXCEPT !.taken = Append(paste[d].taken, <<>>)]
  <2>1. new \in P /\ new.at = "reading" /\ new.taken = Append(paste[d].taken, <<>>)
    BY <1>1, <1>2, <1>6
  <2>2. paste' = [paste EXCEPT ![d] = new]
    BY <1>8 DEF ReadEnds
  <2> HIDE DEF new, P
  <2>3. paste' \in [Dest -> P] /\ paste'[d] = new /\ \A e \in Dest \ {d} : paste'[e] = paste[e]
    BY <1>1, <2>1, <2>2
  <2> QED BY <1>3, <1>8, <2>1, <2>3 DEF P, T, S
<1> QED BY <1>7, <1>8

LEMMA PullsType ==
  ASSUME TypeOK, ServerInv, NEW d \in Dest, SessionInv(d), PasteInv(d),
         Paste(d) \/ Pulls(d)
  PROVE  TypeOK'
<1> DEFINE T == Seq(Data \cup {Blank})
           P == [at : {"none", "reading", "done", "error"}, taken : Seq(T)]
<1>1. paste \in [Dest -> P] /\ failed \in [Dest -> BOOLEAN]
  BY DEF TypeOK
<1>2. CASE Paste(d)
  <2>1. <<<<>>>> \in Seq(T)
    <3>1. <<>> \in T
      OBVIOUS
    <3> HIDE DEF T
    <3> QED BY <3>1
  <2>2. paste' \in [Dest -> P]
    <3> HIDE DEF T
    <3> QED BY <1>1, <1>2, <2>1 DEF Paste
  <2>3. UNCHANGED <<sourceVars, mail, server, wire, link, sessionVars, draining>>
    BY <1>2 DEF Paste
  <2> QED BY <2>2, <2>3 DEF TypeOK, sourceVars, sessionVars
<1>3. CASE Dial(d) \/ DialSucceeds(d)
  <2>1. /\ dialed' \in [Dest -> BOOLEAN] /\ draining' \in [Dest -> BOOLEAN]
        /\ link' \in [Dest -> LinkState]
    BY <1>3 DEF TypeOK, Dial, DialSucceeds, sessionVars
  <2>2. server' \in [at : Stage, dest : Dest \cup {NoDest}, paths : Seq(File), files : Seq(File),
                     cursors : Seq(Nat)]
    <3> DEFINE Server == [at : Stage, dest : Dest \cup {NoDest}, paths : Seq(File),
                          files : Seq(File), cursors : Seq(Nat)]
    <3>1. server \in Server
      BY DEF TypeOK
    <3>2. Idle \in Server
      BY DEF Idle
    <3>3. \/ server' = [server EXCEPT !.at = "accepting", !.dest = d]
          \/ server' = [server EXCEPT !.at = "loading"]
          \/ server' = Idle
      BY <1>3 DEF Dial, DialSucceeds
    <3> QED BY <3>1, <3>2, <3>3
  <2>3. UNCHANGED <<sourceVars, mail, wire, promise, failed, buffers, received, paste>>
    BY <1>3 DEF Dial, DialSucceeds, sessionVars
  <2> QED BY <2>1, <2>2, <2>3 DEF TypeOK, sourceVars
<1>4. CASE DialFails(d)
  <2>1. /\ dialed' \in [Dest -> BOOLEAN] /\ failed' \in [Dest -> BOOLEAN]
        /\ link' \in [Dest -> LinkState]
    BY <1>4 DEF TypeOK, DialFails
  <2>2. UNCHANGED <<sourceVars, mail, server, wire, promise, buffers, received, draining,
                    paste>>
    BY <1>4 DEF DialFails
  <2> QED BY <2>1, <2>2 DEF TypeOK, sourceVars
<1>5. CASE ReadBytes(d)
  <2>1. paste' \in [Dest -> P]
    BY <1>5, ReadIs
  <2>2. UNCHANGED <<sourceVars, mail, server, wire, link, sessionVars, draining>>
    BY <1>5 DEF ReadBytes
  <2> QED BY <2>1, <2>2 DEF TypeOK, sourceVars, sessionVars
<1>6. CASE ReadEnds(d)
  <2>1. paste' \in [Dest -> P]
    BY <1>6, NextFileIs
  <2>2. UNCHANGED <<sourceVars, mail, server, wire, link, sessionVars, draining>>
    BY <1>6 DEF ReadEnds
  <2> QED BY <2>1, <2>2 DEF TypeOK, sourceVars, sessionVars
<1>7. CASE ReadFails(d)
  <2>1. paste' \in [Dest -> P] /\ failed' \in [Dest -> BOOLEAN]
    <3> HIDE DEF T
    <3> QED BY <1>1, <1>7 DEF ReadFails
  <2>2. UNCHANGED <<sourceVars, mail, server, wire, link, promise, dialed, buffers, received,
                    draining>>
    BY <1>7 DEF ReadFails
  <2> QED BY <2>1, <2>2 DEF TypeOK, sourceVars
<1> HIDE DEF P, T
<1> QED BY <1>2, <1>3, <1>4, <1>5, <1>6, <1>7 DEF Pulls

(* What a receiver has after the drain thread has run, and what is left on the wire. *)
LEMMA DrainIs ==
  ASSUME TypeOK, NEW d \in Dest, Drain(d),
         NEW files \in Seq(File), Holds(files, buffers[d], received[d]),
         NEW to \in Seq(Nat), Carries(files, received[d], wire[d], to)
  PROVE  /\ wire' \in [Dest -> Seq(Message)] /\ \A e \in Dest : Len(wire'[e]) <= MaxWire
         /\ buffers' \in [Dest -> Seq(Seq(Data \cup {Blank}))]
         /\ received' \in [Dest -> Seq(Nat)]
         /\ \A e \in Dest \ {d} :
              wire'[e] = wire[e] /\ buffers'[e] = buffers[e] /\ received'[e] = received[e]
         /\ Holds(files, buffers'[d], received'[d])
         /\ Carries(files, received'[d], wire'[d], to)
         /\ wire[d] = <<>> =>
              wire'[d] = <<>> /\ buffers'[d] = buffers[d] /\ received'[d] = received[d]
<1> DEFINE R == Seq(Seq(Data \cup {Blank}))
           receiver == [buffers |-> buffers[d], received |-> received[d]]
           fed == IF wire[d] = <<>> THEN receiver ELSE Accept(receiver, Head(wire[d]))
           left == IF wire[d] = <<>> THEN wire[d] ELSE Tail(wire[d])
<1>1. /\ wire \in [Dest -> Seq(Message)]
      /\ buffers \in [Dest -> R] /\ received \in [Dest -> Seq(Nat)]
      /\ wire[d] \in Seq(Message) /\ buffers[d] \in R /\ received[d] \in Seq(Nat)
      /\ \A e \in Dest : Len(wire[e]) <= MaxWire
  BY DEF TypeOK
<1>2. /\ wire' = [wire EXCEPT ![d] = left]
      /\ buffers' = [buffers EXCEPT ![d] = fed.buffers]
      /\ received' = [received EXCEPT ![d] = fed.received]
  BY DEF Drain
<1>3. /\ fed.buffers \in R /\ fed.received \in Seq(Nat)
      /\ Holds(files, fed.buffers, fed.received)
      /\ left \in Seq(Message) /\ Len(left) <= MaxWire
      /\ Carries(files, fed.received, left, to)
      /\ wire[d] = <<>> => fed = receiver /\ left = <<>>
  <2>1. CASE wire[d] = <<>>
    <3>1. fed.buffers = buffers[d] /\ fed.received = received[d] /\ fed = receiver /\ left = wire[d]
      BY <2>1
    <3> HIDE DEF fed, left, receiver, R
    <3> QED BY <1>1, <2>1, <3>1
  <2>2. CASE wire[d] # <<>>
    <3> DEFINE message == Head(wire[d])
    <3>1. PICK next \in Seq(Nat) : /\ Follows(files, received[d], message, next)
                                   /\ Carries(files, next, Tail(wire[d]), to)
      BY <1>1, <2>2, CarriesFirst
    <3>2. /\ Tail(wire[d]) \in Seq(Message) /\ Len(Tail(wire[d])) = Len(wire[d]) - 1
          /\ Len(wire[d]) \in Nat
      BY <1>1, <2>2, HeadTailProperties, LenProperties
    <3>3. MaxWire \in Nat
      BY FileAssumption
    <3> DEFINE acc == Accept([buffers |-> buffers[d], received |-> received[d]], message)
    <3> HIDE DEF message
    <3>4. acc.received = next /\ acc.buffers \in R /\ Holds(files, acc.buffers, next)
      <4> DEFINE bufs == buffers[d]
                 recv == received[d]
      <4>1. /\ bufs \in Seq(Seq(Data \cup {Blank})) /\ recv \in Seq(Nat)
            /\ Holds(files, bufs, recv) /\ Follows(files, recv, message, next)
        BY <1>1, <3>1
      <4> HIDE DEF bufs, recv
      <4>2. LET taken == Accept([buffers |-> bufs, received |-> recv], message)
            IN  /\ taken.received = next
                /\ taken.buffers \in Seq(Seq(Data \cup {Blank}))
                /\ Holds(files, taken.buffers, next)
        BY <4>1, Takes
      <4> QED BY <4>2 DEF bufs, recv
    <3>5. fed = acc /\ left = Tail(wire[d])
      BY <2>2 DEF message
    <3>6. Len(Tail(wire[d])) <= MaxWire
      BY <1>1, <3>2, <3>3
    <3> HIDE DEF acc, fed, left, R, receiver
    <3> QED BY <2>2, <3>1, <3>2, <3>4, <3>5, <3>6
  <2> QED BY <2>1, <2>2
<1>4. wire[d] = <<>> => fed.buffers = buffers[d] /\ fed.received = received[d]
  BY <1>3
<1> HIDE DEF fed, left, receiver, R
<1>5. /\ wire' \in [Dest -> Seq(Message)]
      /\ buffers' \in [Dest -> R] /\ received' \in [Dest -> Seq(Nat)]
      /\ wire'[d] = left /\ buffers'[d] = fed.buffers /\ received'[d] = fed.received
      /\ \A e \in Dest \ {d} :
           wire'[e] = wire[e] /\ buffers'[e] = buffers[e] /\ received'[e] = received[e]
  BY <1>1, <1>2, <1>3
<1>6. \A e \in Dest : Len(wire'[e]) <= MaxWire
  BY <1>1, <1>3, <1>5
<1> QED BY <1>3, <1>4, <1>5, <1>6 DEF R

LEMMA LinksType ==
  ASSUME TypeOK, ServerInv, NEW d \in Dest, SessionInv(d),
         RecvPromise(d) \/ Drain(d) \/ FallsSilent(d) \/ LinkBreaks(d)
  PROVE  TypeOK'
<1> DEFINE T == Seq(Data \cup {Blank})
           P == [at : {"none", "reading", "done", "error"}, taken : Seq(T)]
           Server == [at : Stage,
                      dest : Dest \cup {NoDest}, paths : Seq(File), files : Seq(File),
                      cursors : Seq(Nat)]
<1>1. /\ mail \in [Dest -> Seq(Lists)] /\ promise \in [Dest -> Lists \cup {<<>>}]
      /\ wire \in [Dest -> Seq(Message)] /\ \A e \in Dest : Len(wire[e]) <= MaxWire
      /\ buffers \in [Dest -> Seq(T)] /\ received \in [Dest -> Seq(Nat)]
      /\ dialed \in [Dest -> BOOLEAN] /\ failed \in [Dest -> BOOLEAN]
      /\ draining \in [Dest -> BOOLEAN] /\ link \in [Dest -> LinkState]
      /\ paste \in [Dest -> P] /\ server \in Server
  BY DEF TypeOK
<1>2. MaxWire \in Nat /\ Len(<<>>) = 0
  BY FileAssumption
<1>3. CASE RecvPromise(d)
  <2>1. Head(mail[d]) \in Lists /\ Tail(mail[d]) \in Seq(Lists)
    BY <1>1, <1>3, HeadTailProperties DEF RecvPromise
  <2>2. NoPaste \in P /\ Lingers(server) \in Server
    <3>1. Idle \in Server
      BY DEF Idle
    <3>2. Lingers(server) \in Server
      BY <1>1, <3>1 DEF Lingers
    <3>3. NoPaste \in P
      <4> HIDE DEF T
      <4> QED BY DEF NoPaste
    <3> QED BY <3>2, <3>3
  <2>3. server' \in Server
    BY <1>1, <1>3, <2>2 DEF RecvPromise
  <2>4. /\ mail' = [mail EXCEPT ![d] = Tail(@)]
        /\ promise' = [promise EXCEPT ![d] = Head(mail[d])]
        /\ dialed' = [dialed EXCEPT ![d] = FALSE]
        /\ failed' = [failed EXCEPT ![d] = FALSE]
        /\ buffers' = [buffers EXCEPT ![d] = <<>>]
        /\ received' = [received EXCEPT ![d] = <<>>]
        /\ draining' = [draining EXCEPT ![d] = FALSE]
        /\ link' = [link EXCEPT ![d] = "none"]
        /\ wire' = [wire EXCEPT ![d] = <<>>]
        /\ paste' = [paste EXCEPT ![d] = NoPaste]
        /\ UNCHANGED sourceVars
    BY <1>3 DEF RecvPromise
  <2> HIDE DEF P, T, Server
  <2>5. /\ mail' \in [Dest -> Seq(Lists)] /\ promise' \in [Dest -> Lists \cup {<<>>}]
        /\ dialed' \in [Dest -> BOOLEAN] /\ failed' \in [Dest -> BOOLEAN]
    BY <1>1, <2>1, <2>4
  <2>6. /\ buffers' \in [Dest -> Seq(T)] /\ received' \in [Dest -> Seq(Nat)]
        /\ draining' \in [Dest -> BOOLEAN] /\ link' \in [Dest -> LinkState]
    BY <1>1, <2>4
  <2>7. wire' \in [Dest -> Seq(Message)] /\ \A e \in Dest : wire'[e] = wire[e] \/ wire'[e] = <<>>
    BY <1>1, <2>4
  <2>8. \A e \in Dest : Len(wire'[e]) <= MaxWire
    BY <1>1, <1>2, <2>7
  <2>9. paste' \in [Dest -> P]
    BY <1>1, <2>2, <2>4
  <2> QED BY <2>3, <2>4, <2>5, <2>6, <2>7, <2>8, <2>9 DEF TypeOK, P, T, Server, sourceVars
<1>4. CASE Drain(d)
  <2>1. PICK files \in Seq(File), to \in Seq(Nat) :
          Holds(files, buffers[d], received[d]) /\ Carries(files, received[d], wire[d], to)
    BY DEF SessionInv, Transfers
  <2>2. /\ wire' \in [Dest -> Seq(Message)] /\ \A e \in Dest : Len(wire'[e]) <= MaxWire
        /\ buffers' \in [Dest -> Seq(T)]
        /\ received' \in [Dest -> Seq(Nat)]
    BY <1>4, <2>1, DrainIs
  <2> DEFINE receiver == [buffers |-> buffers[d], received |-> received[d]]
             fed == IF wire[d] = <<>> THEN receiver ELSE Accept(receiver, Head(wire[d]))
  <2>3. /\ draining' \in [Dest -> BOOLEAN] /\ failed' \in [Dest -> BOOLEAN]
        /\ link' \in [Dest -> LinkState]
    <3>1. \/ /\ link' = [link EXCEPT ![d] = "closed"]
             /\ draining' = [draining EXCEPT ![d] = FALSE] /\ failed' = failed
          \/ /\ draining' = [draining EXCEPT ![d] = link[d] = "open" \/ wire[d] # <<>>]
             /\ failed' = [failed EXCEPT ![d] = @ \/ (link[d] # "open" /\ wire[d] = <<>>)]
             /\ link' = link
      BY <1>4 DEF Drain
    <3>2. (link[d] = "open" \/ wire[d] # <<>>) \in BOOLEAN
      OBVIOUS
    <3>3. (failed[d] \/ (link[d] # "open" /\ wire[d] = <<>>)) \in BOOLEAN
      OBVIOUS
    <3> QED BY <1>1, <3>1, <3>2, <3>3
  <2>4. UNCHANGED <<sourceVars, mail, server, promise, dialed, paste>>
    BY <1>4 DEF Drain
  <2> QED BY <2>2, <2>3, <2>4 DEF TypeOK, sourceVars
<1>5. CASE LinkBreaks(d)
  <2>1. link' \in [Dest -> LinkState]
    BY <1>1, <1>5 DEF LinkBreaks
  <2>2. wire' \in [Dest -> Seq(Message)] /\ \A e \in Dest : wire'[e] = wire[e] \/ wire'[e] = <<>>
    <3>1. wire' = wire \/ wire' = [wire EXCEPT ![d] = <<>>]
      BY <1>5 DEF LinkBreaks
    <3>2. <<>> \in Seq(Message) /\ wire \in [Dest -> Seq(Message)]
      BY <1>1
    <3>3. CASE wire' = wire
      BY <3>2, <3>3
    <3>4. CASE wire' = [wire EXCEPT ![d] = <<>>]
      BY <3>2, <3>4
    <3> QED BY <3>1, <3>3, <3>4
  <2>3. \A e \in Dest : Len(wire'[e]) <= MaxWire
    BY <1>1, <1>2, <2>2
  <2>4. UNCHANGED <<sourceVars, mail, server, sessionVars, draining, paste>>
    BY <1>5 DEF LinkBreaks
  <2> QED BY <2>1, <2>2, <2>3, <2>4 DEF TypeOK, sourceVars, sessionVars
<1>6. CASE FallsSilent(d)
  <2>1. link' \in [Dest -> LinkState]
    BY <1>1, <1>6 DEF FallsSilent
  <2>2. UNCHANGED <<sourceVars, mail, server, wire, sessionVars, draining, paste>>
    BY <1>6 DEF FallsSilent
  <2> QED BY <2>1, <2>2 DEF TypeOK, sourceVars, sessionVars
<1> QED BY <1>3, <1>4, <1>5, <1>6
----------------------------------------------------------------------------
(* The thread that serves. *)

LEMMA AppendHead ==
  ASSUME NEW S, NEW s \in Seq(S), NEW t \in Seq(S), t # <<>>
  PROVE  Append(s, Head(t)) \o Tail(t) = s \o t
<1> DEFINE h == Head(t)
           a == Append(s, h)
           u == Tail(t)
<1>1. /\ h \in S /\ h = t[1] /\ u \in Seq(S) /\ Len(u) = Len(t) - 1
      /\ \A i \in 1..Len(u) : u[i] = t[i + 1]
  BY HeadTailProperties
<1>2. Len(s) \in Nat /\ Len(t) \in Nat \ {0}
  BY LenProperties, EmptySeq
<1> HIDE DEF h, u
<1>3. /\ a \in Seq(S) /\ Len(a) = Len(s) + 1
      /\ \A i \in 1..Len(s) : a[i] = s[i]
      /\ a[Len(s) + 1] = h
  BY <1>1, AppendProperties
<1> HIDE DEF a
<1>4. /\ a \o u \in Seq(S) /\ Len(a \o u) = Len(a) + Len(u)
      /\ \A i \in 1..(Len(a) + Len(u)) : (a \o u)[i] = IF i <= Len(a) THEN a[i] ELSE u[i - Len(a)]
  BY <1>1, <1>3, ConcatProperties
<1>5. /\ s \o t \in Seq(S) /\ Len(s \o t) = Len(s) + Len(t)
      /\ \A i \in 1..(Len(s) + Len(t)) : (s \o t)[i] = IF i <= Len(s) THEN s[i] ELSE t[i - Len(s)]
  BY ConcatProperties
<1> DEFINE l == a \o u
           r == s \o t
<1>6. Len(l) = Len(r) /\ Len(l) = Len(s) + Len(t) /\ l \in Seq(S) /\ r \in Seq(S)
  BY <1>1, <1>2, <1>3, <1>4, <1>5
<1>7. ASSUME NEW i \in 1..Len(l) PROVE l[i] = r[i]
  <2>1. i \in 1..(Len(a) + Len(u)) /\ i \in 1..(Len(s) + Len(t)) /\ i \in Nat
    BY <1>2, <1>4, <1>6
  <2>2. /\ l[i] = IF i <= Len(a) THEN a[i] ELSE u[i - Len(a)]
        /\ r[i] = IF i <= Len(s) THEN s[i] ELSE t[i - Len(s)]
    BY <1>4, <1>5, <2>1
  <2> HIDE DEF l, r
  <2>3. CASE i <= Len(s)
    <3>1. i \in 1..Len(s) /\ i <= Len(a)
      BY <1>2, <1>3, <2>1, <2>3
    <3> QED BY <1>3, <2>2, <2>3, <3>1
  <2>4. CASE i = Len(s) + 1
    <3>1. /\ i <= Len(a) /\ ~(i <= Len(s)) /\ i - Len(s) = 1
          /\ a[i] = h /\ t[1] = h
      BY <1>1, <1>2, <1>3, <2>4
    <3> QED BY <2>2, <3>1
  <2>5. CASE i > Len(s) + 1
    <3>1. /\ i - Len(a) \in 1..Len(u) /\ (i - Len(a)) + 1 = i - Len(s)
          /\ ~(i <= Len(a)) /\ ~(i <= Len(s))
      BY <1>1, <1>2, <1>3, <2>1, <2>5
    <3> QED BY <1>1, <2>2, <3>1
  <2> QED BY <1>2, <2>1, <2>3, <2>4, <2>5
<1> HIDE DEF l, r
<1>8. l = r
  BY <1>6, <1>7, SeqEqual
<1> QED BY <1>8 DEF l, r, a, u, h

LEMMA ServerKept ==
  ASSUME ServerInv, UNCHANGED <<server, copied>>, SourceKept' => SourceKept,
         \A d \in Dest : dialed[d] => dialed'[d],
         \A d \in Dest : Fresh(d) => Fresh(d)'
  PROVE  ServerInv'
BY DEF ServerInv

LEMMA SourceUnchanged ==
  ASSUME UNCHANGED sourceVars
  PROVE  UNCHANGED <<copied, copies, gone>> /\ (SourceKept' => SourceKept)
BY DEF sourceVars, SourceKept

LEMMA SourceServerInv ==
  ASSUME TypeOK, ServerInv, AnnouncedInv,
         \/ \E list \in Lists : CopyFiles(list)
         \/ \E f \in File : FileGoes(f)
  PROVE  ServerInv'
<1>1. UNCHANGED <<server, wire, link, dialed, buffers, received>>
  BY DEF CopyFiles, FileGoes, sessionVars
<1>2. SourceKept' => server.at = "listening"
  <2>1. SUFFICES ASSUME SourceKept' PROVE server.at = "listening"
    OBVIOUS
  <2>2. ~\E f \in File : FileGoes(f)
    BY <2>1 DEF FileGoes, SourceKept
  <2>3. PICK list \in Lists : CopyFiles(list)
    BY <2>2
  <2>4. copies = 0
    BY <2>1, <2>3 DEF CopyFiles, SourceKept, TypeOK
  <2> QED BY <2>4 DEF AnnouncedInv, Untouched, Idle
<1>3. \A d \in Dest : Fresh(d) => Fresh(d)'
  BY <1>1 DEF Fresh
<1> QED BY <1>1, <1>2, <1>3 DEF ServerInv

LEMMA ServesServerInv ==
  ASSUME TypeOK, ServerInv, Serves \/ CallerStalls
  PROVE  ServerInv'
<1>1. /\ server.paths \in Seq(File) /\ server.files \in Seq(File) /\ server.cursors \in Seq(Nat)
      /\ copied \in Seq(File) /\ NoDest \notin Dest
      /\ server \in [at : Stage,
                     dest : Dest \cup {NoDest}, paths : Seq(File), files : Seq(File),
                     cursors : Seq(Nat)]
  <2>1. Lists \subseteq Seq(File) /\ <<>> \in Seq(File)
    BY FileAssumption
  <2> QED BY <2>1, FileAssumption DEF TypeOK
<1>2. UNCHANGED <<copied, copies, gone, dialed, buffers, received>> /\ (SourceKept' => SourceKept)
  BY SourceUnchanged DEF Serves, AcceptFails, CallerStalls, ServeLoads, ServeReads, ServeStarts,
                         SendsMeta, SendsChunk, Sends, ServeSent, ServeEnds, sessionVars, sourceVars
<1>3. server.at # "listening" => server.dest \in Dest
  BY DEF ServerInv
<1>4. ASSUME server' = Idle PROVE ServerInv'
  BY <1>4 DEF ServerInv, Idle
<1>5. CASE ServeLoads
  <2>1. /\ server.at = "loading" /\ server.files = <<>> /\ server.dest \in Dest
        /\ dialed[server.dest] /\ Fresh(server.dest)
    BY <1>5 DEF ServeLoads, ServerInv
  <2>2. /\ server' = [server EXCEPT !.at = "reading", !.paths = copied]
        /\ UNCHANGED wire
    BY <1>5 DEF ServeLoads
  <2>3. /\ server'.at = "reading" /\ server'.files = <<>> /\ server'.paths = copied
        /\ server'.dest = server.dest
    BY <1>1, <2>1, <2>2
  <2>4. server'.files \o server'.paths = copied'
    BY <1>1, <1>2, <2>3, ConcatEmptySeq
  <2>5. Fresh(server.dest)' /\ dialed'[server'.dest]
    BY <1>2, <2>1, <2>2, <2>3 DEF Fresh
  <2> QED BY <2>1, <2>3, <2>4, <2>5 DEF ServerInv
<1>6. CASE ServeReads
  <2> DEFINE path == Head(server.paths)
  <2>1. /\ server.at = "reading" /\ server.paths # <<>> /\ server.dest \in Dest
        /\ dialed[server.dest] /\ Fresh(server.dest)
        /\ SourceKept => server.files \o server.paths = copied
    BY <1>6 DEF ServeReads, ServerInv
  <2>2. /\ server' = [server EXCEPT !.paths = Tail(@),
                                    !.files = IF Readable(path) THEN Append(@, path) ELSE @]
        /\ UNCHANGED wire
    BY <1>6 DEF ServeReads
  <2>3. /\ server'.at = "reading" /\ server'.paths = Tail(server.paths)
        /\ server'.dest = server.dest
        /\ Readable(path) => server'.files = Append(server.files, path)
    BY <1>1, <2>1, <2>2
  <2>4. SourceKept => Readable(path)
    BY DEF SourceKept, Readable
  <2>5. SourceKept' => server'.files \o server'.paths = copied'
    <3>1. Append(server.files, path) \o Tail(server.paths) = server.files \o server.paths
      BY <1>1, <2>1, AppendHead
    <3> QED BY <1>2, <2>1, <2>3, <2>4, <3>1
  <2>6. Fresh(server.dest)' /\ dialed'[server'.dest]
    BY <1>2, <2>1, <2>2, <2>3 DEF Fresh
  <2> QED BY <2>1, <2>3, <2>5, <2>6 DEF ServerInv
<1>7. CASE ServeStarts
  <2>1. /\ server.at = "reading" /\ server.paths = <<>> /\ server.dest \in Dest
        /\ dialed[server.dest] /\ Fresh(server.dest)
        /\ SourceKept => server.files \o server.paths = copied
    BY <1>7 DEF ServeStarts, ServerInv
  <2>2. CASE server.files = <<>>
    BY <1>4, <1>7, <2>2 DEF ServeStarts
  <2>3. CASE server.files # <<>>
    <3> DEFINE start == [i \in DOMAIN server.files |-> 0]
    <3>1. server' = [server EXCEPT !.at = "meta", !.cursors = start] /\ UNCHANGED wire
      BY <1>7, <2>3 DEF ServeStarts
    <3>2. Len(start) = Len(server.files)
      BY <1>1, StartIs
    <3> HIDE DEF start
    <3>3. /\ server'.at = "meta" /\ server'.cursors = start /\ server'.files = server.files
          /\ server'.dest = server.dest
      BY <1>1, <3>1
    <3>4. server'.cursors = [i \in DOMAIN server'.files |-> 0]
      BY <3>3 DEF start
    <3>5. SourceKept' => server'.files = copied'
      <4>1. server.files \o <<>> = server.files
        BY <1>1, ConcatEmptySeq
      <4> QED BY <1>2, <2>1, <3>3, <4>1
    <3>6. Fresh(server.dest)' /\ dialed'[server'.dest]
      BY <1>2, <2>1, <3>1, <3>3 DEF Fresh
    <3> QED BY <2>1, <3>2, <3>3, <3>4, <3>5, <3>6 DEF ServerInv
  <2> QED BY <2>2, <2>3
<1>8. CASE SendsMeta
  <2>1. /\ server.at = "meta" /\ server' = [server EXCEPT !.at = "chunks"]
    BY <1>8 DEF SendsMeta
  <2>2. /\ server'.at = "chunks" /\ server'.files = server.files /\ server'.cursors = server.cursors
        /\ server'.dest = server.dest
    BY <1>1, <2>1
  <2> QED BY <1>2, <2>1, <2>2 DEF ServerInv
<1>9. ASSUME NEW i \in DOMAIN server.files, SendsChunk(i) PROVE ServerInv'
  <2> DEFINE k == server.cursors[i] + 1
             next == [server.cursors EXCEPT ![i] = k]
  <2>1. server.at = "chunks" /\ ~Sent(i)
    BY <1>9 DEF SendsChunk
  <2>2. server' = [server EXCEPT !.cursors = next]
    BY <1>9 DEF SendsChunk
  <2>3. k \in Nat /\ i \in 1..Len(server.cursors)
    BY <2>1, NextChunk
  <2>4. Len(next) = Len(server.cursors)
    BY <1>1, <2>3, ExceptSeq
  <2> HIDE DEF next
  <2>5. /\ server'.at = "chunks" /\ server'.files = server.files /\ server'.cursors = next
        /\ server'.dest = server.dest
    BY <1>1, <2>1, <2>2
  <2> QED BY <1>2, <2>1, <2>4, <2>5 DEF ServerInv
<1>10. CASE ServeSent
  <2>1. server.at \in {"meta", "chunks"} /\ server' = Lingers(server)
    BY <1>10 DEF ServeSent
  <2>2. server'.at = "lingering" /\ server'.dest = server.dest
    BY <2>1 DEF Lingers, Idle
  <2> QED BY <1>3, <2>1, <2>2 DEF ServerInv
<1>11. CASE ServeEnds \/ AcceptFails
  BY <1>4, <1>11 DEF ServeEnds, AcceptFails
<1>12. CASE CallerStalls
  <2>1. server'.at = "hanging" /\ server'.dest = server.dest /\ server.at = "accepting"
    BY <1>1, <1>12 DEF CallerStalls
  <2> QED BY <1>3, <2>1 DEF ServerInv
<1> QED BY <1>5, <1>6, <1>7, <1>8, <1>9, <1>10, <1>11, <1>12 DEF Serves

LEMMA PullsServerInv ==
  ASSUME TypeOK, ServerInv, AnnouncedInv, NEW d \in Dest, Paste(d) \/ Pulls(d)
  PROVE  ServerInv'
<1>1. UNCHANGED <<copied, copies, gone, wire, buffers, received>> /\ (SourceKept' => SourceKept)
  BY SourceUnchanged DEF Paste, Pulls, Dial, DialSucceeds, DialFails, ReadBytes, ReadEnds,
                         ReadFails, sourceVars, sessionVars
<1>2. \A e \in Dest : Fresh(e) => Fresh(e)'
  BY <1>1 DEF Fresh
<1>3. CASE Dial(d)
  <2>1. server = Idle /\ server' = [Idle EXCEPT !.at = "accepting", !.dest = d]
    BY <1>3 DEF Dial, ServerInv
  <2>2. server'.at = "accepting" /\ server'.dest = d /\ server'.files = <<>>
    BY <2>1 DEF Idle
  <2> QED BY <2>2 DEF ServerInv
<1>4. CASE DialSucceeds(d)
  <2>1. /\ server.at = "accepting" /\ server.dest = d /\ server.files = <<>>
        /\ ~dialed[d] /\ Fresh(d)
    BY <1>4 DEF DialSucceeds, Dialing, ServerInv, AnnouncedInv
  <2>2. /\ server' = [server EXCEPT !.at = "loading"] \/ server' = Idle
        /\ dialed' = [dialed EXCEPT ![d] = TRUE]
    BY <1>4 DEF DialSucceeds
  <2>3. CASE server' = Idle
    BY <2>3 DEF ServerInv, Idle
  <2>4. CASE server' = [server EXCEPT !.at = "loading"]
    <3>1. server'.at = "loading" /\ server'.dest = d /\ server'.files = <<>>
      BY <2>1, <2>4 DEF TypeOK
    <3>2. Fresh(d)' /\ dialed'[d]
      BY <1>2, <2>1, <2>2 DEF TypeOK
    <3>3. server'.dest \in Dest /\ dialed'[server'.dest] /\ Fresh(server.dest)'
      BY <3>1, <3>2 DEF Fresh
    <3> QED BY <3>1, <3>3 DEF ServerInv
  <2> QED BY <2>2, <2>3, <2>4
<1>5. CASE ~Dial(d) /\ ~DialSucceeds(d)
  <2>1. server' = server /\ \A e \in Dest : dialed[e] => dialed'[e]
    BY <1>5 DEF Paste, Pulls, DialFails, ReadBytes, ReadEnds, ReadFails, sessionVars, TypeOK
  <2> QED BY <1>1, <1>2, <2>1, ServerKept
<1> QED BY <1>3, <1>4, <1>5

LEMMA LinksServerInv ==
  ASSUME TypeOK, ServerInv, NEW d \in Dest, SessionInv(d),
         RecvPromise(d) \/ Drain(d) \/ FallsSilent(d) \/ LinkBreaks(d)
  PROVE  ServerInv'
<1>1. CASE RecvPromise(d)
  <2>1. UNCHANGED <<copied, copies, gone>> /\ (SourceKept' => SourceKept)
    BY <1>1, SourceUnchanged DEF RecvPromise
  <2>2. /\ dialed' = [dialed EXCEPT ![d] = FALSE]
        /\ wire' = [wire EXCEPT ![d] = <<>>]
        /\ buffers' = [buffers EXCEPT ![d] = <<>>]
        /\ received' = [received EXCEPT ![d] = <<>>]
    BY <1>1 DEF RecvPromise
  <2>3. CASE server.dest = d
    <3>1. CASE server.at \in {"accepting", "hanging"}
      <4>1. server' = server
        BY <1>1, <3>1 DEF RecvPromise
      <4> QED BY <2>3, <3>1, <4>1 DEF ServerInv
    <3>2. CASE server.at \notin {"accepting", "hanging"}
      <4>1. server' = Lingers(server)
        BY <1>1, <2>3, <3>2 DEF RecvPromise
      <4>2. server'.at = "lingering" /\ server'.dest = d
        BY <2>3, <4>1 DEF Lingers, Idle
      <4> QED BY <4>2 DEF ServerInv
    <3> QED BY <3>1, <3>2
  <2>4. CASE server.dest # d
    <3>1. server' = server
      BY <1>1, <2>4 DEF RecvPromise
    <3>2. server.dest \in Dest => /\ dialed[server.dest] => dialed'[server.dest]
                                  /\ Fresh(server.dest) => Fresh(server.dest)'
      BY <2>2, <2>4, <3>1 DEF TypeOK, Fresh
    <3>3. server.at # "listening" => server.dest \in Dest
      BY DEF ServerInv
    <3> QED BY <2>1, <3>1, <3>2, <3>3 DEF ServerInv
  <2> QED BY <2>3, <2>4
<1>2. CASE Drain(d)
  <2>1. UNCHANGED <<copied, copies, gone, server, dialed>> /\ (SourceKept' => SourceKept)
    BY <1>2, SourceUnchanged DEF Drain
  <2>2. PICK files \in Seq(File), to \in Seq(Nat) :
          Holds(files, buffers[d], received[d]) /\ Carries(files, received[d], wire[d], to)
    BY DEF SessionInv, Transfers
  <2>3. /\ wire[d] = <<>> =>
              wire'[d] = <<>> /\ buffers'[d] = buffers[d] /\ received'[d] = received[d]
        /\ \A e \in Dest \ {d} :
              wire'[e] = wire[e] /\ buffers'[e] = buffers[e] /\ received'[e] = received[e]
    BY <1>2, <2>2, DrainIs
  <2>4. \A e \in Dest : Fresh(e) => Fresh(e)'
    BY <2>3 DEF Fresh
  <2> QED BY <2>1, <2>4, ServerKept
<1>3. CASE LinkBreaks(d)
  <2>1. /\ UNCHANGED <<copied, copies, gone, server, dialed, buffers, received>>
        /\ SourceKept' => SourceKept
    BY <1>3, SourceUnchanged DEF LinkBreaks, sessionVars
  <2>2. \A e \in Dest : Fresh(e) => Fresh(e)'
    <3>1. wire' = wire \/ wire' = [wire EXCEPT ![d] = <<>>]
      BY <1>3 DEF LinkBreaks
    <3> QED BY <2>1, <3>1 DEF Fresh, TypeOK
  <2> QED BY <2>1, <2>2, ServerKept
<1>4. CASE FallsSilent(d)
  <2>1. /\ UNCHANGED <<copied, copies, gone, server, wire, dialed, buffers, received>>
        /\ SourceKept' => SourceKept
    BY <1>4, SourceUnchanged DEF FallsSilent, sessionVars
  <2> QED BY <2>1, ServerKept DEF Fresh
<1> QED BY <1>1, <1>2, <1>3, <1>4
----------------------------------------------------------------------------
(* What is announced. *)

LEMMA AnnouncedKept ==
  ASSUME AnnouncedInv, UNCHANGED <<copied, copies, mail, promise>>, SourceKept' => SourceKept,
         copies = 0 => UNCHANGED <<server, paste, dialed>>,
         \A d \in Dest : ~dialed'[d] => ~dialed[d],
         \A d \in Dest : ~dialed'[d] /\ Fresh(d) => Fresh(d)'
  PROVE  AnnouncedInv'
<1>1. copies' = 0 => Untouched'
  BY DEF AnnouncedInv, Untouched
<1>2. \A d \in Dest : ~dialed'[d] => Fresh(d)'
  BY DEF AnnouncedInv
<1>3. SourceKept' => \A d \in Dest :
        /\ \A i \in DOMAIN mail'[d] : mail'[d][i] = copied'
        /\ promise'[d] \in {<<>>, copied'}
  BY DEF AnnouncedInv
<1> QED BY <1>1, <1>2, <1>3 DEF AnnouncedInv

LEMMA SourceAnnouncedInv ==
  ASSUME TypeOK, AnnouncedInv,
         \/ \E list \in Lists : CopyFiles(list)
         \/ \E f \in File : FileGoes(f)
  PROVE  AnnouncedInv'
<1>1. ASSUME NEW list \in Lists, CopyFiles(list) PROVE AnnouncedInv'
  <2>1. /\ copies' = copies + 1 /\ copied' = list /\ copies \in Nat /\ gone' = gone
        /\ mail' = [e \in Dest |-> Append(mail[e], list)]
        /\ UNCHANGED <<promise, dialed, wire, buffers, received>>
    BY <1>1 DEF CopyFiles, sessionVars, TypeOK
  <2>2. copies' # 0
    BY <2>1
  <2>3. \A e \in Dest : ~dialed'[e] => Fresh(e)'
    BY <2>1 DEF AnnouncedInv, Fresh
  <2>4. ASSUME SourceKept', NEW e \in Dest
        PROVE  /\ \A i \in DOMAIN mail'[e] : mail'[e][i] = copied'
               /\ promise'[e] \in {<<>>, copied'}
    <3>1. copies = 0
      BY <2>1, <2>4 DEF SourceKept
    <3>2. mail[e] = <<>> /\ promise[e] = <<>>
      BY <3>1 DEF AnnouncedInv, Untouched
    <3>3. mail'[e] = Append(<<>>, list) /\ <<>> \in Seq(Lists) /\ Len(<<>>) = 0
      <4>1. mail'[e] = Append(mail[e], list)
        BY <2>1
      <4>2. <<>> \in Seq(Lists) /\ Len(<<>>) = 0
        OBVIOUS
      <4> QED BY <3>2, <4>1, <4>2
    <3>4. /\ Append(<<>>, list) \in Seq(Lists) /\ Len(Append(<<>>, list)) = 0 + 1
          /\ Append(<<>>, list)[0 + 1] = list
      BY <3>3, AppendProperties
    <3>5. DOMAIN Append(<<>>, list) = 1..1
      BY <3>4, LenProperties
    <3> QED BY <2>1, <3>2, <3>3, <3>4, <3>5
  <2> QED BY <2>2, <2>3, <2>4 DEF AnnouncedInv
<1>2. ASSUME NEW f \in File, FileGoes(f) PROVE AnnouncedInv'
  <2>1. UNCHANGED <<copied, copies, mail, promise, server, paste, dialed, wire, buffers, received>>
    BY <1>2 DEF FileGoes, sessionVars
  <2>2. ~SourceKept'
    BY <1>2 DEF FileGoes, SourceKept
  <2> QED BY <2>1, <2>2, AnnouncedKept DEF Fresh
<1> QED BY <1>1, <1>2

LEMMA ServesAnnouncedInv ==
  ASSUME TypeOK, ServerInv, AnnouncedInv, Serves \/ CallerStalls
  PROVE  AnnouncedInv'
<1>1. /\ UNCHANGED <<copied, copies, gone, mail, promise, dialed, buffers, received>>
      /\ SourceKept' => SourceKept
  BY SourceUnchanged DEF Serves, AcceptFails, CallerStalls, ServeLoads, ServeReads, ServeStarts,
                         SendsMeta, SendsChunk, Sends, ServeSent, ServeEnds, sessionVars, sourceVars
<1>2. copies # 0
  <2>1. server.at # "listening"
    BY DEF Serves, AcceptFails, CallerStalls, ServeLoads, ServeReads, ServeStarts, SendsMeta,
           SendsChunk, ServeSent, ServeEnds
  <2> QED BY <2>1 DEF AnnouncedInv, Untouched, Idle
<1>3. \A e \in Dest : ~dialed[e] => wire'[e] = wire[e]
  <2>1. wire' = wire \/ (server.at \in {"meta", "chunks"} /\ \E message : Sends(message))
    BY DEF Serves, AcceptFails, CallerStalls, ServeLoads, ServeReads, ServeStarts, SendsMeta,
           SendsChunk, ServeSent, ServeEnds
  <2>2. ASSUME server.at \in {"meta", "chunks"}, NEW message, Sends(message),
               NEW e \in Dest, ~dialed[e]
        PROVE  wire'[e] = wire[e]
    <3>1. server.dest # e
      BY <2>2 DEF ServerInv
    <3>2. /\ wire' = [wire EXCEPT ![server.dest] = Append(@, message)]
          /\ wire \in [Dest -> Seq(Message)]
      BY <2>2 DEF Sends, TypeOK
    <3> QED BY <3>1, <3>2
  <2> QED BY <2>1, <2>2
<1>4. \A e \in Dest : ~dialed'[e] /\ Fresh(e) => Fresh(e)'
  BY <1>1, <1>3 DEF Fresh
<1> QED BY <1>1, <1>2, <1>4, AnnouncedKept

LEMMA PullsAnnouncedInv ==
  ASSUME TypeOK, AnnouncedInv, NEW d \in Dest, Paste(d) \/ Pulls(d)
  PROVE  AnnouncedInv'
<1>1. /\ UNCHANGED <<copied, copies, gone, mail, promise, wire, buffers, received>>
      /\ SourceKept' => SourceKept
  BY SourceUnchanged DEF Paste, Pulls, Dial, DialSucceeds, DialFails, ReadBytes, ReadEnds,
                         ReadFails, sourceVars, sessionVars
<1>2. copies # 0
  <2>1. promise[d] # <<>> \/ paste[d] # NoPaste
    BY DEF Paste, Pulls, Dial, DialSucceeds, DialFails, Dialing, ReadBytes, ReadEnds, ReadFails,
           Reading, NoPaste
  <2> QED BY <2>1 DEF AnnouncedInv, Untouched
<1>3. \A e \in Dest : ~dialed'[e] => ~dialed[e]
  BY DEF Paste, Pulls, Dial, DialSucceeds, DialFails, ReadBytes, ReadEnds, ReadFails,
         sessionVars, TypeOK
<1>4. \A e \in Dest : Fresh(e) => Fresh(e)'
  BY <1>1 DEF Fresh
<1> QED BY <1>1, <1>2, <1>3, <1>4, AnnouncedKept

LEMMA LinksAnnouncedInv ==
  ASSUME TypeOK, AnnouncedInv, NEW d \in Dest, SessionInv(d),
         RecvPromise(d) \/ Drain(d) \/ FallsSilent(d) \/ LinkBreaks(d)
  PROVE  AnnouncedInv'
<1>1. CASE RecvPromise(d)
  <2>1. UNCHANGED <<copied, copies, gone>> /\ (SourceKept' => SourceKept)
    BY <1>1, SourceUnchanged DEF RecvPromise
  <2>2. /\ dialed' = [dialed EXCEPT ![d] = FALSE]
        /\ wire' = [wire EXCEPT ![d] = <<>>]
        /\ buffers' = [buffers EXCEPT ![d] = <<>>]
        /\ received' = [received EXCEPT ![d] = <<>>]
        /\ mail' = [mail EXCEPT ![d] = Tail(mail[d])]
        /\ promise' = [promise EXCEPT ![d] = Head(mail[d])]
        /\ mail[d] # <<>> /\ mail[d] \in Seq(Lists)
    BY <1>1 DEF RecvPromise, TypeOK
  <2>3. copies' # 0
    BY <2>1, <2>2 DEF AnnouncedInv, Untouched
  <2>4. \A e \in Dest : ~dialed'[e] => Fresh(e)'
    BY <2>2 DEF AnnouncedInv, Fresh, TypeOK
  <2>5. ASSUME SourceKept', NEW e \in Dest
        PROVE  /\ \A i \in DOMAIN mail'[e] : mail'[e][i] = copied'
               /\ promise'[e] \in {<<>>, copied'}
    <3>1. /\ \A i \in DOMAIN mail[e] : mail[e][i] = copied
          /\ promise[e] \in {<<>>, copied} /\ mail[e] \in Seq(Lists)
      BY <2>1, <2>5 DEF AnnouncedInv, TypeOK
    <3>2. CASE e # d
      <4>1. mail'[e] = mail[e] /\ promise'[e] = promise[e]
        BY <2>2, <3>2 DEF TypeOK
      <4> QED BY <2>1, <3>1, <4>1
    <3>3. CASE e = d
      <4>1. mail'[d] = Tail(mail[d]) /\ promise'[d] = Head(mail[d])
        BY <2>2 DEF TypeOK
      <4>2. /\ DOMAIN mail[d] = 1..Len(mail[d]) /\ Len(mail[d]) \in Nat \ {0}
            /\ Head(mail[d]) = mail[d][1]
        BY <2>2, LenProperties, EmptySeq
      <4>3. /\ DOMAIN Tail(mail[d]) = 1..(Len(mail[d]) - 1)
            /\ \A i \in 1..(Len(mail[d]) - 1) : Tail(mail[d])[i] = mail[d][i + 1]
        BY <2>2, HeadTailProperties, LenProperties
      <4>4. \A i \in 1..(Len(mail[d]) - 1) : i + 1 \in DOMAIN mail[d]
        BY <4>2
      <4>5. 1 \in DOMAIN mail[d]
        BY <4>2
      <4> QED BY <2>1, <3>1, <3>3, <4>1, <4>2, <4>3, <4>4, <4>5
    <3> QED BY <3>2, <3>3
  <2> QED BY <2>3, <2>4, <2>5 DEF AnnouncedInv
<1>2. CASE Drain(d)
  <2>1. /\ UNCHANGED <<copied, copies, gone, mail, promise, server, paste, dialed>>
        /\ SourceKept' => SourceKept
    BY <1>2, SourceUnchanged DEF Drain
  <2>2. PICK files \in Seq(File), to \in Seq(Nat) :
          Holds(files, buffers[d], received[d]) /\ Carries(files, received[d], wire[d], to)
    BY DEF SessionInv, Transfers
  <2>3. /\ wire[d] = <<>> =>
              wire'[d] = <<>> /\ buffers'[d] = buffers[d] /\ received'[d] = received[d]
        /\ \A e \in Dest \ {d} :
              wire'[e] = wire[e] /\ buffers'[e] = buffers[e] /\ received'[e] = received[e]
    BY <1>2, <2>2, DrainIs
  <2>4. \A e \in Dest : Fresh(e) => Fresh(e)'
    BY <2>3 DEF Fresh
  <2> QED BY <2>1, <2>4, AnnouncedKept
<1>3. CASE LinkBreaks(d)
  <2>1. /\ UNCHANGED <<copied, copies, gone, mail, promise, server, paste, dialed,
                       buffers, received>>
        /\ SourceKept' => SourceKept
    BY <1>3, SourceUnchanged DEF LinkBreaks, sessionVars
  <2>2. \A e \in Dest : Fresh(e) => Fresh(e)'
    <3>1. wire' = wire \/ wire' = [wire EXCEPT ![d] = <<>>]
      BY <1>3 DEF LinkBreaks
    <3> QED BY <2>1, <3>1 DEF Fresh, TypeOK
  <2> QED BY <2>1, <2>2, AnnouncedKept
<1>4. CASE FallsSilent(d)
  <2>1. /\ UNCHANGED <<copied, copies, gone, mail, promise, server, paste, wire, dialed,
                       buffers, received>>
        /\ SourceKept' => SourceKept
    BY <1>4, SourceUnchanged DEF FallsSilent, sessionVars
  <2> QED BY <2>1, AnnouncedKept DEF Fresh
<1> QED BY <1>1, <1>2, <1>3, <1>4
----------------------------------------------------------------------------
(* The sessions. *)

LEMMA SessionKept ==
  ASSUME NEW d \in Dest, SessionInv(d),
         wire'[d] = wire[d], buffers'[d] = buffers[d], received'[d] = received[d],
         Serving(d)' => /\ Serving(d)
                        /\ server'.files = server.files /\ server'.cursors = server.cursors
                        /\ server'.at = "chunks" /\ link'[d] = "open" =>
                             server.at = "chunks" /\ link[d] = "open",
         SourceKept' => SourceKept /\ copied' = copied
  PROVE  SessionInv(d)'
<1>1. PICK files \in Seq(File) :
        /\ Transfers(d, files)
        /\ Serving(d) => files = server.files
        /\ SourceKept => files = copied
  BY DEF SessionInv
<1>2. Transfers(d, files)'
  BY <1>1 DEF Transfers
<1>3. /\ Serving(d)' => files = server'.files
      /\ SourceKept' => files = copied'
  BY <1>1
<1> QED BY <1>2, <1>3 DEF SessionInv

LEMMA SessionFresh ==
  ASSUME TypeOK', ServerInv', NEW d \in Dest, Fresh(d)', Serving(d)' => server'.at = "meta"
  PROVE  SessionInv(d)'
<1>1. copied' \in Seq(File) /\ server'.files \in Seq(File)
  <2>1. Lists \subseteq Seq(File) /\ <<>> \in Seq(File)
    BY FileAssumption
  <2> QED BY <2>1 DEF TypeOK
<1>2. Serving(d)' /\ SourceKept' => server'.files = copied'
  BY DEF ServerInv, Serving
<1>3. PICK files \in Seq(File) : /\ Serving(d)' => files = server'.files
                                 /\ SourceKept' => files = copied'
  <2>1. CASE Serving(d)'
    BY <1>1, <1>2, <2>1
  <2>2. CASE ~Serving(d)'
    BY <1>1, <2>2
  <2> QED BY <2>1, <2>2
<1>4. Carries(files, <<>>, <<>>, <<>>) /\ <<>> \in Seq(Nat)
  <2>1. <<>> \in Seq(Nat)
    OBVIOUS
  <2> QED BY <2>1, CarriesNothing
<1>5. Transfers(d, files)'
  <2>1. wire'[d] = <<>> /\ buffers'[d] = <<>> /\ received'[d] = <<>>
    BY DEF Fresh
  <2>2. Holds(files, buffers'[d], received'[d])
    BY <2>1 DEF Holds
  <2>3. Carries(files, received'[d], wire'[d], <<>>)
    BY <1>4, <2>1
  <2>4. ~(Serving(d)' /\ server'.at = "chunks" /\ link'[d] = "open")
    OBVIOUS
  <2> QED BY <1>4, <2>2, <2>3, <2>4 DEF Transfers
<1> QED BY <1>3, <1>5 DEF SessionInv

LEMMA SourceSessionInv ==
  ASSUME TypeOK, TypeOK', ServerInv', AnnouncedInv, NEW d \in Dest, SessionInv(d),
         \/ \E list \in Lists : CopyFiles(list)
         \/ \E f \in File : FileGoes(f)
  PROVE  SessionInv(d)'
<1>1. UNCHANGED <<server, wire, link, dialed, buffers, received>>
  BY DEF CopyFiles, FileGoes, sessionVars
<1>2. CASE ~SourceKept'
  BY <1>1, <1>2, SessionKept DEF Serving
<1>3. CASE SourceKept'
  <2>1. ~\E f \in File : FileGoes(f)
    BY <1>3 DEF FileGoes, SourceKept
  <2>2. PICK list \in Lists : CopyFiles(list)
    BY <2>1
  <2>3. copies = 0
    BY <1>3, <2>2 DEF CopyFiles, SourceKept, TypeOK
  <2>4. Fresh(d) /\ server.at = "listening"
    BY <2>3 DEF AnnouncedInv, Untouched, Idle
  <2>5. Fresh(d)' /\ ~Serving(d)'
    BY <1>1, <2>4 DEF Fresh, Serving
  <2> QED BY <2>5, SessionFresh
<1> QED BY <1>2, <1>3

LEMMA SendsMetaSession ==
  ASSUME TypeOK, ServerInv, SendsMeta, NEW s \in Dest, s = server.dest
  PROVE  SessionInv(s)'
<1>0. PICK files \in Seq(File) : files = server.files
  BY DEF TypeOK
<1> DEFINE start == [i \in DOMAIN files |-> 0]
           message == Meta(files)
<1>1. /\ server.at = "meta" /\ Sends(message) /\ Fresh(s)
      /\ server.cursors = start
      /\ SourceKept => files = copied
  BY <1>0 DEF SendsMeta, ServerInv
<1>2. message \in Message /\ start \in Seq(Nat)
  BY <1>1, MetaIs, StartIs
<1>3. /\ wire'[s] = Append(wire[s], message)
      /\ UNCHANGED <<sourceVars, sessionVars>>
  BY <1>1, <1>2, SendsType
<1>4. /\ server'.files = files /\ server'.cursors = start /\ server'.dest = s
  BY <1>0, <1>1 DEF SendsMeta, TypeOK
<1>5. wire[s] = <<>> /\ buffers'[s] = <<>> /\ received'[s] = <<>>
  BY <1>1, <1>3 DEF Fresh, sessionVars
<1>6. Follows(files, <<>>, message, start)
  BY DEF Follows
<1> HIDE DEF start, message
<1>7. Carries(files, <<>>, Append(<<>>, message), start)
  <2>1. Carries(files, <<>>, <<>>, <<>>)
    <3>1. <<>> \in Seq(Nat)
      OBVIOUS
    <3> QED BY <3>1, CarriesNothing
  <2>2. <<>> \in Seq(Message)
    OBVIOUS
  <2> QED BY <1>2, <1>6, <2>1, <2>2, CarriesMore
<1>8. Holds(files, buffers'[s], received'[s])
  BY <1>5 DEF Holds
<1>9. Carries(files, received'[s], wire'[s], start)
  BY <1>3, <1>5, <1>7
<1>10. SourceKept' => files = copied'
  BY <1>1, <1>3, SourceUnchanged
<1>11. Transfers(s, files)'
  BY <1>2, <1>4, <1>8, <1>9 DEF Transfers
<1> QED BY <1>1, <1>4, <1>10, <1>11 DEF SessionInv

LEMMA SendsChunkSession ==
  ASSUME TypeOK, ServerInv, NEW i \in DOMAIN server.files, SendsChunk(i),
         NEW s \in Dest, s = server.dest, SessionInv(s)
  PROVE  SessionInv(s)'
<1>1. server.at = "chunks" /\ ~Sent(i) /\ Serving(s)
  BY DEF SendsChunk, Serving
<1>2. PICK files \in Seq(File) :
        /\ Transfers(s, files)
        /\ files = server.files
        /\ SourceKept => files = copied
  BY <1>1 DEF SessionInv
<1>3. PICK k \in Nat, f \in File, counts \in Seq(Nat) :
        /\ k = server.cursors[i] /\ f = files[i] /\ counts = server.cursors
        /\ k < Chunks[f] /\ i \in 1..Len(files) /\ i \in 1..Len(counts)
        /\ Len(counts) = Len(files) /\ DOMAIN files = 1..Len(files)
        /\ Content(f)[k + 1] = <<f, k + 1>>
  <2>1. /\ server.files[i] \in File /\ i \in 1..Len(server.files) /\ i \in 1..Len(server.cursors)
        /\ server.cursors[i] \in Nat /\ server.cursors[i] < Chunks[server.files[i]]
        /\ Content(server.files[i])[server.cursors[i] + 1]
             = <<server.files[i], server.cursors[i] + 1>>
    BY <1>1, NextChunk
  <2>2. server.cursors \in Seq(Nat) /\ Len(server.cursors) = Len(server.files)
    BY <1>1 DEF TypeOK, ServerInv
  <2>3. DOMAIN files = 1..Len(files)
    BY LenProperties
  <2> QED BY <1>2, <2>1, <2>2, <2>3
<1> DEFINE message == Chunk(i, k, <<f, k + 1>>)
           next == [counts EXCEPT ![i] = k + 1]
<1>4. Sends(message) /\ server' = [server EXCEPT !.cursors = next]
  BY <1>2, <1>3 DEF SendsChunk
<1>5. message \in Message
  <2>1. i \in Nat
    BY <1>3
  <2> QED BY <2>1, ChunkIs
<1>6. next \in Seq(Nat)
  <2>1. k + 1 \in Nat
    OBVIOUS
  <2> QED BY <1>3, <2>1, ExceptSeq
<1>7. /\ wire'[s] = Append(wire[s], message) /\ link[s] = "open"
      /\ UNCHANGED <<sourceVars, link, sessionVars>>
  BY <1>4, <1>5, SendsType
<1>8. Follows(files, counts, message, next)
  <2>1. i \in DOMAIN files /\ Len(counts) = Len(files) /\ counts[i] = k /\ f = files[i]
    BY <1>3
  <2>2. next = [counts EXCEPT ![i] = @ + 1]
    BY <2>1
  <2> QED BY <1>3, <2>1, <2>2 DEF Follows
<1>9. Holds(files, buffers[s], received[s]) /\ Carries(files, received[s], wire[s], counts)
  BY <1>1, <1>2, <1>3, <1>7 DEF Transfers
<1>10. wire[s] \in Seq(Message)
  BY DEF TypeOK
<1>11. server'.files = files /\ server'.cursors = next
  BY <1>2, <1>4 DEF TypeOK
<1> HIDE DEF message, next
<1>12. Carries(files, received[s], Append(wire[s], message), next)
  BY <1>5, <1>6, <1>8, <1>9, <1>10, CarriesMore
<1>13. UNCHANGED <<buffers, received>> /\ (SourceKept' => files = copied')
  <2>1. UNCHANGED sourceVars /\ UNCHANGED <<buffers, received>>
    BY <1>7 DEF sessionVars
  <2> QED BY <1>2, <2>1, SourceUnchanged
<1>14. Holds(files, buffers'[s], received'[s]) /\ Carries(files, received'[s], wire'[s], next)
  BY <1>7, <1>9, <1>12, <1>13
<1>15. PICK reached \in Seq(Nat) : reached = next
  BY <1>6
<1>16. Transfers(s, files)'
  BY <1>11, <1>14, <1>15 DEF Transfers
<1> QED BY <1>11, <1>13, <1>16 DEF SessionInv

LEMMA ServesSessionInv ==
  ASSUME TypeOK, TypeOK', ServerInv, ServerInv', NEW d \in Dest, SessionInv(d),
         Serves \/ CallerStalls
  PROVE  SessionInv(d)'
<1>0. server \in [at : Stage,
                  dest : Dest \cup {NoDest}, paths : Seq(File), files : Seq(File),
                  cursors : Seq(Nat)]
  BY DEF TypeOK
<1>1. /\ UNCHANGED <<copied, copies, gone, buffers, received>>
      /\ SourceKept' => SourceKept /\ copied' = copied
  BY SourceUnchanged DEF Serves, AcceptFails, CallerStalls, ServeLoads, ServeReads, ServeStarts,
                         SendsMeta, SendsChunk, Sends, ServeSent, ServeEnds, sessionVars, sourceVars
<1>2. ASSUME ~Serving(d)', wire' = wire PROVE SessionInv(d)'
  BY <1>1, <1>2, SessionKept
<1>3. CASE ServeLoads
  <2>1. server'.at = "reading" /\ wire' = wire
    BY <1>0, <1>3 DEF ServeLoads
  <2> QED BY <1>2, <2>1 DEF Serving
<1>4. CASE ServeReads
  <2>1. server'.at = "reading" /\ wire' = wire
    BY <1>0, <1>4 DEF ServeReads
  <2> QED BY <1>2, <2>1 DEF Serving
<1>5. CASE ServeStarts
  <2>1. wire' = wire /\ server.at = "reading"
    BY <1>5 DEF ServeStarts
  <2>2. CASE ~Serving(d)'
    BY <1>2, <2>1, <2>2
  <2>3. CASE Serving(d)'
    <3>1. server'.at = "meta" /\ server'.dest = server.dest
      <4>1. CASE server.files = <<>>
        <5>1. server'.at = "listening"
          BY <1>5, <4>1 DEF ServeStarts, Idle
        <5> QED BY <2>3, <5>1 DEF Serving
      <4>2. CASE server.files # <<>>
        <5> DEFINE start == [i \in DOMAIN server.files |-> 0]
        <5>1. server' = [server EXCEPT !.at = "meta", !.cursors = start]
          BY <1>5, <4>2 DEF ServeStarts
        <5> HIDE DEF start
        <5> QED BY <1>0, <5>1
      <4> QED BY <4>1, <4>2
    <3>2. Fresh(d)
      BY <2>1, <2>3, <3>1 DEF ServerInv, Serving
    <3>3. Fresh(d)'
      BY <1>1, <2>1, <3>2 DEF Fresh
    <3> QED BY <3>1, <3>3, SessionFresh
  <2> QED BY <2>2, <2>3
<1>6. ASSUME server.at \in {"meta", "chunks"}, NEW message, Sends(message),
             server'.dest = server.dest, server.dest # d
      PROVE  SessionInv(d)'
  <2>1. wire'[d] = wire[d]
    BY <1>6 DEF Sends, TypeOK
  <2>2. ~Serving(d)'
    BY <1>6 DEF Serving
  <2> QED BY <1>1, <2>1, <2>2, SessionKept
<1>7. CASE SendsMeta
  <2>1. CASE server.dest = d
    BY <1>7, <2>1, SendsMetaSession
  <2>2. CASE server.dest # d
    <3>1. /\ server.at = "meta" /\ Sends(Meta(server.files)) /\ server'.dest = server.dest
      BY <1>0, <1>7 DEF SendsMeta
    <3> QED BY <1>6, <2>2, <3>1
  <2> QED BY <2>1, <2>2
<1>8. ASSUME NEW i \in DOMAIN server.files, SendsChunk(i) PROVE SessionInv(d)'
  <2>1. CASE server.dest = d
    BY <1>8, <2>1, SendsChunkSession
  <2>2. CASE server.dest # d
    <3>1. /\ server.at = "chunks" /\ (\E message : Sends(message)) /\ server'.dest = server.dest
      BY <1>0, <1>8 DEF SendsChunk
    <3> QED BY <1>6, <2>2, <3>1
  <2> QED BY <2>1, <2>2
<1>9. CASE ServeSent
  <2>1. server'.at = "lingering" /\ wire' = wire
    BY <1>9 DEF ServeSent, Lingers, Idle
  <2> QED BY <1>2, <2>1 DEF Serving
<1>10. CASE ServeEnds \/ AcceptFails
  <2>1. server'.at = "listening" /\ wire' = wire
    BY <1>10 DEF ServeEnds, AcceptFails, Idle
  <2> QED BY <1>2, <2>1 DEF Serving
<1>11. CASE CallerStalls
  <2>1. server'.at = "hanging" /\ wire' = wire
    BY <1>0, <1>11 DEF CallerStalls
  <2> QED BY <1>2, <2>1 DEF Serving
<1> QED BY <1>3, <1>4, <1>5, <1>7, <1>8, <1>9, <1>10, <1>11 DEF Serves

LEMMA PullsSessionInv ==
  ASSUME TypeOK, ServerInv, NEW d \in Dest, NEW e \in Dest, SessionInv(e), Paste(d) \/ Pulls(d)
  PROVE  SessionInv(e)'
<1>1. /\ UNCHANGED <<copied, copies, gone, wire, buffers, received>>
      /\ SourceKept' => SourceKept /\ copied' = copied
  BY SourceUnchanged DEF Paste, Pulls, Dial, DialSucceeds, DialFails, ReadBytes, ReadEnds,
                         ReadFails, sourceVars, sessionVars
<1>2. CASE Dial(d) \/ DialSucceeds(d)
  <2>1. server' = Idle \/ \E at \in {"accepting", "loading"} : server'.at = at
    BY <1>2 DEF Dial, DialSucceeds, TypeOK
  <2> QED BY <1>1, <2>1, SessionKept DEF Serving, Idle
<1>3. CASE DialFails(d)
  <2>1. UNCHANGED server /\ (link'[e] = "open" => link[e] = "open")
    BY <1>3 DEF DialFails, TypeOK
  <2> QED BY <1>1, <2>1, SessionKept DEF Serving
<1>4. CASE ~Dial(d) /\ ~DialSucceeds(d) /\ ~DialFails(d)
  <2>1. UNCHANGED <<server, link>>
    BY <1>4 DEF Paste, Pulls, ReadBytes, ReadEnds, ReadFails
  <2> QED BY <1>1, <2>1, SessionKept DEF Serving
<1> QED BY <1>2, <1>3, <1>4

LEMMA LinksSessionInv ==
  ASSUME TypeOK, TypeOK', ServerInv, ServerInv', NEW d \in Dest, NEW e \in Dest,
         SessionInv(d), SessionInv(e), RecvPromise(d) \/ Drain(d) \/ FallsSilent(d) \/ LinkBreaks(d)
  PROVE  SessionInv(e)'
<1>1. UNCHANGED sourceVars
  BY DEF RecvPromise, Drain, FallsSilent, LinkBreaks
<1>2. SourceKept' => SourceKept /\ copied' = copied
  BY <1>1, SourceUnchanged
<1>3. CASE RecvPromise(d)
  <2>1. /\ wire' = [wire EXCEPT ![d] = <<>>]
        /\ buffers' = [buffers EXCEPT ![d] = <<>>]
        /\ received' = [received EXCEPT ![d] = <<>>]
        /\ link' = [link EXCEPT ![d] = "none"]
        /\ server' = IF server.dest = d /\ server.at \notin {"accepting", "hanging"}
                     THEN Lingers(server) ELSE server
    BY <1>3 DEF RecvPromise
  <2>2. CASE e = d
    <3>1. Fresh(e)'
      BY <2>1, <2>2 DEF TypeOK, Fresh
    <3>2. ~Serving(e)'
      BY <2>1, <2>2 DEF Lingers, Idle, Serving
    <3> QED BY <3>1, <3>2, SessionFresh
  <2>3. CASE e # d
    <3>1. wire'[e] = wire[e] /\ buffers'[e] = buffers[e] /\ received'[e] = received[e]
          /\ link'[e] = link[e]
      BY <2>1, <2>3 DEF TypeOK
    <3>2. Serving(e)' => server' = server
      BY <2>1 DEF Lingers, Idle, Serving
    <3>3. Serving(e)' => Serving(e)
      BY <3>2 DEF Serving
    <3> QED BY <1>2, <3>1, <3>2, <3>3, SessionKept
  <2> QED BY <2>2, <2>3
<1>4. CASE Drain(d)
  <2>1. UNCHANGED server /\ (link' = link \/ link' = [link EXCEPT ![d] = "closed"])
    BY <1>4 DEF Drain
  <2>2. link[e] # "open" => link'[e] # "open"
    BY <2>1 DEF TypeOK
  <2>3. PICK files \in Seq(File) :
          /\ Transfers(d, files)
          /\ Serving(d) => files = server.files
          /\ SourceKept => files = copied
    BY DEF SessionInv
  <2>4. PICK to \in Seq(Nat) :
          /\ Holds(files, buffers[d], received[d]) /\ Carries(files, received[d], wire[d], to)
          /\ Serving(d) /\ server.at = "chunks" /\ link[d] = "open" => to = server.cursors
    BY <2>3 DEF Transfers
  <2>5. /\ Holds(files, buffers'[d], received'[d])
        /\ Carries(files, received'[d], wire'[d], to)
        /\ \A x \in Dest \ {d} :
              wire'[x] = wire[x] /\ buffers'[x] = buffers[x] /\ received'[x] = received[x]
    BY <1>4, <2>4, DrainIs
  <2>6. CASE e = d
    <3>1. Transfers(d, files)'
      BY <2>1, <2>2, <2>4, <2>5, <2>6 DEF Transfers, Serving
    <3> QED BY <1>2, <2>1, <2>3, <2>6, <3>1 DEF SessionInv, Serving
  <2>7. CASE e # d
    BY <1>2, <2>1, <2>2, <2>5, <2>7, SessionKept DEF Serving
  <2> QED BY <2>6, <2>7
<1>5. CASE LinkBreaks(d)
  <2>1. /\ UNCHANGED <<server, buffers, received>> /\ link' = [link EXCEPT ![d] = "closed"]
        /\ wire' = wire \/ wire' = [wire EXCEPT ![d] = <<>>]
    BY <1>5 DEF LinkBreaks, sessionVars
  <2>2. CASE wire'[e] = wire[e]
    <3>1. link'[e] = "open" => link[e] = "open"
      BY <2>1 DEF TypeOK
    <3> QED BY <1>2, <2>1, <2>2, <3>1, SessionKept DEF Serving
  <2>3. CASE wire'[e] # wire[e]
    <3>1. wire'[e] = <<>> /\ link'[e] = "closed"
      BY <2>1, <2>3 DEF TypeOK
    <3>2. PICK files \in Seq(File) :
            /\ Transfers(e, files)
            /\ Serving(e) => files = server.files
            /\ SourceKept => files = copied
      BY DEF SessionInv
    <3>3. Holds(files, buffers'[e], received'[e])
      BY <2>1, <3>2 DEF Transfers
    <3>4. received'[e] \in Seq(Nat)
      BY DEF TypeOK
    <3>5. Carries(files, received'[e], wire'[e], received'[e])
      BY <3>1, <3>4, CarriesNothing
    <3>6. Transfers(e, files)'
      BY <3>1, <3>3, <3>4, <3>5 DEF Transfers
    <3> QED BY <1>2, <2>1, <3>2, <3>6 DEF SessionInv, Serving
  <2> QED BY <2>2, <2>3
<1>6. CASE FallsSilent(d)
  <2>1. UNCHANGED <<server, wire, buffers, received>> /\ (link'[e] = "open" => link[e] = "open")
    BY <1>6 DEF FallsSilent, sessionVars, TypeOK
  <2> QED BY <1>2, <2>1, SessionKept DEF Serving
<1> QED BY <1>3, <1>4, <1>5, <1>6
----------------------------------------------------------------------------
(* The pastes. *)

LEMMA PasteKept ==
  ASSUME NEW d \in Dest, PasteInv(d), paste'[d] = paste[d], promise'[d] = promise[d],
         SourceKept' => SourceKept
  PROVE  PasteInv(d)'
BY DEF PasteInv

(* A paste reads from a promise, and the promise is what was copied. *)
LEMMA PromiseIs ==
  ASSUME TypeOK, AnnouncedInv, NEW d \in Dest
  PROVE  /\ promise[d] \in Seq(File)
         /\ \A i \in 1..Len(promise[d]) : promise[d][i] \in File /\ Chunks[promise[d][i]] \in Nat
         /\ SourceKept /\ promise[d] # <<>> => promise[d] = copied
<1>1. promise[d] \in Seq(File)
  <2>1. Lists \subseteq Seq(File) /\ <<>> \in Seq(File)
    BY FileAssumption
  <2> QED BY <2>1 DEF TypeOK
<1>2. \A i \in 1..Len(promise[d]) : promise[d][i] \in File /\ Chunks[promise[d][i]] \in Nat
  <2>1. DOMAIN promise[d] = 1..Len(promise[d])
    BY <1>1, LenProperties
  <2> QED BY <1>1, <2>1, FileFacts
<1> QED BY <1>1, <1>2 DEF AnnouncedInv

LEMMA PasteBegins ==
  ASSUME TypeOK, AnnouncedInv, NEW d \in Dest, Paste(d)
  PROVE  PasteInv(d)'
<1>1. promise'[d] = promise[d] /\ promise[d] # <<>>
  BY DEF Paste, sessionVars
<1>2. /\ promise[d] \in Seq(File) /\ Len(promise[d]) \in Nat \ {0}
      /\ promise[d][1] \in File /\ Chunks[promise[d][1]] \in Nat
  <2>1. promise[d] \in Seq(File) /\ Len(promise[d]) \in Nat \ {0}
    BY <1>1, PromiseIs, EmptySeq
  <2>2. 1 \in 1..Len(promise[d])
    BY <2>1
  <2> QED BY <2>1, <2>2, PromiseIs
<1>3. paste'[d].at = "reading" /\ paste'[d].taken = <<<<>>>>
  BY DEF Paste, TypeOK
<1>4. Len(<<<<>>>>) = 1 /\ <<<<>>>>[1] = <<>> /\ Len(<<>>) = 0
  OBVIOUS
<1>5. 1 \in 1..Len(promise[d]) /\ 1..0 = {} /\ 1 - 1 = 0 /\ 0 <= Chunks[promise[d][1]]
  BY <1>2
<1> DEFINE taken == <<<<>>>>
<1>6. Len(taken) = 1 /\ Len(taken[1]) = 0
  BY <1>4
<1>7. paste'[d].taken = taken
  BY <1>3
<1> HIDE DEF taken
<1> QED BY <1>1, <1>3, <1>5, <1>6, <1>7 DEF PasteInv

LEMMA PasteReads ==
  ASSUME TypeOK, AnnouncedInv, NEW d \in Dest, SessionInv(d), PasteInv(d), ReadBytes(d)
  PROVE  PasteInv(d)'
<1> DEFINE n == Index(d)
           read == paste'[d].taken[n]
<1>1. /\ HaveFile(d) /\ n \in 1..Len(paste[d].taken)
      /\ read \in Seq(Data \cup {Blank}) /\ Len(read) = Have(d)
      /\ \A k \in 1..Have(d) :
           read[k] = IF k <= Offset(d) THEN paste[d].taken[n][k] ELSE buffers[d][n][k]
      /\ paste'[d].at = paste[d].at /\ Len(paste'[d].taken) = Len(paste[d].taken)
      /\ \A j \in 1..Len(paste[d].taken) : j # n => paste'[d].taken[j] = paste[d].taken[j]
  BY ReadIs
<1>2. paste[d].at = "reading" /\ promise' = promise /\ (SourceKept' => SourceKept)
  BY SourceUnchanged DEF ReadBytes, Reading, sessionVars
<1>3. /\ promise[d] # <<>> /\ n = Len(paste[d].taken) /\ n \in 1..Len(promise[d])
      /\ SourceKept =>
           /\ \A i \in 1..(n - 1) : paste[d].taken[i] = Content(promise[d][i])
           /\ Len(paste[d].taken[n]) <= Chunks[promise[d][n]]
           /\ \A k \in 1..Len(paste[d].taken[n]) : paste[d].taken[n][k] = <<promise[d][n], k>>
  BY <1>2 DEF PasteInv, Index
<1>4. paste[d].taken \in Seq(Seq(Data \cup {Blank}))
  BY DEF TypeOK
<1>5. Offset(d) = Len(paste[d].taken[n]) /\ Offset(d) \in Nat
  <2>1. paste[d].taken[n] \in Seq(Data \cup {Blank})
    BY <1>1, <1>4, ElementOfSeq
  <2> QED BY <2>1, LenProperties DEF Offset
<1>6. /\ Have(d) \in Nat
      /\ Have(d) <= Len(buffers[d][n])
      /\ SourceKept => /\ n \in 1..Len(copied) /\ Len(buffers[d][n]) = Chunks[copied[n]]
                       /\ \A k \in 1..Have(d) : buffers[d][n][k] = <<copied[n], k>>
  BY <1>1, WhatIsThere
<1>7. SourceKept => promise[d] = copied
  BY <1>3, PromiseIs
<1> HIDE DEF n, read
<1>8. ASSUME SourceKept
      PROVE  /\ \A i \in 1..(n - 1) : paste'[d].taken[i] = Content(promise[d][i])
             /\ Len(read) <= Chunks[promise[d][n]]
             /\ \A k \in 1..Len(read) : read[k] = <<promise[d][n], k>>
  <2>1. ASSUME NEW i \in 1..(n - 1) PROVE paste'[d].taken[i] = Content(promise[d][i])
    <3>1. i \in 1..Len(paste[d].taken) /\ i # n
      BY <1>1, <1>3
    <3> QED BY <1>1, <1>3, <1>8, <3>1
  <2>2. Len(read) <= Chunks[promise[d][n]]
    BY <1>1, <1>6, <1>7, <1>8
  <2>3. ASSUME NEW k \in 1..Len(read) PROVE read[k] = <<promise[d][n], k>>
    <3>1. k \in 1..Have(d)
      BY <1>1
    <3>2. CASE k <= Offset(d)
      <4>1. k \in 1..Len(paste[d].taken[n])
        BY <1>5, <1>6, <3>1, <3>2
      <4> QED BY <1>1, <1>3, <1>8, <3>1, <3>2, <4>1
    <3>3. CASE ~(k <= Offset(d))
      BY <1>1, <1>6, <1>7, <1>8, <3>1, <3>3
    <3> QED BY <3>2, <3>3
  <2> QED BY <2>1, <2>2, <2>3
<1>9. paste'[d].at = "reading" /\ Len(paste'[d].taken) = n /\ promise'[d] = promise[d]
      /\ read = paste'[d].taken[n]
  BY <1>1, <1>2, <1>3 DEF read
<1> QED BY <1>2, <1>3, <1>8, <1>9 DEF PasteInv

LEMMA PasteEnds ==
  ASSUME TypeOK, AnnouncedInv, NEW d \in Dest, SessionInv(d), PasteInv(d), ReadEnds(d)
  PROVE  PasteInv(d)'
<1> DEFINE n == Index(d)
           S == Data \cup {Blank}
           T == Seq(S)
           old == paste[d].taken
<1>1. paste[d].at = "reading" /\ promise' = promise /\ AtEnd(d) /\ (SourceKept' => SourceKept)
  BY SourceUnchanged DEF ReadEnds, Reading, sessionVars
<1>2. /\ promise[d] # <<>> /\ n = Len(old) /\ n \in 1..Len(promise[d])
      /\ SourceKept =>
           /\ \A i \in 1..(n - 1) : old[i] = Content(promise[d][i])
           /\ Len(old[n]) <= Chunks[promise[d][n]]
           /\ \A k \in 1..Len(old[n]) : old[n][k] = <<promise[d][n], k>>
  BY <1>1 DEF PasteInv, Index
<1>3. /\ n \in Nat /\ old \in Seq(T) /\ old[n] \in Seq(S)
      /\ Offset(d) = Len(old[n]) /\ Offset(d) \in Nat
  <2>1. old \in Seq(T)
    BY DEF TypeOK
  <2>2. n \in 1..Len(old)
    BY <1>2
  <2>3. old[n] \in Seq(S)
    <3> HIDE DEF T, old, n
    <3>1. old[n] \in T
      BY <2>1, <2>2, ElementOfSeq
    <3> QED BY <3>1 DEF T
  <2>4. n \in Nat
    BY <1>2, <2>1, LenProperties
  <2> QED BY <2>1, <2>3, <2>4, LenProperties DEF Offset
<1>4. promise[d] \in Seq(File) /\ Chunks[promise[d][n]] \in Nat /\ Len(promise[d]) \in Nat
  BY <1>2, PromiseIs, LenProperties
<1>5. SourceKept => old[n] = Content(promise[d][n])
  <2> SUFFICES ASSUME SourceKept PROVE old[n] = Content(promise[d][n])
    OBVIOUS
  <2>1. promise[d] = copied
    BY <1>2, PromiseIs
  <2>2. Have(d) \in Nat /\ Len(buffers[d][n]) = Chunks[copied[n]]
    BY <1>1, WhatIsThere DEF AtEnd
  <2>3. Have(d) >= Len(buffers[d][n]) /\ Offset(d) >= Have(d)
    BY <1>1 DEF AtEnd
  <2>4. Len(old[n]) = Chunks[promise[d][n]]
    <3> DEFINE size == Chunks[promise[d][n]]
               length == Len(old[n])
    <3>1. length <= size /\ length = Offset(d) /\ size \in Nat /\ length \in Nat
      BY <1>2, <1>3, <1>4
    <3>2. Offset(d) >= Have(d) /\ Have(d) >= size
      BY <2>1, <2>2, <2>3
    <3> HIDE DEF size, length
    <3>3. length = size
      BY <2>2, <3>1, <3>2
    <3> QED BY <3>3 DEF size, length
  <2> DEFINE f == promise[d][n]
             s == old[n]
  <2>5. s \in Seq(S) /\ Len(s) = Chunks[f] /\ \A k \in 1..Chunks[f] : s[k] = <<f, k>>
    BY <1>2, <1>3, <2>4
  <2> HIDE DEF f, s
  <2>6. DOMAIN s = 1..Chunks[f] /\ s \in [1..Chunks[f] -> S]
    BY <2>5, LenProperties
  <2>7. s = Content(f)
    BY <2>5, <2>6 DEF Content
  <2> QED BY <2>7 DEF f, s
<1>6. CASE n = Len(promise[d])
  <2>1. paste'[d].at = "done" /\ paste'[d].taken = old /\ promise'[d] = promise[d]
    BY <1>1, <1>6, NextFileIs
  <2> HIDE DEF n, old
  <2> QED BY <1>1, <1>2, <1>5, <2>1 DEF PasteInv
<1>7. CASE n # Len(promise[d])
  <2>1. paste'[d].at = "reading" /\ paste'[d].taken = Append(old, <<>>) /\ promise'[d] = promise[d]
    BY <1>1, <1>7, NextFileIs
  <2> DEFINE new == Append(old, <<>>)
  <2>2. <<>> \in T /\ Len(<<>>) = 0
    OBVIOUS
  <2> HIDE DEF old, T, n
  <2>3. /\ Len(new) = n + 1 /\ new[n + 1] = <<>>
        /\ \A j \in 1..n : new[j] = old[j]
    BY <1>2, <1>3, <2>2, AppendProperties
  <2>4. n + 1 \in 1..Len(promise[d]) /\ (n + 1) - 1 = n /\ 1..0 = {}
    BY <1>2, <1>3, <1>4, <1>7
  <2>5. Chunks[promise[d][n + 1]] \in Nat
    BY <2>4, PromiseIs
  <2>6. SourceKept => \A i \in 1..n : new[i] = Content(promise[d][i])
    <3> SUFFICES ASSUME SourceKept, NEW i \in 1..n PROVE new[i] = Content(promise[d][i])
      OBVIOUS
    <3>1. i = n \/ i \in 1..(n - 1)
      BY <1>3
    <3> QED BY <1>2, <1>5, <2>3, <3>1
  <2> HIDE DEF new
  <2>7. paste'[d].taken = new
    BY <2>1 DEF new
  <2>8. Len(new[n + 1]) = 0 /\ 0 <= Chunks[promise[d][n + 1]]
    BY <2>2, <2>3, <2>5
  <2>9. 1..Len(new[n + 1]) = {}
    BY <2>8
  <2> QED BY <1>1, <1>2, <2>1, <2>3, <2>4, <2>6, <2>7, <2>8, <2>9 DEF PasteInv
<1> QED BY <1>6, <1>7

LEMMA ServesPasteInv ==
  ASSUME NEW d \in Dest, PasteInv(d),
         \/ Serves \/ CallerStalls
         \/ \E list \in Lists : CopyFiles(list)
         \/ \E f \in File : FileGoes(f)
         \/ \E e \in Dest : Drain(e) \/ FallsSilent(e) \/ LinkBreaks(e),
         TypeOK
  PROVE  PasteInv(d)'
<1>1. UNCHANGED <<paste, promise>>
  BY DEF Serves, AcceptFails, CallerStalls, ServeLoads, ServeReads, ServeStarts, SendsMeta,
         SendsChunk, Sends, ServeSent, ServeEnds, CopyFiles, FileGoes, Drain, FallsSilent,
         LinkBreaks, sessionVars
<1>2. SourceKept' => SourceKept
  <2>1. CASE UNCHANGED sourceVars
    BY <2>1, SourceUnchanged
  <2>2. CASE ~UNCHANGED sourceVars
    <3>1. \/ \E list \in Lists : CopyFiles(list)
          \/ \E f \in File : FileGoes(f)
      BY <2>2 DEF Serves, AcceptFails, CallerStalls, ServeLoads, ServeReads, ServeStarts,
                  SendsMeta, SendsChunk, Sends, ServeSent, ServeEnds, Drain, FallsSilent, LinkBreaks
    <3>2. copies \in Nat /\ (copies' = copies \/ copies' = copies + 1) /\ gone \subseteq gone'
      BY <3>1 DEF CopyFiles, FileGoes, TypeOK
    <3> QED BY <3>2 DEF SourceKept
  <2> QED BY <2>1, <2>2
<1> QED BY <1>1, <1>2, PasteKept

LEMMA PullsPasteInv ==
  ASSUME TypeOK, AnnouncedInv, NEW d \in Dest, NEW e \in Dest, SessionInv(d), PasteInv(d),
         PasteInv(e), Paste(d) \/ Pulls(d) \/ RecvPromise(d)
  PROVE  PasteInv(e)'
<1>1. SourceKept' => SourceKept
  BY SourceUnchanged DEF Paste, Pulls, Dial, DialSucceeds, DialFails, ReadBytes, ReadEnds,
                         ReadFails, RecvPromise, sessionVars
<1>2. CASE e # d
  <2>1. paste'[e] = paste[e] /\ promise'[e] = promise[e]
    <3>1. CASE ReadBytes(d)
      BY <1>2, <3>1, ReadIs DEF ReadBytes, sessionVars
    <3>2. CASE ReadEnds(d)
      BY <1>2, <3>2, NextFileIs DEF ReadEnds, sessionVars
    <3>3. CASE \/ Paste(d) \/ Dial(d) \/ DialSucceeds(d) \/ DialFails(d)
               \/ ReadFails(d) \/ RecvPromise(d)
      BY <1>2, <3>3 DEF Paste, Dial, DialSucceeds, DialFails, ReadFails, RecvPromise,
                        sessionVars, TypeOK
    <3> QED BY <3>1, <3>2, <3>3 DEF Pulls
  <2> QED BY <1>1, <2>1, PasteKept
<1>3. CASE e = d
  <2>1. CASE Paste(d)
    BY <1>3, <2>1, PasteBegins
  <2>2. CASE Dial(d) \/ DialSucceeds(d) \/ DialFails(d)
    <3>1. paste' = paste /\ promise' = promise
      BY <2>2 DEF Dial, DialSucceeds, DialFails, sessionVars
    <3> QED BY <1>1, <3>1, PasteKept
  <2>3. CASE ReadBytes(d)
    BY <1>3, <2>3, PasteReads
  <2>4. CASE ReadEnds(d)
    BY <1>3, <2>4, PasteEnds
  <2>5. CASE ReadFails(d)
    <3>1. /\ paste'[d].at = "error" /\ paste'[d].taken = paste[d].taken /\ promise' = promise
          /\ paste[d].at = "reading"
      BY <2>5 DEF ReadFails, Reading, TypeOK
    <3> QED BY <1>1, <1>3, <3>1 DEF PasteInv
  <2>6. CASE RecvPromise(d)
    <3>1. paste'[d].at = "none"
      BY <2>6 DEF RecvPromise, NoPaste, TypeOK
    <3> QED BY <1>3, <3>1 DEF PasteInv
  <2> QED BY <2>1, <2>2, <2>3, <2>4, <2>5, <2>6 DEF Pulls
<1> QED BY <1>2, <1>3
----------------------------------------------------------------------------
LEMMA TransferInitially ==
  ASSUME Init
  PROVE  TransferInv
<1>1. TypeOK
  <2>1. MaxWire \in Nat /\ Len(<<>>) = 0
    BY FileAssumption
  <2>2. NoPaste \in [at : {"none", "reading", "done", "error"},
                     taken : Seq(Seq(Data \cup {Blank}))]
    <3> DEFINE T == Seq(Data \cup {Blank})
    <3> HIDE DEF T
    <3>1. NoPaste \in [at : {"none", "reading", "done", "error"}, taken : Seq(T)]
      BY DEF NoPaste
    <3> QED BY <3>1 DEF T
  <2> QED BY <2>1, <2>2 DEF Init, TypeOK, Idle
<1>2. ServerInv
  BY DEF Init, ServerInv, Idle
<1>3. AnnouncedInv
  BY DEF Init, AnnouncedInv, Untouched, Fresh, SourceKept
<1>4. ASSUME NEW d \in Dest PROVE SessionInv(d)
  <2>1. wire[d] = <<>> /\ buffers[d] = <<>> /\ received[d] = <<>> /\ ~Serving(d) /\ copied = <<>>
    BY DEF Init, Serving, Idle
  <2>2. <<>> \in Seq(Nat) /\ <<>> \in Seq(File)
    OBVIOUS
  <2>3. Carries(<<>>, <<>>, <<>>, <<>>)
    BY <2>2, CarriesNothing
  <2>4. Holds(<<>>, <<>>, <<>>)
    BY DEF Holds
  <2>5. Transfers(d, <<>>)
    BY <2>1, <2>2, <2>3, <2>4 DEF Transfers
  <2> QED BY <2>1, <2>2, <2>5 DEF SessionInv
<1>5. ASSUME NEW d \in Dest PROVE PasteInv(d)
  BY DEF Init, PasteInv, NoPaste
<1> QED BY <1>1, <1>2, <1>3, <1>4, <1>5 DEF TransferInv

LEMMA TransferInductive ==
  ASSUME TransferInv, [Next]_vars
  PROVE  TransferInv'
<1>1. /\ TypeOK /\ ServerInv /\ AnnouncedInv
      /\ \A d \in Dest : SessionInv(d)
      /\ \A d \in Dest : PasteInv(d)
  BY DEF TransferInv
<1>2. SUFFICES /\ TypeOK' /\ ServerInv' /\ AnnouncedInv'
               /\ \A d \in Dest : SessionInv(d)'
               /\ \A d \in Dest : PasteInv(d)'
  BY DEF TransferInv
<1>3. CASE UNCHANGED vars
  <2>1. TypeOK'
    BY <1>1, <1>3 DEF vars, TypeOK
  <2>2. SourceKept' => SourceKept /\ copied' = copied
    BY <1>3 DEF vars, SourceKept
  <2>3. ServerInv'
    BY <1>1, <1>3, <2>2, ServerKept DEF vars, Fresh
  <2>4. AnnouncedInv'
    BY <1>1, <1>3, <2>2, AnnouncedKept DEF vars, Fresh
  <2>5. \A d \in Dest : SessionInv(d)'
    BY <1>1, <1>3, <2>2, SessionKept DEF vars, Serving
  <2>6. \A d \in Dest : PasteInv(d)'
    BY <1>1, <1>3, <2>2, PasteKept DEF vars
  <2> QED BY <2>1, <2>3, <2>4, <2>5, <2>6
<1>4. CASE \/ \E list \in Lists : CopyFiles(list)
           \/ \E f \in File : FileGoes(f)
  <2>1. TypeOK'
    BY <1>1, <1>4, SourceType
  <2>2. ServerInv'
    BY <1>1, <1>4, SourceServerInv
  <2>3. AnnouncedInv'
    BY <1>1, <1>4, SourceAnnouncedInv
  <2>4. \A d \in Dest : SessionInv(d)'
    BY <1>1, <1>4, <2>1, <2>2, SourceSessionInv
  <2>5. \A d \in Dest : PasteInv(d)'
    BY <1>1, <1>4, ServesPasteInv
  <2> QED BY <2>1, <2>2, <2>3, <2>4, <2>5
<1>5. CASE Serves \/ CallerStalls
  <2>1. TypeOK'
    BY <1>1, <1>5, ServesType
  <2>2. ServerInv'
    BY <1>1, <1>5, ServesServerInv
  <2>3. AnnouncedInv'
    BY <1>1, <1>5, ServesAnnouncedInv
  <2>4. \A d \in Dest : SessionInv(d)'
    BY <1>1, <1>5, <2>1, <2>2, ServesSessionInv
  <2>5. \A d \in Dest : PasteInv(d)'
    BY <1>1, <1>5, ServesPasteInv
  <2> QED BY <2>1, <2>2, <2>3, <2>4, <2>5
<1>6. ASSUME NEW d \in Dest, Paste(d) \/ Pulls(d)
      PROVE  /\ TypeOK' /\ ServerInv' /\ AnnouncedInv'
             /\ \A e \in Dest : SessionInv(e)'
             /\ \A e \in Dest : PasteInv(e)'
  <2>1. TypeOK'
    BY <1>1, <1>6, PullsType
  <2>2. ServerInv'
    BY <1>1, <1>6, PullsServerInv
  <2>3. AnnouncedInv'
    BY <1>1, <1>6, PullsAnnouncedInv
  <2>4. \A e \in Dest : SessionInv(e)'
    BY <1>1, <1>6, PullsSessionInv
  <2>5. \A e \in Dest : PasteInv(e)'
    BY <1>1, <1>6, PullsPasteInv
  <2> QED BY <2>1, <2>2, <2>3, <2>4, <2>5
<1>7. ASSUME NEW d \in Dest, RecvPromise(d) \/ Drain(d) \/ FallsSilent(d) \/ LinkBreaks(d)
      PROVE  /\ TypeOK' /\ ServerInv' /\ AnnouncedInv'
             /\ \A e \in Dest : SessionInv(e)'
             /\ \A e \in Dest : PasteInv(e)'
  <2>1. TypeOK'
    BY <1>1, <1>7, LinksType
  <2>2. ServerInv'
    BY <1>1, <1>7, LinksServerInv
  <2>3. AnnouncedInv'
    BY <1>1, <1>7, LinksAnnouncedInv
  <2>4. \A e \in Dest : SessionInv(e)'
    BY <1>1, <1>7, <2>1, <2>2, LinksSessionInv
  <2>5. \A e \in Dest : PasteInv(e)'
    BY <1>1, <1>7, ServesPasteInv, PullsPasteInv
  <2> QED BY <2>1, <2>2, <2>3, <2>4, <2>5
<1> QED BY <1>3, <1>4, <1>5, <1>6, <1>7 DEF Next

(* TransferInv: the session of every destination transfers one list of files; its
   receiver, the wire and the sender hold the chunks of these in their order,
   and nothing else (fileServeThreadProc, FileSender, FileReceiver). *)
THEOREM TransferInvariant == Spec => []TransferInv
BY TransferInitially, TransferInductive, PTL DEF Spec

(* TypeOK: every state of the source, of the thread that serves and of the
   sessions is of the types that FileSender and FileReceiver work with; no read
   looks beyond a buffer. *)
THEOREM FileTransferTyped == Spec => []TypeOK
<1>1. TransferInv => TypeOK
  BY DEF TransferInv
<1> QED BY <1>1, TransferInvariant, PTL

(* PastesWhatWasPromised: for any machines, files and selections, however the
   links, the sessions and the pastes of others fare, a file that was read to
   its end is the promised one as long as the source keeps its files
   (FileReceiver, readPastedFile). *)
THEOREM PastesKeepThePromise == Spec => []PastesWhatWasPromised
<1>1. ASSUME TransferInv PROVE PastesWhatWasPromised
  <2>1. SUFFICES ASSUME SourceKept, NEW d \in Dest, paste[d].at # "none",
                        NEW i \in 1..Finished(d)
                 PROVE  paste[d].taken[i] = Content(promise[d][i])
    BY DEF PastesWhatWasPromised, PromisesAreKept
  <2> DEFINE n == Len(paste[d].taken)
  <2>2. /\ n \in 1..Len(promise[d])
        /\ \A j \in 1..(n - 1) : paste[d].taken[j] = Content(promise[d][j])
        /\ paste[d].at = "done" => paste[d].taken[n] = Content(promise[d][n])
    BY <1>1, <2>1 DEF TransferInv, PasteInv
  <2>3. i \in 1..(n - 1) \/ (i = n /\ paste[d].at = "done")
    BY <2>2 DEF Finished, Index
  <2> HIDE DEF n
  <2> QED BY <2>2, <2>3
<1> QED BY <1>1, TransferInvariant, PTL
=============================================================================
