----------------------------- MODULE FrameStream -----------------------------
(***************************************************************************)
(* One connection as a Transport (net/transport.h): messages become        *)
(* WebSocket frames (net/ws_frame), the frames a stream of bytes that the  *)
(* operating system takes and gives in pieces, and the pieces frames again *)
(* (net/frame_assembler).  The three platforms share this logic            *)
(* (platform/ws_transport_win, _posix, _mac: send, sendAll, recv, close).  *)
(*                                                                         *)
(* A byte is a small number and the header of a frame one byte that says   *)
(* how many follow; what a payload byte says, should it be taken for a     *)
(* header, is its value.  Masking is left out: it is undone by the frame   *)
(* that it came with.  The thread that owns an end is inside one call at a *)
(* time; send is split where it waits for room, because the other end      *)
(* runs meanwhile.                                                         *)
(***************************************************************************)
EXTENDS Naturals, Sequences, SequencesExt

CONSTANTS
  Message,     \* the messages that are sent: sequences of bytes
  MaxPayload,  \* kMaxPayload: a header that says more is a protocol error
  RecvCap,     \* the size of the buffer recv is given
  Room,        \* how many bytes the operating system holds in each direction
  MaxSends     \* bound: how many messages each end sends

Byte == 0..(MaxPayload + 1)

ASSUME StreamAssumption ==
  /\ MaxPayload \in Nat /\ RecvCap \in Nat \ {0} /\ Room \in Nat \ {0} /\ MaxSends \in Nat
  /\ \A m \in Message : m \in Seq(Byte) /\ Len(m) \in 1..MaxPayload

VARIABLES
  connected,  \* connected_, at each end
  shut,       \* the ends that are closed
  out,        \* what sendAll has yet to write; <<>> outside of send
  wire,       \* wire[e]: the bytes written at e and not yet read at the other end
  buf,        \* the assembler's buf_
  sent,       \* history: the messages send was called with
  got,        \* history: what recv returned
  gaveUp,     \* history: the ends where sendAll failed before its last byte
  discarded   \* history: the ends whose bytes the stack threw away

vars == <<connected, shut, out, wire, buf, sent, got, gaveUp, discarded>>

End == {1, 2}
Other(e) == 3 - e

TypeOK ==
  /\ connected \in [End -> BOOLEAN]
  /\ shut \subseteq End
  /\ out \in [End -> Seq(Byte)]
  /\ wire \in [End -> Seq(Byte)] /\ \A e \in End : Len(wire[e]) <= Room
  /\ buf \in [End -> Seq(Byte)]
  /\ sent \in [End -> Seq(Message)] /\ got \in [End -> Seq(Seq(Byte))]
  /\ gaveUp \subseteq End /\ discarded \subseteq End
  /\ \A e \in shut : ~connected[e] /\ out[e] = <<>>

Init ==
  /\ connected = [e \in End |-> TRUE]
  /\ shut = {}
  /\ out = [e \in End |-> <<>>]
  /\ wire = [e \in End |-> <<>>]
  /\ buf = [e \in End |-> <<>>]
  /\ sent = [e \in End |-> <<>>]
  /\ got = [e \in End |-> <<>>]
  /\ gaveUp = {}
  /\ discarded = {}
----------------------------------------------------------------------------
(* Frames. *)

wsEncodeFrame(m) == <<Len(m)>> \o m

(* wsDecodeFrame returns the length of a frame, 0 while it is not complete,
   -1 if it is longer than any frame may be. *)
Complete(b) == b # <<>> /\ Head(b) <= MaxPayload /\ Len(b) > Head(b)
Broken(b) == b # <<>> /\ Head(b) > MaxPayload
Payload(b) == SubSeq(b, 2, Head(b) + 1)
Rest(b) == SubSeq(b, Head(b) + 2, Len(b))

(* What WsFrameAssembler::next leaves of a buffer without a complete frame. *)
Kept(b) == IF Broken(b) THEN <<>> ELSE b

(* copyFrame: what does not fit in the caller's buffer is cut off. *)
Copied(m) == SubSeq(m, 1, IF Len(m) <= RecvCap THEN Len(m) ELSE RecvCap)
----------------------------------------------------------------------------
(* send *)

Send(e, m) ==
  /\ connected[e] /\ out[e] = <<>>
  /\ Len(sent[e]) < MaxSends
  /\ out' = [out EXCEPT ![e] = wsEncodeFrame(m)]
  /\ sent' = [sent EXCEPT ![e] = Append(@, m)]
  /\ UNCHANGED <<connected, shut, wire, buf, got, gaveUp, discarded>>

(* The operating system takes as much as it has room for. *)
Write(e) ==
  /\ Other(e) \notin shut
  /\ \E n \in 1..Len(out[e]) :
       /\ Len(wire[e]) + n <= Room
       /\ wire' = [wire EXCEPT ![e] = @ \o SubSeq(out[e], 1, n)]
       /\ out' = [out EXCEPT ![e] = SubSeq(@, n + 1, Len(@))]
  /\ UNCHANGED <<connected, shut, buf, sent, got, gaveUp, discarded>>

(* Mutant: sendAll waits for room without a limit. *)
GiveUp_WhenClosed(e) ==
  /\ out[e] # <<>>
  /\ Other(e) \in shut
  /\ out' = [out EXCEPT ![e] = <<>>]
  /\ gaveUp' = gaveUp \cup {e}
  /\ UNCHANGED <<connected, shut, wire, buf, sent, got, discarded>>

(* There was no room for 100 milliseconds, or the connection was reset: send
   returns false, what was written stays written and connected_ stays true. *)
GiveUp(e) ==
  /\ out[e] # <<>>
  /\ Len(wire[e]) = Room \/ Other(e) \in shut
  /\ out' = [out EXCEPT ![e] = <<>>]
  /\ gaveUp' = gaveUp \cup {e}
  /\ UNCHANGED <<connected, shut, wire, buf, sent, got, discarded>>
----------------------------------------------------------------------------
(* recv.  A frame without payload is consumed, but its length, 0, says that
   nothing has come. *)

Deliver(e, b) ==
  /\ got' = [got EXCEPT ![e] = IF Payload(b) = <<>> THEN @ ELSE Append(@, Copied(Payload(b)))]
  /\ buf' = [buf EXCEPT ![e] = Rest(b)]

(* Mutant: the buffer is looked at only when bytes have come. *)
RecvBuffered_AfterRead(e) ==
  /\ connected[e] /\ out[e] = <<>>
  /\ wire[Other(e)] # <<>>
  /\ Complete(buf[e])
  /\ Deliver(e, buf[e])
  /\ UNCHANGED <<connected, shut, out, wire, sent, gaveUp, discarded>>

RecvBuffered(e) ==
  /\ connected[e] /\ out[e] = <<>>
  /\ Complete(buf[e])
  /\ Deliver(e, buf[e])
  /\ UNCHANGED <<connected, shut, out, wire, sent, gaveUp, discarded>>

(* Mutant: the bytes after the first frame of a read are forgotten. *)
RecvReads_FrameOnly(e) ==
  LET o == Other(e)
  IN  /\ connected[e] /\ out[e] = <<>> /\ ~Complete(buf[e])
      /\ \E n \in 1..Len(wire[o]) :
           LET fed == Kept(buf[e]) \o SubSeq(wire[o], 1, n)
           IN  /\ wire' = [wire EXCEPT ![o] = SubSeq(@, n + 1, Len(@))]
               /\ IF Complete(fed)
                  THEN Deliver(e, SubSeq(fed, 1, Head(fed) + 1))
                  ELSE buf' = [buf EXCEPT ![e] = Kept(fed)] /\ UNCHANGED got
      /\ UNCHANGED <<connected, shut, out, sent, gaveUp, discarded>>

RecvReads(e) ==
  LET o == Other(e)
  IN  /\ connected[e] /\ out[e] = <<>> /\ ~Complete(buf[e])
      /\ \E n \in 1..Len(wire[o]) :
           LET fed == Kept(buf[e]) \o SubSeq(wire[o], 1, n)
           IN  /\ wire' = [wire EXCEPT ![o] = SubSeq(@, n + 1, Len(@))]
               /\ IF Complete(fed)
                  THEN Deliver(e, fed)
                  ELSE buf' = [buf EXCEPT ![e] = Kept(fed)] /\ UNCHANGED got
      /\ UNCHANGED <<connected, shut, out, sent, gaveUp, discarded>>

(* Nothing to read: a buffer that cannot be a frame is thrown away all the same. *)
RecvNothing(e) ==
  /\ connected[e] /\ out[e] = <<>> /\ Broken(buf[e])
  /\ wire[Other(e)] = <<>> /\ Other(e) \notin shut
  /\ buf' = [buf EXCEPT ![e] = <<>>]
  /\ UNCHANGED <<connected, shut, out, wire, sent, got, gaveUp, discarded>>

(* Mutant: the end of the stream is looked for before the buffer. *)
RecvEnds_First(e) ==
  /\ connected[e] /\ out[e] = <<>>
  /\ wire[Other(e)] = <<>> /\ Other(e) \in shut
  /\ connected' = [connected EXCEPT ![e] = FALSE]
  /\ buf' = [buf EXCEPT ![e] = Kept(@)]
  /\ UNCHANGED <<shut, out, wire, sent, got, gaveUp, discarded>>

(* Mutant: that no bytes have come for now is taken for the end of the stream. *)
RecvEnds_WhenIdle(e) ==
  /\ connected[e] /\ out[e] = <<>> /\ ~Complete(buf[e])
  /\ wire[Other(e)] = <<>>
  /\ connected' = [connected EXCEPT ![e] = FALSE]
  /\ buf' = [buf EXCEPT ![e] = Kept(@)]
  /\ UNCHANGED <<shut, out, wire, sent, got, gaveUp, discarded>>

(* The other end was closed, and all it wrote has been read. *)
RecvEnds(e) ==
  /\ connected[e] /\ out[e] = <<>> /\ ~Complete(buf[e])
  /\ wire[Other(e)] = <<>> /\ Other(e) \in shut
  /\ connected' = [connected EXCEPT ![e] = FALSE]
  /\ buf' = [buf EXCEPT ![e] = Kept(@)]
  /\ UNCHANGED <<shut, out, wire, sent, got, gaveUp, discarded>>
----------------------------------------------------------------------------
(* Mutant: connected_ survives the close. *)
Close_KeepsFlag(e) ==
  /\ e \notin shut /\ out[e] = <<>>
  /\ shut' = shut \cup {e}
  /\ UNCHANGED <<connected, out, wire, buf, sent, got, gaveUp, discarded>>

(* close: by the owner of the end, at any time. *)
Close(e) ==
  /\ e \notin shut /\ out[e] = <<>>
  /\ shut' = shut \cup {e}
  /\ connected' = [connected EXCEPT ![e] = FALSE]
  /\ UNCHANGED <<out, wire, buf, sent, got, gaveUp, discarded>>

(* What a closed end wrote may be lost to a reset of the connection. *)
Reset(e) ==
  /\ e \in shut /\ wire[e] # <<>>
  /\ wire' = [wire EXCEPT ![e] = <<>>]
  /\ discarded' = discarded \cup {e}
  /\ UNCHANGED <<connected, shut, out, buf, sent, got, gaveUp>>

Recv(e) == RecvBuffered(e) \/ RecvReads(e) \/ RecvNothing(e) \/ RecvEnds(e)

Next == \E e \in End :
  \/ \E m \in Message : Send(e, m)
  \/ Write(e) \/ GiveUp(e) \/ Recv(e) \/ Close(e) \/ Reset(e)

Spec == Init /\ [][Next]_vars

(* send does not return before it has written everything or given up, and the
   owner of an end calls recv for as long as it keeps the end. *)
FairSpec == Spec /\ \A e \in End :
  WF_vars(Write(e)) /\ WF_vars(GiveUp(e)) /\ WF_vars(Recv(e))
----------------------------------------------------------------------------
(* Properties *)

CopiesOf(messages) == [i \in DOMAIN messages |-> Copied(messages[i])]

(* However the stream is cut into pieces, the other end receives the messages in
   the order of the sends, each one as it was and once, as long as no send has
   failed (ws_transport send and recv, WsFrameAssembler::next). *)
InOrderAndWhole ==
  \A e \in End \ gaveUp : IsPrefix(got[Other(e)], CopiesOf(sent[e]))

(* An end that finds the other one closed has received everything that was sent
   before, unless the connection was reset: no frame is left in the assembler
   (recv, its order of assembler, socket and end of the stream). *)
NothingLostAtTheEnd ==
  \A e \in shut \ (gaveUp \cup discarded) :
    ~connected[Other(e)] /\ Other(e) \notin shut => got[Other(e)] = CopiesOf(sent[e])

(* Frames in a stream of bytes implement the interface of messages (net/
   transport.h): whatever way the bytes are cut, a step takes the next message or
   none, and the end of the stream is found after the last one. *)
Transport == INSTANCE MessageTransport WITH
               Cap <- RecvCap, up <- connected, closed <- shut, failed <- gaveUp, cut <- discarded

ImplementsTransport == Transport!TSpec

(* Two ends that write to each other while neither reads do not wait for ever
   (sendAll, its bounded wait). *)
SendsEnd == \A e \in End : []<>(out[e] = <<>>)

(* What was sent on a connection that stays up arrives without anything more
   having to be sent (recv, the assembler before the socket). *)
EverythingArrives ==
  [](gaveUp = {} /\ \A e \in End : connected[e])
    => <>[](\A e \in End : got[Other(e)] = CopiesOf(sent[e]))

(* "Receive one whole message into buf (up to cap bytes)" (net/transport.h): what
   recv returns is a message that was sent. *)
ReceivesWholeMessages ==
  \A e \in End : ToSet(got[Other(e)]) \subseteq ToSet(CopiesOf(sent[e]))
=============================================================================
