------------------------------ MODULE PeerLinks ------------------------------
(***************************************************************************)
(* How two machines come to share a link, and how they lose it: the net    *)
(* thread of each machine dials and accepts (platform/tray_win,            *)
(* netThreadProc; app/connection_service), an inbound socket names its     *)
(* caller and selects the pairing key (app/secure_link), sealed links are  *)
(* handed to the UI thread, and the UI thread promotes, deduplicates and   *)
(* reaps them (app/connection_manager).                                    *)
(*                                                                         *)
(* Each machine has two threads.  The net thread is a loop that dials one  *)
(* peer after the other and then accepts one socket; it listens only while *)
(* it accepts, so a connection is a rendezvous of a dialing and an         *)
(* accepting thread.  The UI thread runs ConnectionManager::poll; each     *)
(* pending link is one step of it, because links of other machines move    *)
(* in between.                                                             *)
(*                                                                         *)
(* A connection is a pair of FIFO queues.  An end that is closed is seen   *)
(* by the other end as the end of the stream after what was sent before,   *)
(* or, when the stack resets the connection, instead of it.  What follows  *)
(* the hellos (heartbeats and the rest of MeshNode) is left to MeshNode;   *)
(* reading it matters here only because it finds the end of the stream.    *)
(***************************************************************************)
EXTENDS Naturals, Sequences, FiniteSets

CONSTANTS
  Peer,         \* the machines
  Conn,         \* bound: the connections that can exist at a time
  Dialable,     \* the peers each machine has an address and a key for
  Paired,       \* the pairs of machines that share a pairing key
  Answering,    \* the machines that may answer at the address recorded for one
  MaxCrashes,   \* bound: how many times a machine crashes
  NoPeer, NoConn

ASSUME LinksAssumption ==
  /\ Dialable \in [Peer -> SUBSET Peer]
  /\ Answering \in [Peer -> SUBSET Peer]
  /\ Paired \subseteq SUBSET Peer
  /\ \A p \in Peer : \A q \in Dialable[p] : {p, q} \in Paired
  /\ NoPeer \notin Peer /\ NoConn \notin Conn
  /\ MaxCrashes \in Nat

VARIABLES
  conn,      \* the connections: who dialed, who accepted, who was meant; or unused
  queue,     \* queue[c][p]: what p has sent on c and the other end has not read
  shut,      \* shut[c]: the machines that have closed their end of c
  eof,       \* eof[p]: the ends of p whose connected_ flag is false
  dialing,   \* the peer the net thread is dialing
  inbound,   \* the accepted socket whose handshake the net thread runs
  handoff,   \* pendingLinks: sealed links on their way to the UI thread
  pending,   \* pending_: links whose hello has not come yet
  todo,      \* the links poll has yet to look at; <<>> outside of it
  polling,   \* the machines whose UI thread is inside poll
  linked,    \* connected_: the link registered for each peer; connectedIds
  crashes

vars == <<conn, queue, shut, eof, dialing, inbound, handoff, pending, todo,
          polling, linked, crashes>>
netVars == <<dialing, inbound, handoff>>
pollVars == <<pending, todo, polling, linked>>

Unused == [dialer |-> NoPeer, acceptor |-> NoPeer, expected |-> NoPeer]
InUse(c) == conn[c] # Unused
Ends(c) == {conn[c].dialer, conn[c].acceptor}
OtherEnd(c, p) == IF p = conn[c].dialer THEN conn[c].acceptor ELSE conn[c].dialer

(* The pair whose key seals c at p: the dialer takes the key of the peer it
   meant to reach, the acceptor the key of the peer that named itself. *)
KeyOf(c, p) == IF p = conn[c].dialer THEN {p, conn[c].expected} ELSE {p, conn[c].dialer}

(* The link is registered under q at p: also what connectedIds says. *)
IsConnected(p, q) == linked[p][q] # NoConn

TypeOK ==
  /\ conn \in [Conn -> [dialer : Peer \cup {NoPeer}, acceptor : Peer \cup {NoPeer},
                        expected : Peer \cup {NoPeer}]]
  /\ queue \in [Conn -> [Peer -> Seq({"hint", "hello"})]]
  /\ shut \in [Conn -> SUBSET Peer]
  /\ eof \in [Peer -> SUBSET Conn]
  /\ dialing \in [Peer -> Peer \cup {NoPeer}]
  /\ inbound \in [Peer -> Conn \cup {NoConn}]
  /\ handoff \in [Peer -> Seq(Conn)] /\ pending \in [Peer -> Seq(Conn)]
  /\ todo \in [Peer -> Seq(Conn)]
  /\ polling \in SUBSET Peer
  /\ linked \in [Peer -> [Peer -> Conn \cup {NoConn}]]
  /\ crashes \in 0..MaxCrashes
  /\ \A p \in Peer : \A c \in eof[p] : InUse(c) /\ p \in Ends(c) \ shut[c]

Init ==
  /\ conn = [c \in Conn |-> Unused]
  /\ queue = [c \in Conn |-> [p \in Peer |-> <<>>]]
  /\ shut = [c \in Conn |-> {}]
  /\ eof = [p \in Peer |-> {}]
  /\ dialing = [p \in Peer |-> NoPeer]
  /\ inbound = [p \in Peer |-> NoConn]
  /\ handoff = [p \in Peer |-> <<>>]
  /\ pending = [p \in Peer |-> <<>>]
  /\ todo = [p \in Peer |-> <<>>]
  /\ polling = {}
  /\ linked = [p \in Peer |-> [q \in Peer |-> NoConn]]
  /\ crashes = 0
----------------------------------------------------------------------------
(* Closing ends.  A connection closed at both ends is gone, and its number is
   free again. *)

CloseEnds(p, cs) ==
  LET gone == {c \in cs : shut[c] \cup {p} = Ends(c)}
  IN  /\ conn' = [c \in Conn |-> IF c \in gone THEN Unused ELSE conn[c]]
      /\ queue' = [c \in Conn |-> IF c \in gone THEN [q \in Peer |-> <<>>] ELSE queue[c]]
      /\ shut' = [c \in Conn |-> CASE c \in gone -> {}
                                   [] c \in cs \ gone -> shut[c] \cup {p}
                                   [] OTHER -> shut[c]]

Drop(p, c) == CloseEnds(p, {c}) /\ UNCHANGED eof

(* The stack resets a connection one end of which was closed. *)
Reset(c, p) ==
  /\ p \in shut[c]
  /\ queue[c][p] # <<>>
  /\ queue' = [queue EXCEPT ![c][p] = <<>>]
  /\ UNCHANGED <<conn, shut, eof, netVars, pollVars, crashes>>

(* The application ends, or the machine does, and it starts again. *)
Owned(p) == {c \in Conn : InUse(c) /\ p \in Ends(c) \ shut[c]}

Restart(p) ==
  /\ crashes < MaxCrashes
  /\ crashes' = crashes + 1
  /\ CloseEnds(p, Owned(p))
  /\ eof' = [eof EXCEPT ![p] = {}]
  /\ dialing' = [dialing EXCEPT ![p] = NoPeer]
  /\ inbound' = [inbound EXCEPT ![p] = NoConn]
  /\ handoff' = [handoff EXCEPT ![p] = <<>>]
  /\ pending' = [pending EXCEPT ![p] = <<>>]
  /\ todo' = [todo EXCEPT ![p] = <<>>]
  /\ polling' = polling \ {p}
  /\ linked' = [linked EXCEPT ![p] = [q \in Peer |-> NoConn]]
----------------------------------------------------------------------------
(* The net thread. *)

NetIdle(p) == dialing[p] = NoPeer /\ inbound[p] = NoConn

(* The next peer of the list that is not connected; the thread then works on
   the dial for as long as it takes, and does not look again. *)
StartDial(p, q) ==
  /\ NetIdle(p)
  /\ q \in Dialable[p]
  /\ ~IsConnected(p, q)
  /\ dialing' = [dialing EXCEPT ![p] = q]
  /\ UNCHANGED <<conn, queue, shut, eof, inbound, handoff, pollVars, crashes>>

DialFails(p) ==
  /\ dialing[p] # NoPeer
  /\ dialing' = [dialing EXCEPT ![p] = NoPeer]
  /\ UNCHANGED <<conn, queue, shut, eof, inbound, handoff, pollVars, crashes>>

(* The machine r that answers at the address of the dialed peer accepts.  The
   dialer sends its id in the clear, seals the link (secureOutbound) and hands
   it over; the acceptor starts an InboundHandshake. *)
Connect(p, r, c) ==
  /\ dialing[p] # NoPeer
  /\ r \in Answering[dialing[p]] \ {p}
  /\ NetIdle(r)
  /\ ~InUse(c)
  /\ conn' = [conn EXCEPT ![c] = [dialer |-> p, acceptor |-> r, expected |-> dialing[p]]]
  /\ queue' = [queue EXCEPT ![c][p] = <<"hint">>]
  /\ dialing' = [dialing EXCEPT ![p] = NoPeer]
  /\ handoff' = [handoff EXCEPT ![p] = Append(@, c)]
  /\ inbound' = [inbound EXCEPT ![r] = c]
  /\ UNCHANGED <<shut, eof, pollVars, crashes>>

(* InboundHandshake::poll has read the hint and holds a key for that peer. *)
HandshakeOk(r) ==
  LET c == inbound[r]
      p == conn[c].dialer
  IN  /\ c # NoConn
      /\ queue[c][p] # <<>> /\ Head(queue[c][p]) = "hint"
      /\ {p, r} \in Paired
      /\ queue' = [queue EXCEPT ![c][p] = Tail(@)]
      /\ handoff' = [handoff EXCEPT ![r] = Append(@, c)]
      /\ inbound' = [inbound EXCEPT ![r] = NoConn]
      /\ UNCHANGED <<conn, shut, eof, dialing, pollVars, crashes>>

(* Mutant: the handshake is forgotten but its socket stays open. *)
HandshakeFails_LeavesOpen(r) ==
  /\ inbound[r] # NoConn
  /\ inbound' = [inbound EXCEPT ![r] = NoConn]
  /\ UNCHANGED <<conn, queue, shut, eof, dialing, handoff, pollVars, crashes>>

(* No key, the end of the stream, or no hint within the time allowed: the
   socket goes with the handshake. *)
HandshakeFails(r) ==
  LET c == inbound[r]
  IN  /\ c # NoConn
      /\ inbound' = [inbound EXCEPT ![r] = NoConn]
      /\ Drop(r, c)
      /\ UNCHANGED <<dialing, handoff, pollVars, crashes>>
----------------------------------------------------------------------------
(* The UI thread: pumpMesh and ConnectionManager::poll. *)

(* addOutgoing, addIncoming: each link handed over is announced on and joins
   the pending ones, which poll then looks at in turn. *)
PumpRegister(p) ==
  /\ p \notin polling
  /\ polling' = polling \cup {p}
  /\ queue' = [c \in Conn |-> IF \E i \in DOMAIN handoff[p] : handoff[p][i] = c
                              THEN [queue[c] EXCEPT ![p] = Append(@, "hello")]
                              ELSE queue[c]]
  /\ todo' = [todo EXCEPT ![p] = pending[p] \o handoff[p]]
  /\ pending' = [pending EXCEPT ![p] = <<>>]
  /\ handoff' = [handoff EXCEPT ![p] = <<>>]
  /\ UNCHANGED <<conn, shut, eof, dialing, inbound, linked, crashes>>

(* What poll makes of the next pending link.  The hello opens only under the
   key it was sealed with. *)
Hello(c, p) == queue[c][OtherEnd(c, p)] # <<>>
EndOfStream(c, p) == ~Hello(c, p) /\ OtherEnd(c, p) \in shut[c]
Authentic(c, p) == KeyOf(c, p) = KeyOf(c, OtherEnd(c, p))
WhomWeDialed(c, p) == p = conn[c].dialer => OtherEnd(c, p) = conn[c].expected

Promotable(p, c) ==
  /\ Hello(c, p)
  /\ Authentic(c, p)
  /\ WhomWeDialed(c, p)
  /\ ~IsConnected(p, OtherEnd(c, p))

PollWaits(p) ==
  LET c == Head(todo[p])
  IN  /\ todo[p] # <<>>
      /\ ~Hello(c, p) /\ ~EndOfStream(c, p)
      /\ todo' = [todo EXCEPT ![p] = Tail(@)]
      /\ pending' = [pending EXCEPT ![p] = Append(@, c)]
      /\ UNCHANGED <<conn, queue, shut, eof, netVars, polling, linked, crashes>>

(* Mutant: any message on a link proves it is the peer the link was made for. *)
PollPromotes_AsDialed(p) ==
  LET c == Head(todo[p])
      q == IF p = conn[c].dialer THEN conn[c].expected ELSE conn[c].dialer
  IN  /\ todo[p] # <<>>
      /\ Hello(c, p) /\ ~IsConnected(p, q)
      /\ todo' = [todo EXCEPT ![p] = Tail(@)]
      /\ queue' = [queue EXCEPT ![c][OtherEnd(c, p)] = Tail(@)]
      /\ linked' = [linked EXCEPT ![p][q] = c]
      /\ UNCHANGED <<conn, shut, eof, netVars, pending, polling, crashes>>

PollPromotes(p) ==
  LET c == Head(todo[p])
      q == OtherEnd(c, p)
  IN  /\ todo[p] # <<>>
      /\ Promotable(p, c)
      /\ todo' = [todo EXCEPT ![p] = Tail(@)]
      /\ queue' = [queue EXCEPT ![c][q] = Tail(@)]
      /\ linked' = [linked EXCEPT ![p][q] = c]
      /\ UNCHANGED <<conn, shut, eof, netVars, pending, polling, crashes>>

(* Mutant: a link that is dropped is not closed. *)
PollDrops_LeavesOpen(p) ==
  LET c == Head(todo[p])
  IN  /\ todo[p] # <<>>
      /\ (Hello(c, p) /\ ~Promotable(p, c)) \/ EndOfStream(c, p)
      /\ todo' = [todo EXCEPT ![p] = Tail(@)]
      /\ UNCHANGED <<conn, queue, shut, eof, netVars, pending, polling, linked, crashes>>

PollDrops(p) ==
  LET c == Head(todo[p])
  IN  /\ todo[p] # <<>>
      /\ (Hello(c, p) /\ ~Promotable(p, c)) \/ EndOfStream(c, p)
      /\ todo' = [todo EXCEPT ![p] = Tail(@)]
      /\ Drop(p, c)
      /\ UNCHANGED <<netVars, pending, polling, linked, crashes>>

(* Mutant: nothing is reaped. *)
PollFinish_NoReap(p) ==
  LET kept == {linked[p][q] : q \in Peer} \ {NoConn}
  IN  /\ p \in polling
      /\ todo[p] = <<>>
      /\ polling' = polling \ {p}
      /\ eof' = [eof EXCEPT ![p] = @ \cup {c \in kept : EndOfStream(c, p)}]
      /\ UNCHANGED <<conn, queue, shut, netVars, pending, todo, linked, crashes>>

(* Mutant: the flags of reaped links outlive them. *)
PollFinish_KeepsFlags(p) ==
  LET reaped == {c \in eof[p] : \E q \in Peer : linked[p][q] = c}
      kept == {linked[p][q] : q \in Peer} \ {NoConn}
  IN  /\ p \in polling
      /\ todo[p] = <<>>
      /\ polling' = polling \ {p}
      /\ linked' = [linked EXCEPT ![p] =
                      [q \in Peer |-> IF @[q] \in reaped THEN NoConn ELSE @[q]]]
      /\ CloseEnds(p, reaped)
      /\ eof' = [eof EXCEPT ![p] = @ \cup {c \in kept : EndOfStream(c, p)}]
      /\ UNCHANGED <<netVars, pending, todo, crashes>>

(* The rest of poll: links whose end was found in an earlier poll are reaped,
   then MeshNode::poll reads the others, which finds the ends of streams. *)
PollFinish(p) ==
  LET reaped == {c \in eof[p] : \E q \in Peer : linked[p][q] = c}
      kept == {linked[p][q] : q \in Peer} \ (reaped \cup {NoConn})
  IN  /\ p \in polling
      /\ todo[p] = <<>>
      /\ polling' = polling \ {p}
      /\ linked' = [linked EXCEPT ![p] =
                      [q \in Peer |-> IF @[q] \in reaped THEN NoConn ELSE @[q]]]
      /\ CloseEnds(p, reaped)
      /\ eof' = [eof EXCEPT ![p] = (@ \ reaped) \cup {c \in kept : EndOfStream(c, p)}]
      /\ UNCHANGED <<netVars, pending, todo, crashes>>

Others ==
  \E p \in Peer :
    \/ DialFails(p)
    \/ \E r \in Peer, c \in Conn : Connect(p, r, c)
    \/ HandshakeOk(p) \/ HandshakeFails(p)
    \/ PumpRegister(p) \/ PollWaits(p) \/ PollPromotes(p) \/ PollDrops(p)
    \/ PollFinish(p) \/ Restart(p)
    \/ \E c \in Conn : Reset(c, p)

Next == Others \/ \E p, q \in Peer : StartDial(p, q)

Spec == Init /\ [][Next]_vars

(* The cool-down between two dials of a peer, three seconds, when the threads
   are not stalled for that long: an earlier dial has come to nothing, or its
   connection is registered at every end that is still open. *)
CooledDown(p, q) ==
  \A c \in Conn : conn[c].dialer = p /\ conn[c].expected = q =>
    \A r \in Ends(c) \ shut[c] : \E x \in Peer : linked[r][x] = c

CooledDial(p, q) == CooledDown(p, q) /\ StartDial(p, q)

PromptSpec == Init /\ [][Others \/ \E p, q \in Peer : CooledDial(p, q)]_vars

(* Both loops of a machine run for as long as it does; a machine listens most
   of the time, so a peer that keeps dialing it gets through in the end (a
   recorded address that went stale is replaced, see Discovery), and the hint
   of the dialer arrives in time again and again. *)
NetFairness == \A p \in Peer :
  /\ \A q \in Dialable[p] :
       SF_vars(CooledDial(p, q)) /\ SF_vars(\E c \in Conn : dialing[p] = q /\ Connect(p, q, c))
  /\ SF_vars(HandshakeOk(p)) /\ WF_vars(HandshakeFails(p))
PumpFairness == \A p \in Peer :
  WF_vars(\/ PumpRegister(p) \/ PollWaits(p) \/ PollPromotes(p) \/ PollDrops(p)
          \/ PollFinish(p))

FairPromptSpec == PromptSpec /\ NetFairness /\ PumpFairness
----------------------------------------------------------------------------
(* Properties *)

(* A link registered under a peer's id ends at that peer, whoever answered at
   the address that was dialed (connection_manager.cpp, poll: the hello must
   open under the key of the peer and carry the id that was dialed). *)
RegisteredLinkIsGenuine ==
  \A p, q \in Peer : IsConnected(p, q) =>
    InUse(linked[p][q]) /\ Ends(linked[p][q]) = {p, q}

(* Every open end of a connection has exactly one owner, and nobody owns an
   end that is closed: a socket is neither leaked nor closed under somebody
   who still uses it, on its way from the accepting thread through the
   handshake, the hand-over and the pending list to the registered links
   (the unique_ptr moves of secure_link, netThreadProc and poll). *)
Occurrences(s, c) == Cardinality({i \in DOMAIN s : s[i] = c})
Owners(p, c) ==
  (IF inbound[p] = c THEN 1 ELSE 0)
    + Occurrences(handoff[p], c) + Occurrences(pending[p], c) + Occurrences(todo[p], c)
    + Cardinality({q \in Peer : linked[p][q] = c})

EachOpenEndHasOneOwner ==
  \A p \in Peer, c \in Conn : Owners(p, c) = IF c \in Owned(p) THEN 1 ELSE 0

(* A link whose other end is closed does not stay registered: the mesh may
   redial (connection_manager.cpp, "Reap connections the transport reports as
   closed"). *)
DeadLink(p, q) ==
  IsConnected(p, q) /\ OtherEnd(linked[p][q], p) \in shut[linked[p][q]]
DeadLinkIsReaped ==
  \A p, q \in Peer : p # q /\ {p, q} \in Paired => []<>~DeadLink(p, q)

(* Once machines have stopped crashing, two paired machines of which one dials
   the other are linked, at both ends by the same connection, and stay so;
   although on the way a fresh link may be dropped in favour of a dead one
   that was not found out yet.  This takes the handshakes of the net thread to
   end: the blocking reads of connect and wsAcceptOne have no time-out. *)
Linked(p, q) == IsConnected(p, q) /\ linked[p][q] = linked[q][p]
EventuallyLinked ==
  \A p \in Peer : \A q \in Dialable[p] : <>[]Linked(p, q)

(* "A duplicate that races an in-flight link is dropped by ConnectionManager's
   dedup, so re-dialing is safe" (connection_service.cpp): two machines that
   both registered a link have one that is open at both ends. *)
OpenAtBothEnds(p, q) == {c \in Conn : InUse(c) /\ Ends(c) = {p, q} /\ shut[c] = {}}
DedupKeepsALink ==
  \A p, q \in Peer :
    IsConnected(p, q) /\ IsConnected(q, p) /\ crashes = 0
      => \E c \in {linked[p][q], linked[q][p]} : c \in OpenAtBothEnds(p, q)
=============================================================================
