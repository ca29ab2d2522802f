---------------------------- MODULE ClipboardMesh ----------------------------
(***************************************************************************)
(* The shared clipboard: each machine announces what is copied on it       *)
(* (platform/tray_win, WM_CLIPBOARDUPDATE; MeshNode::onLocalClipboardChange *)
(* and its ClipboardUpdate handler) and keeps from announcing again what a *)
(* peer sent (core/clipboard_sync).                                        *)
(*                                                                         *)
(* The operating system posts one notification per change to the message   *)
(* queue of the UI thread; the handler reads whatever the clipboard holds  *)
(* by then.  A poll may write several updates of peers before the first of *)
(* their notifications is handled.  Texts stand for their hashes.          *)
(***************************************************************************)
EXTENDS Naturals, Sequences

CONSTANTS
  Peer,
  Text,        \* the texts that are copied
  Excluded,    \* those a password manager marks as not to be monitored
  MaxCopies,   \* bound: how often users copy
  NoText

ASSUME ClipboardAssumption ==
  Excluded \subseteq Text /\ NoText \notin Text /\ MaxCopies \in Nat

VARIABLES
  clip,      \* what the clipboard of the machine holds
  notices,   \* notifications posted and not yet handled
  pending,   \* pendingRemoteHash_, or NoText while hasPending_ is false
  chan,      \* chan[p][q]: the updates on the way from p to q
  copies,
  paced      \* history: every copy was made while nothing was under way, and no
             \* access to a clipboard was refused

vars == <<clip, notices, pending, chan, copies, paced>>

TypeOK ==
  /\ clip \in [Peer -> Text \cup {NoText}]
  /\ notices \in [Peer -> Nat]
  /\ pending \in [Peer -> Text \cup {NoText}]
  /\ chan \in [Peer -> [Peer -> Seq(Text)]]
  /\ copies \in 0..MaxCopies
  /\ paced \in BOOLEAN

Init ==
  /\ clip = [p \in Peer |-> NoText]
  /\ notices = [p \in Peer |-> 0]
  /\ pending = [p \in Peer |-> NoText]
  /\ chan = [p \in Peer |-> [q \in Peer |-> <<>>]]
  /\ copies = 0
  /\ paced = TRUE
----------------------------------------------------------------------------
Quiet == \A p, q \in Peer : chan[p][q] = <<>>
Settled == Quiet /\ \A p \in Peer : notices[p] = 0

Write(p, text) ==
  /\ clip' = [clip EXCEPT ![p] = text]
  /\ notices' = [notices EXCEPT ![p] = @ + 1]

UserCopies(p, text) ==
  /\ copies < MaxCopies
  /\ copies' = copies + 1
  /\ paced' = (paced /\ Settled)
  /\ Write(p, text)
  /\ UNCHANGED <<pending, chan>>

(* Mutant: the remote text is not remembered. *)
noteAppliedRemote_Forgets(p, text) == pending' = pending

noteAppliedRemote(p, text) == pending' = [pending EXCEPT ![p] = text]

(* The ClipboardUpdate handler. *)
RecvUpdate(p, q) ==
  LET text == Head(chan[q][p])
  IN  /\ chan[q][p] # <<>>
      /\ chan' = [chan EXCEPT ![q][p] = Tail(@)]
      /\ noteAppliedRemote(p, text)
      /\ Write(p, text)
      /\ UNCHANGED <<copies, paced>>

(* The same while another program holds the clipboard open: the write fails. *)
RecvUpdateBlocked(p, q) ==
  /\ chan[q][p] # <<>>
  /\ chan' = [chan EXCEPT ![q][p] = Tail(@)]
  /\ noteAppliedRemote(p, Head(chan[q][p]))
  /\ paced' = FALSE
  /\ UNCHANGED <<clip, notices, copies>>

Broadcast(p, text) ==
  chan' = [chan EXCEPT ![p] =
             [q \in Peer |-> IF q = p THEN chan[p][q] ELSE Append(chan[p][q], text)]]

(* shouldBroadcastLocalChange: the answer; pending_ is consumed either way. *)
shouldBroadcastLocalChange(p, text) == pending[p] # text

(* Mutant: the echo that was suppressed is not taken off the books. *)
ClipboardUpdate_KeepsPending(p) ==
  /\ notices[p] > 0
  /\ notices' = [notices EXCEPT ![p] = @ - 1]
  /\ IF clip[p] \in Excluded \/ ~shouldBroadcastLocalChange(p, clip[p])
     THEN UNCHANGED chan
     ELSE Broadcast(p, clip[p])
  /\ UNCHANGED <<clip, pending, copies, paced>>

(* WM_CLIPBOARDUPDATE. *)
ClipboardUpdate(p) ==
  /\ notices[p] > 0
  /\ notices' = [notices EXCEPT ![p] = @ - 1]
  /\ IF clip[p] \in Excluded
     THEN UNCHANGED <<pending, chan>>
     ELSE /\ pending' = [pending EXCEPT ![p] = NoText]
          /\ IF shouldBroadcastLocalChange(p, clip[p])
             THEN Broadcast(p, clip[p])
             ELSE UNCHANGED chan
  /\ UNCHANGED <<clip, copies, paced>>

(* The same while another program holds the clipboard open: nothing is read. *)
ClipboardUpdateBlocked(p) ==
  /\ notices[p] > 0
  /\ notices' = [notices EXCEPT ![p] = @ - 1]
  /\ paced' = FALSE
  /\ UNCHANGED <<clip, pending, chan, copies>>

Next ==
  \/ \E p \in Peer : ClipboardUpdate(p) \/ ClipboardUpdateBlocked(p)
  \/ \E p, q \in Peer : RecvUpdate(p, q) \/ RecvUpdateBlocked(p, q)
  \/ \E p \in Peer, text \in Text : UserCopies(p, text)

Spec == Init /\ [][Next]_vars

(* Both message loops run for as long as the application does. *)
FairSpec == Spec /\ \A p \in Peer :
  /\ WF_vars(ClipboardUpdate(p) \/ ClipboardUpdateBlocked(p))
  /\ \A q \in Peer : WF_vars(RecvUpdate(p, q) \/ RecvUpdateBlocked(p, q))

(* The same, while all users copy one thing at a time. *)
PacedSpec == Init /\ [][Next /\ paced']_vars
----------------------------------------------------------------------------
(* Properties *)

(* "Without a guard it would re-broadcast and ping-pong forever; we remember
   the content we just applied and suppress exactly that one echo" (clipboard_
   sync.h): once nobody copies any more, the updates come to an end. *)
EchoesEnd == <>[]Quiet

(* As long as texts are copied while nothing is under way, each of them reaches
   every machine, is announced by none of them again, and is not taken for an
   echo by the machine it is copied on, whatever was applied there before
   (spec 8). *)
SettledClipboardsAgree ==
  paced /\ Settled => \A p, q \in Peer : clip[p] \notin Excluded /\ clip[q] \notin Excluded
                => clip[p] = clip[q]
=============================================================================
