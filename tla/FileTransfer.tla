---------------------------- MODULE FileTransfer ----------------------------
(***************************************************************************)
(* Copying files on one machine and pasting them on others: the promise    *)
(* that is announced (platform/tray_win, WM_CLIPBOARDUPDATE and            *)
(* onRemoteFilePromiseUi), the one thread that serves the files            *)
(* (fileServeThreadProc, net/file_channel, net/file_session) and the       *)
(* session a destination pulls them through (FilePullSession).             *)
(*                                                                         *)
(* A file is a number of chunks and a chunk a pair <<file, k>>; names stand *)
(* for files.  Offsets and cursors count chunks.  The destination's OLE     *)
(* thread both publishes promises and answers the reads of a paste, so a   *)
(* promise waits for a paste that runs.                                    *)
(***************************************************************************)
EXTENDS Naturals, Sequences, FiniteSets

CONSTANTS
  Dest,        \* the machines that paste
  Chunks,      \* Chunks[f]: the size of file f
  Lists,       \* the selections of files that are copied
  MaxChanges,  \* bound: how often files are copied or become unreadable
  MaxWire,     \* what the sockets of a connection hold
  NoDest       \* no machine

File == DOMAIN Chunks

ASSUME FileAssumption ==
  /\ Chunks \in [File -> Nat]
  /\ Lists \subseteq Seq(File) \ {<<>>}
  /\ MaxChanges \in Nat /\ MaxWire \in Nat \ {0}
  /\ NoDest \notin Dest

VARIABLES
  copied,   \* copiedPaths on the source
  copies,   \* how often that was set
  gone,     \* files deleted or locked since
  mail,     \* mail[d]: announcements on the way to d
  server,   \* the serving thread: where it stands, for whom, its paths and its FileSender
  wire,     \* wire[d]: file messages sent and not yet read by d
  link,     \* link[d]: the connection of d's session, as d would find it: before it is
            \* open it is asked for, and may fall silent
  promise,  \* promise[d]: the files d's clipboard promises
  dialed,   \* dialed[d], failed[d]: of d's FilePullSession
  failed,
  buffers,  \* buffers[d], received[d]: buffers_ and received_ of its FileReceiver
  received,
  draining, \* draining[d]: its drainThread is in its loop
  paste     \* paste[d]: how far the paste on d is

sourceVars == <<copied, copies, gone>>
sessionVars == <<promise, dialed, failed, buffers, received>>
vars == <<copied, copies, gone, mail, server, wire, link, promise, dialed, failed,
          buffers, received, draining, paste>>

Content(f) == [k \in 1..Chunks[f] |-> <<f, k>>]
Blank == <<>>  \* what a buffer holds before anything is received
Data == File \X (Nat \ {0})

Idle == [at |-> "listening", dest |-> NoDest, paths |-> <<>>, files |-> <<>>, cursors |-> <<>>]
NoPaste == [at |-> "none", taken |-> <<>>]

Stage == {"listening", "accepting", "hanging", "loading", "reading", "meta", "chunks", "lingering"}
LinkState == {"none", "asking", "silent", "open", "closed"}

Message == [kind : {"meta"}, sizes : Seq(Nat)]
           \cup [kind : {"chunk"}, index : Nat, offset : Nat, data : Data]

TypeOK ==
  /\ copied \in Lists \cup {<<>>}
  /\ copies \in Nat
  /\ gone \subseteq File
  /\ mail \in [Dest -> Seq(Lists)]
  /\ server \in [at : Stage, dest : Dest \cup {NoDest}, paths : Seq(File),
                 files : Seq(File), cursors : Seq(Nat)]
  /\ wire \in [Dest -> Seq(Message)] /\ \A d \in Dest : Len(wire[d]) <= MaxWire
  /\ link \in [Dest -> LinkState]
  /\ promise \in [Dest -> Lists \cup {<<>>}]
  /\ dialed \in [Dest -> BOOLEAN] /\ failed \in [Dest -> BOOLEAN]
  /\ buffers \in [Dest -> Seq(Seq(Data \cup {Blank}))] /\ received \in [Dest -> Seq(Nat)]
  /\ draining \in [Dest -> BOOLEAN]
  /\ paste \in [Dest -> [at : {"none", "reading", "done", "error"},
                        taken : Seq(Seq(Data \cup {Blank}))]]

Init ==
  /\ copied = <<>>
  /\ copies = 0
  /\ gone = {}
  /\ mail = [d \in Dest |-> <<>>]
  /\ server = Idle
  /\ wire = [d \in Dest |-> <<>>]
  /\ link = [d \in Dest |-> "none"]
  /\ promise = [d \in Dest |-> <<>>]
  /\ dialed = [d \in Dest |-> FALSE]
  /\ failed = [d \in Dest |-> FALSE]
  /\ buffers = [d \in Dest |-> <<>>]
  /\ received = [d \in Dest |-> <<>>]
  /\ draining = [d \in Dest |-> FALSE]
  /\ paste = [d \in Dest |-> NoPaste]
----------------------------------------------------------------------------
(* The source: WM_CLIPBOARDUPDATE with files on the clipboard. *)
CopyFiles(list) ==
  /\ copies + Cardinality(gone) < MaxChanges
  /\ copies' = copies + 1
  /\ copied' = list
  /\ mail' = [d \in Dest |-> Append(mail[d], list)]
  /\ UNCHANGED <<gone, server, wire, link, sessionVars, draining, paste>>

(* A copied file is deleted, moved or locked by another program. *)
FileGoes(f) ==
  /\ f \in {copied[i] : i \in DOMAIN copied} \ gone
  /\ copies + Cardinality(gone) < MaxChanges
  /\ gone' = gone \cup {f}
  /\ UNCHANGED <<copied, copies, mail, server, wire, link, sessionVars, draining, paste>>

Readable(f) == f \notin gone

(* fileServeThreadProc has accepted a caller that goes away, that asks for something
   else or whose hint does not come within two seconds. *)
AcceptFails ==
  /\ server.at = "accepting"
  /\ server' = Idle
  /\ UNCHANGED <<sourceVars, mail, wire, link, sessionVars, draining, paste>>

(* The caller never says what it wants and never closes: acceptServerSide reads on,
   without a limit.  It does so for good: a call that goes on later is one that
   goes on. *)
CallerStalls ==
  /\ server.at = "accepting"
  /\ server' = [server EXCEPT !.at = "hanging"]
  /\ UNCHANGED <<sourceVars, mail, wire, link, sessionVars, draining, paste>>

(* fileServeThreadProc with a sealed link: copiedPaths is read now, ... *)
ServeLoads ==
  /\ server.at = "loading"
  /\ server' = [server EXCEPT !.at = "reading", !.paths = copied]
  /\ UNCHANGED <<sourceVars, mail, wire, link, sessionVars, draining, paste>>

(* ... then its files, one after the other; one that cannot be opened is left out. *)
ServeReads ==
  /\ server.at = "reading" /\ server.paths # <<>>
  /\ LET path == Head(server.paths)
     IN  server' = [server EXCEPT !.paths = Tail(@),
                                  !.files = IF Readable(path) THEN Append(@, path) ELSE @]
  /\ UNCHANGED <<sourceVars, mail, wire, link, sessionVars, draining, paste>>

(* There may be none left to send.  The cursor of each file is at its start. *)
ServeStarts ==
  /\ server.at = "reading" /\ server.paths = <<>>
  /\ IF server.files = <<>>
     THEN /\ server' = Idle
          /\ link' = [link EXCEPT ![server.dest] = "closed"]
     ELSE /\ server' = [server EXCEPT !.at = "meta", !.cursors = [i \in DOMAIN server.files |-> 0]]
          /\ UNCHANGED link
  /\ UNCHANGED <<sourceVars, mail, wire, sessionVars, draining, paste>>

(* The two messages of a transfer: the sizes of the files, and a chunk of one. *)
Meta(files) == [kind |-> "meta", sizes |-> [i \in DOMAIN files |-> Chunks[files[i]]]]
Chunk(i, k, data) == [kind |-> "chunk", index |-> i, offset |-> k, data |-> data]

(* FileChannel::sendAll: one message, if the socket has room for it. *)
Sends(message) ==
  /\ link[server.dest] = "open"
  /\ Len(wire[server.dest]) < MaxWire
  /\ wire' = [wire EXCEPT ![server.dest] = Append(@, message)]
  /\ UNCHANGED <<sourceVars, mail, link, sessionVars, draining, paste>>

SendsMeta ==
  /\ server.at = "meta"
  /\ Sends(Meta(server.files))
  /\ server' = [server EXCEPT !.at = "chunks"]

(* FileSender: the chunks of each file in turn. *)
Sent(i) == server.cursors[i] >= Chunks[server.files[i]]
AllSent == server.at = "chunks" /\ \A i \in DOMAIN server.files : Sent(i)

SendsChunk(i) ==
  /\ server.at = "chunks"
  /\ ~Sent(i) /\ \A j \in 1..(i - 1) : Sent(j)
  /\ LET k == server.cursors[i] IN Sends(Chunk(i, k, Content(server.files[i])[k + 1]))
  /\ server' = [server EXCEPT !.cursors[i] = @ + 1]

Lingers(s) == [Idle EXCEPT !.at = "lingering", !.dest = s.dest]

(* It returns: all is sent, the link is gone, or a write has waited too long. *)
ServeSent ==
  /\ server.at \in {"meta", "chunks"}
  /\ \/ AllSent
     \/ link[server.dest] # "open"
     \/ Len(wire[server.dest]) = MaxWire
  /\ server' = Lingers(server)
  /\ UNCHANGED <<sourceVars, mail, wire, link, sessionVars, draining, paste>>

(* Mutant: the wait for the peer to close has no limit. *)
ServeEnds_Unlimited ==
  /\ server.at = "lingering"
  /\ link[server.dest] # "open"
  /\ server' = Idle
  /\ UNCHANGED <<sourceVars, mail, wire, link, sessionVars, draining, paste>>

(* The peer has closed, or has not for five minutes: the link is dropped. *)
ServeEnds ==
  /\ server.at = "lingering"
  /\ server' = Idle
  /\ link' = [link EXCEPT ![server.dest] = IF @ = "open" THEN "closed" ELSE @]
  /\ UNCHANGED <<sourceVars, mail, wire, sessionVars, draining, paste>>
----------------------------------------------------------------------------
(* The destination. *)

Reading(d) == paste[d].at = "reading"

(* A promise is published: a session of its own, and the end of the last one.  What
   the thread that serves was sending to that one fails. *)
RecvPromise(d) ==
  /\ mail[d] # <<>>
  /\ ~Reading(d)
  /\ mail' = [mail EXCEPT ![d] = Tail(@)]
  /\ promise' = [promise EXCEPT ![d] = Head(mail[d])]
  /\ dialed' = [dialed EXCEPT ![d] = FALSE]
  /\ failed' = [failed EXCEPT ![d] = FALSE]
  /\ buffers' = [buffers EXCEPT ![d] = <<>>]
  /\ received' = [received EXCEPT ![d] = <<>>]
  /\ draining' = [draining EXCEPT ![d] = FALSE]
  /\ link' = [link EXCEPT ![d] = "none"]
  /\ wire' = [wire EXCEPT ![d] = <<>>]
  /\ paste' = [paste EXCEPT ![d] = NoPaste]
  /\ server' = IF server.dest = d /\ server.at \notin {"accepting", "hanging"}
               THEN Lingers(server) ELSE server
  /\ UNCHANGED sourceVars

(* The user pastes; a paste may be repeated. *)
Paste(d) ==
  /\ promise[d] # <<>>
  /\ ~Reading(d)
  /\ paste' = [paste EXCEPT ![d] = [at |-> "reading", taken |-> <<<<>>>>]]
  /\ UNCHANGED <<sourceVars, mail, server, wire, link, sessionVars, draining>>

(* The first read dials (ensureConnected), with the session locked until the end of
   it: dialed, which is set first, is seen then. *)
Dialing(d) == Reading(d) /\ ~failed[d] /\ ~dialed[d]

(* The TCP connection: the thread that serves listens only between its peers. *)
Dial(d) ==
  /\ Dialing(d)
  /\ link[d] = "none" /\ server.at = "listening"
  /\ link' = [link EXCEPT ![d] = "asking"]
  /\ server' = [server EXCEPT !.at = "accepting", !.dest = d]
  /\ UNCHANGED <<sourceVars, mail, wire, sessionVars, draining, paste>>

(* The upgrade is asked for and answered, the hint is sent; the source knows its
   key, or drops the link. *)
DialSucceeds(d) ==
  /\ Dialing(d)
  /\ link[d] = "asking" /\ server.at = "accepting" /\ server.dest = d
  /\ dialed' = [dialed EXCEPT ![d] = TRUE]
  /\ draining' = [draining EXCEPT ![d] = TRUE]
  /\ \/ /\ link' = [link EXCEPT ![d] = "open"]
        /\ server' = [server EXCEPT !.at = "loading"]
     \/ /\ link' = [link EXCEPT ![d] = "closed"]
        /\ server' = Idle
  /\ UNCHANGED <<sourceVars, mail, wire, promise, failed, buffers, received, paste>>

(* There is no key, the source is busy or off line, or the connection ends before the
   upgrade is answered: the session is lost. *)
DialFails(d) ==
  /\ Dialing(d)
  /\ link[d] # "silent"
  /\ dialed' = [dialed EXCEPT ![d] = TRUE]
  /\ failed' = [failed EXCEPT ![d] = TRUE]
  /\ link' = [link EXCEPT ![d] = "none"]
  /\ UNCHANGED <<sourceVars, mail, server, wire, promise, buffers, received, draining, paste>>

(* The answer never comes, nor the end of the connection: connect reads on, without a
   limit, on the thread of OLE and with the session locked.  Again for good. *)
FallsSilent(d) ==
  /\ link[d] = "asking"
  /\ link' = [link EXCEPT ![d] = "silent"]
  /\ UNCHANGED <<sourceVars, mail, server, wire, sessionVars, draining, paste>>

(* FileReceiver, as [buffers, received]: acceptMeta makes room for the files; ... *)
AcceptMeta(message) ==
  [buffers |-> [i \in DOMAIN message.sizes |-> [k \in 1..message.sizes[i] |-> Blank]],
   received |-> [i \in DOMAIN message.sizes |-> 0]]

(* ... acceptChunk puts a chunk where it belongs, and counts what was received. *)
AcceptChunk(receiver, message) ==
  IF /\ message.index \in DOMAIN receiver.buffers
     /\ message.offset + 1 <= Len(receiver.buffers[message.index])
  THEN [receiver EXCEPT !.buffers[message.index][message.offset + 1] = message.data,
                        !.received[message.index] = @ + 1]
  ELSE receiver

Accept(receiver, message) ==
  IF message.kind = "meta" THEN AcceptMeta(message) ELSE AcceptChunk(receiver, message)

Complete(receiver, i) == receiver.received[i] >= Len(receiver.buffers[i])
HasAll(receiver) ==
  receiver.buffers # <<>> /\ \A i \in DOMAIN receiver.buffers : Complete(receiver, i)

(* drainLoop and receiveAvailable: a message is taken, or there is none left and
   the connection is closed.  A turn of the loop that takes several is several
   steps: what is in between looks like a message that comes later. *)
Drain(d) ==
  LET receiver == [buffers |-> buffers[d], received |-> received[d]]
      fed == IF wire[d] = <<>> THEN receiver ELSE Accept(receiver, Head(wire[d]))
  IN  /\ draining[d]
      /\ wire[d] # <<>> \/ HasAll(receiver) \/ link[d] # "open"
      /\ wire' = [wire EXCEPT ![d] = IF @ = <<>> THEN @ ELSE Tail(@)]
      /\ buffers' = [buffers EXCEPT ![d] = fed.buffers]
      /\ received' = [received EXCEPT ![d] = fed.received]
      /\ IF HasAll(fed)
         THEN /\ link' = [link EXCEPT ![d] = "closed"]
              /\ draining' = [draining EXCEPT ![d] = FALSE]
              /\ UNCHANGED failed
         ELSE /\ draining' = [draining EXCEPT ![d] = link[d] = "open" \/ wire[d] # <<>>]
              /\ failed' = [failed EXCEPT ![d] = @ \/ (link[d] # "open" /\ wire[d] = <<>>)]
              /\ UNCHANGED link
      /\ UNCHANGED <<sourceVars, mail, server, promise, dialed, paste>>

(* The stream being read, and what the session holds of its file. *)
Index(d) == Len(paste[d].taken)
HaveFile(d) == Index(d) \in DOMAIN buffers[d]
Have(d) == IF HaveFile(d) THEN received[d][Index(d)] ELSE 0
Offset(d) == Len(paste[d].taken[Index(d)])

(* Mutant: the end of what has arrived is taken for the end of the file. *)
AtEnd_NotComplete(d) == HaveFile(d) /\ Offset(d) >= Have(d)

AtEnd(d) == HaveFile(d) /\ Have(d) >= Len(buffers[d][Index(d)]) /\ Offset(d) >= Have(d)

(* read: the bytes that are there, ... *)
ReadBytes(d) ==
  /\ Reading(d) /\ ~failed[d] /\ dialed[d]
  /\ Offset(d) < Have(d)
  /\ paste' = [paste EXCEPT ![d].taken[Index(d)] =
       [k \in 1..Have(d) |-> IF k <= Offset(d) THEN @[k] ELSE buffers[d][Index(d)][k]]]
  /\ UNCHANGED <<sourceVars, mail, server, wire, link, sessionVars, draining>>

(* ... or the end of the file, after which the next stream is read, ... *)
ReadEnds(d) ==
  /\ Reading(d) /\ ~failed[d] /\ dialed[d]
  /\ AtEnd(d)
  /\ paste' = IF Index(d) = Len(promise[d]) THEN [paste EXCEPT ![d].at = "done"]
                                            ELSE [paste EXCEPT ![d].taken = Append(@, <<>>)]
  /\ UNCHANGED <<sourceVars, mail, server, wire, link, sessionVars, draining>>

(* Mutant: a read waits for bytes for as long as it takes. *)
ReadFails_NoTimeout(d) ==
  /\ Reading(d) /\ failed[d]
  /\ paste' = [paste EXCEPT ![d].at = "error"]
  /\ UNCHANGED <<sourceVars, mail, server, wire, link, sessionVars, draining>>

(* ... or an error: the session has failed, or now does, without progress for 30 s. *)
ReadFails(d) ==
  /\ Reading(d)
  /\ failed[d] \/ (dialed[d] /\ Offset(d) >= Have(d) /\ ~AtEnd(d))
  /\ failed' = [failed EXCEPT ![d] = TRUE]
  /\ paste' = [paste EXCEPT ![d].at = "error"]
  /\ UNCHANGED <<sourceVars, mail, server, wire, link, promise, dialed, buffers, received,
                draining>>

(* The network breaks the connection; what was under way arrives or does not. *)
LinkBreaks(d) ==
  /\ link[d] = "open"
  /\ link' = [link EXCEPT ![d] = "closed"]
  /\ wire' \in {wire, [wire EXCEPT ![d] = <<>>]}
  /\ UNCHANGED <<sourceVars, mail, server, sessionVars, draining, paste>>

Serves ==
  \/ AcceptFails \/ ServeLoads \/ ServeReads \/ ServeStarts
  \/ SendsMeta \/ (\E i \in DOMAIN server.files : SendsChunk(i))
  \/ ServeSent \/ ServeEnds
Pulls(d) ==
  Dial(d) \/ DialSucceeds(d) \/ DialFails(d) \/ ReadBytes(d) \/ ReadEnds(d) \/ ReadFails(d)

Next ==
  \/ Serves \/ CallerStalls
  \/ \E list \in Lists : CopyFiles(list)
  \/ \E f \in File : FileGoes(f)
  \/ \E d \in Dest :
       RecvPromise(d) \/ Paste(d) \/ Pulls(d) \/ Drain(d) \/ FallsSilent(d) \/ LinkBreaks(d)

Spec == Init /\ [][Next]_vars

(* The threads run while what they wait for has a limit; no one has to copy or
   paste, and no link has to break or to fall silent. *)
FairSpec == Spec /\ WF_vars(Serves) /\ \A d \in Dest : WF_vars(Pulls(d)) /\ WF_vars(Drain(d))
----------------------------------------------------------------------------
(* Properties *)

(* "announce a promise to peers so the machine the user pastes on can pull them"
   (WM_CLIPBOARDUPDATE): a file that a paste has read to its end is the promised
   one, whole. *)
Finished(d) == IF paste[d].at = "done" THEN Index(d) ELSE Index(d) - 1
PromisesAreKept == \A d \in Dest : paste[d].at # "none" =>
  \A i \in 1..Finished(d) : paste[d].taken[i] = Content(promise[d][i])

(* As long as the source copies nothing else and keeps its files, that is so,
   whatever becomes of the link, of the session or of a paste elsewhere: no part
   of a file passes for the file, and none for another one (FileReceiver,
   readPastedFile). *)
SourceKept == copies <= 1 /\ gone = {}
PastesWhatWasPromised == SourceKept => PromisesAreKept

(* A paste is done or fails, whatever becomes of the source, of the link once it is
   open or of another destination: each of these waits has its limit.  The dial has
   none: a source that takes the call and never answers it leaves Explorer, and the
   thread that reads for it, waiting; only that, and only there. *)
PastesEnd == \A d \in Dest : Reading(d) ~> ~Reading(d) \/ link[d] = "silent"

(* The one serving thread gets back to listening, also from a peer that neither
   reads nor closes, unless a caller stalls before its upgrade is done
   (wsAcceptOne waits for that without a limit, and serves no one else). *)
ServerIsFreed == server.at # "listening" ~> server.at \in {"listening", "hanging"}
=============================================================================
