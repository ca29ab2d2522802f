# Skittermouse in TLA+

Skittermouse is a software KVM: one keyboard, mouse and clipboard for several
machines on a LAN, with no server. Every machine runs the same program and keeps a
link to every machine it is paired with. This directory holds TLA+ models of what
those machines do together, the TLC configurations that check them, and theorems
about them that TLAPS checks.

Paths without a directory are in `src/src/` (`src/spec.md` is the design document,
`src/tests/` the tests). `PROJECT.json` lists the components, the runs, what each
definition translates (file and lines), the mutants, the hazards and the theorems.

    tlc -workers 2 -config MeshNodeTwo.cfg MCMeshNode     # check one instance
    tlapm MeshNodeProofs.tla                              # check the proofs of a module

The passing runs take from a second to about three minutes.

## 1. Inventory

### Threads

One process per machine, on Windows with these threads (`platform/tray_win.cpp`):

| thread | runs | shares |
|---|---|---|
| UI | menu, timers, `pumpMesh`, `ConnectionManager::poll`, all of `MeshNode`, hooks, clipboard, dialogs | everything below, through mutexes or not |
| net | `netThreadProc`: dials the peers it is not linked to, then accepts one socket | `pendingLinks`, `connectedIds`, `lastDial` |
| discovery | `discoveryProc`: beacons, answers, the table of machines | `config.devices` under `stateMutex`, the table |
| pair accept, pair init | `pairAcceptProc`, `pairInitProc`, only while a pairing session is open | `pairingActive`, `pairEngaged`, `keys`, `config` |
| file serve | `fileServeThreadProc`: one peer at a time pulls the copied files | `copiedPaths` under its mutex |
| drain | one per paste: `FilePullSession::drainLoop` | the session's buffers under its mutex |

The OLE thread that publishes promised files also answers the reads of a paste. The
mac tray (`platform/tray_mac.mm`) has a menu and windows but does not start the mesh.

### Components

| component | state | operations | talks to | module |
|---|---|---|---|---|
| ownership (`core/ownership_state`) | the claim held, the clock | switch claim, `applyClaim` | mesh node | OwnershipState |
| election, watchdog (`core/server_election`, `core/heartbeat`) | priority list, online set, time of each peer's last message | add, set, `currentServer`; beat, alive, forget | mesh node | ServerElection, MeshNode |
| mesh node (`app/mesh_node`) | peers, the two above, what was last reported of each peer | `addPeer`, `removePeer`, `requestSwitchTo`, `sendHeartbeats`, `poll`/`handle` | the other nodes, over links; the tray, by callbacks | MeshNode |
| peer links (`app/connection_manager`, `connection_service`, `secure_link`) | sockets in a handshake, handed over, pending, registered | dial, accept, hint, hello, promote, dedup, reap | net and UI threads, mesh node | PeerLinks |
| transport (`platform/ws_transport_*`, `net/ws_frame`, `net/frame_assembler`) | the socket, `connected_`, the assembler's buffer | `send`, `recv`, `close` | everything that has a link | FrameStream |
| sealed link (`net/encrypted_transport.h`) | counters, last counter taken | `send`, `recv` | transport below, node above | SecureChannel |
| input handoff (`tray_win`, `core/input_pipeline`, `core/input_tracker`, capture, inject) | driving, hooks, what is held | take and give up control, capture, forward, inject, timer | mesh node, the operating system | InputHandoff |
| clipboard (`core/clipboard_sync`) | the hash of the last remote text | announce, apply, suppress the echo | mesh node, the operating system | ClipboardMesh |
| pairing (`pairing/*`, `tray_win`) | session flags, threads, the exchange, the keys | add device, pick, cancel, dial, accept, exchange, confirm | two threads, the user, the other machine | PairingSession |
| discovery (`net/discovery_*`, `tray_win`) | the table, reply throttle, `last_ip` of each device | broadcast, answer, refresh, list | UDP, configuration, picker | Discovery |
| file transfer (`net/file_*`, `platform/filepromise_win`, `tray_win`) | copied paths, the session, its receiver | copy, promise, paste, pull, serve, drain | mesh node, a connection of its own | FileTransfer |
| configuration, key store (`core/config`, `pairing/key_store`) | what is in memory, two files | load, save, add a device, set a key or an address | pairing, discovery, windows | ConfigFile, DeviceStore |
| tray and windows (`tray_win`, `ui/*_window_win`, `ui/menu_model`, `platform/autostart_win`) | the stack of message loops, a global pointer per kind of window, the log-on task | start, open, answer, menu, quit | all threads | ModalLoops, TrayApp |
| wake (`core/wake_flow`, `net/wol_sender`) | the machine that is being woken, a deadline | begin, packet, online, time out | tray, mesh node | InputHandoff |
| hotkeys (`core/hotkey`) | the combination that is registered, the one that ends driving | parse, register, fall back | tray, capture | Hotkey, TrayApp |
| cryptography, session token, key translation, logging, mac glue | | | | not modelled (section 7) |

### What is hard

* *Nobody decides.* Ownership is a claim each machine applies for itself: claims race,
  arrive in different orders, meet machines that have reverted to local control in
  between, or come from a machine that has restarted. What makes it correct is that
  the stamp of a claim names one claim, that a machine never stays under an owner it
  cannot hear, and that machines between which everything has arrived hold one claim.
* *Two threads and two machines build one link.* A socket passes through a handshake,
  a hand-over queue and a pending list; the machines dial each other at once, an
  address may have gone stale, a machine may restart. Correct: every open end has one
  owner, a registered link ends at the machine it is registered for, dead links go.
* *A stream is not a sequence of messages.* Bytes come in pieces of any size, a send
  may give up half-way, an end may close while frames wait in the assembler.
* *A nonce must never be used twice*, though sends fail and frames are repeated.
* *The keyboard is taken away from the user.* It must come back, on every path, and no
  key may be left down anywhere.
* *An echo looks like a copy.* The notification of a remote clipboard write comes
  later, perhaps after another write.
* *Pairing is four threads on two machines* and a user who may do anything at any time.
* *Three threads save one file*, two of them under a mutex; a save truncates the file
  before it writes it, and the application may end in between, because Quit waits for
  no thread.
* *Windows run loops within loops.* A window is opened while the loop of another runs,
  each kind has one global pointer to the state on some loop's stack frame, and WM_QUIT
  ends only the loop that takes it.
* *Discovery and file transfer* meet lost datagrams, machines that move, files that
  vanish and links that break half-way through a file.

The hazards are listed one by one, with their lines and the properties aimed at them,
in `PROJECT.json`.

## 2. Plan

The order is that of importance: who owns input, the links that carry it, the input
itself; then what is shared beside it.

| | module | composes | status |
|---|---|---|---|
| 1 | OwnershipState, ServerElection, MeshNode | the first two are the state MeshNode owns | checked and proved |
| 2 | OwnershipRegister | abstract specification of 1 | refinement checked and proved |
| 3 | PeerLinks | two threads per machine, connections | checked; safety proved |
| 4 | FrameStream, SecureChannel | the layers of a link | checked; safety proved |
| | MessageTransport | abstract specification of FrameStream | refinement checked and proved |
| 5 | InputHandoff | OwnershipState with capture, forwarding, injection and the wake of a machine | checked; safety proved |
| 6 | PairingSession | two machines, their threads and their users | checked; safety proved |
| 7 | ClipboardMesh, Discovery, FileTransfer | | checked; safety of ClipboardMesh and FileTransfer proved |
| 8 | Hotkey, ConfigFile, DeviceStore, ModalLoops, TrayApp | TrayApp composes DeviceStore (which extends ConfigFile and Hotkey) and ModalLoops | checked; safety proved |

What is left, in order:

1. *SecureChannel over MessageTransport*: the sealed link assumes less of what is below it
   than MessageTransport promises. Put on it, each end takes every message the other one
   sealed, as long as no send fails. MessageTransport could say, too, that what was sent
   before the first send that failed still arrives first and in order. The definitions of
   SecureChannel have names of their own so that one module can extend both.
2. *TypeOK of Discovery* as a theorem: its runs check liveness, which rests on it.
3. *A handshake that never ends*, in PeerLinks: dial and accept read from a blocking socket
   without a time-out. FileTransfer has both, PairingSession the dial; what the net thread
   still does in one is not modelled.
4. *Key translation* as functions, checked over their whole domain.

## 3. The modules and the code

**OwnershipState, ServerElection** are operators on the state of `OwnershipState` and
`ServerElection`. A machine is a natural number, because only the order of ids matters;
the 64-bit clock is one too, since it grows by one per switch.

**MeshNode** has one action per method: `AddPeer`, `RemovePeer`, `RequestSwitchTo`,
`SendHeartbeats`, and `poll`, which is split: one received message is a step
(`PollRecv`), the liveness refresh with the fail-safe revert that ends it another
(`PollEnd`), because other machines run in between. All methods of one node run on one
thread, so between `PollRecv` and `PollEnd` nothing else happens there (`AtRest`). Time
is the set of peers heard within the time-out. Links are an environment here: they come
up, break, and deliver in order. `StableSpec` is the same node in a mesh in which nothing
breaks. **OwnershipRegister** is what the node promises: a replicated register of claims
that only moves up. **MCMeshFaults** adds restarts and the histories that the three
statements of the documentation speak about.

**PeerLinks** has both loops of a machine. The net thread: `StartDial`, `DialFails`,
`Connect` (it meets an accepting thread), `HandshakeOk`, `HandshakeFails`. The UI thread:
`PumpRegister` (takes what was handed over, sends the hello), then `poll`, one step per
pending link (`PollWaits`, `PollPromotes`, `PollDrops`), and `PollFinish`, which reaps the
links whose `connected_` flag went down in an earlier poll and then reads the others.
`Restart` and `Reset` are the environment. `Answering` says who may answer at an address
that was recorded earlier; a key is the pair of machines that share it.

**FrameStream** has the two directions of one connection. `send` is split into `Send`,
`Write` and `GiveUp` where it waits for room, `recv` into what it can find: a frame in
the assembler, bytes, nothing, the end. A byte is a small number, the header of a frame
one byte. The three platforms share the logic; under TLS (posix, mac) the pieces are
records, and a write that fails differs in detail. **MessageTransport** is the interface
that all of this implements, `net/transport.h`: an end takes the messages of the other one
whole, in order and once (`Recv`), and learns that the connection is over after the last
of them (`RecvOver`). It has no bytes, frames or buffers. It promises nothing of what an
end sends once a send of that end has returned false (`Fail`), and a connection that is
cut off may be found over too early (`CutOff`).

**SecureChannel** has `send` and `recv` of the sealed link. The transport below may
lose, repeat, reorder, reflect and change frames; the cipher is sound: a changed frame
does not open. `SealedSend` and `SealedRecv` are `send` and `recv` of the class; the module
can be extended together with one of the transports below it.

**InputHandoff** has the handlers of the UI thread: `ControlPeer`, `StopDriving`,
`Touch` (a key goes down or up), `RecvClaim`, `RecvKey`, `PeerOffline`, `FailSafe`,
`Timer`; each ends in `SyncCapture` where the code calls `syncCapture`. `waking` is the
target of `WakeFlow`: `StartWake` is `controlPeer` for a machine that is off, `Timer` may
give it up (its deadline), `TimerWoken` finds it online and requests the switch. Links
come up before the module begins, so a wake that is under way in the initial states is
one whose machine has answered. The heartbeats are reduced to their effect.

**ClipboardMesh** has `WM_CLIPBOARDUPDATE`, the handler of updates, each also with the
clipboard held by another program, and the user who copies. One change posts one
notification; the handler reads what is there by then.

**PairingSession** has the UI thread (`AddDevice`, `Pick`, `Cancel`, `EndCancelled`: the
flag is read in one step and the session ended in another), `pairInitProc` (`InitStarts`,
`Connect`, `DialGivesUp`, and `DialHangs`: the peer never answers the upgrade, which `connect`
reads for without a limit), `pairAcceptProc` (`AcceptChecks`, `AcceptTimesOut`,
`AcceptEngages`) and the exchange that either runs. A key stands for the exchange that
made it.

**Discovery** has `discoveryProc` (`Broadcast`, `RecvBeacon` with its answer and the
refresh of `last_ip`), the picker, what each side of a pairing stores, in either order, the router that moves machines,
datagrams that vanish, and restarts that keep only the file.

**FileTransfer** has the source (`CopyFiles`, `FileGoes`), its serving thread
(`ServeLoads`, then `ServeReads` for each path, `ServeStarts`; `sendAll` as `SendsMeta` and
`SendsChunk`; `ServeSent`, `ServeEnds`), and on each destination the promise, the paste, the
session (`Dial`, `DialSucceeds`, `DialFails`, `Drain`) and the reads of the shell (`ReadBytes`,
`ReadEnds`, `ReadFails`). A call has a time between the TCP connection and the sealed link, in
which either side reads without a limit: `FallsSilent` is a source that never answers the
upgrade, `CallerStalls` a caller that never asks for it, and `AcceptFails` one that is dropped. `server.files` and `server.cursors` are the `FileSender`, `buffers` and
`received` the `FileReceiver` with its `acceptMeta` and `acceptChunk`; a chunk carries its
index and offset, and is put where they say. The files are read one after the other, so one
of them may vanish while another is read.

**Hotkey** is `parseHotkey` over tokens, the registration with its fallback, and the
combination the capture hook watches for. **ConfigFile** is the configuration and its
text, as lines: `Serialize`; `ParseLine`, one turn of the loop of `Config::parse`, with what
it does to unknown lines; `Parse`, what the whole loop comes to (devices add up, of any
other key the last line holds), written without a fold so that it can be proved about;
`AddDevice` with the list of priorities; and `Overlays`, what is left in the file when a
text is written over a longer one. A field holds a `Word`, of which the theorems assume
only that the words the code itself writes are among them.

**DeviceStore** has the three threads that change memory and save:
`BeaconMoves`, `AssignAddress` (discovery, under `stateMutex`); `PairingConfirmed`,
`SetPsk`, `OpenKeys`, `WriteKeys`, `AddPaired` (pairing, under the same mutex);
`EnterSettings`, `SaveSettings`, `ChangeTask`, `ToggleStartup` (UI, under none). Each save
is `Open` (truncates) or `OpenFails`, `SerializeConfig`, `Write`; the key file is opened
and written in two steps as well. `Stop` ends the process wherever its threads are and
`Load` begins the next one with what the files hold.

**ModalLoops** has the message loops of `showSettingsWindow`, `showPicker` and
`showDiscoveryPicker` as a stack. `ShowWindow` pushes a loop and points the global
variable of its kind (`g_ss`, `g_ps`, `g_disco`) at it; `Answer` is every way in which a
window ends and writes through that pointer (the discovery picker is closed by a pairing thread
as well, whatever else is open); `Return` and `TakeQuit` pop the innermost
loop and null the pointer. **TrayApp** is `runTrayApp` and `wndProc`: the user opens and
answers windows, uses the menu and quits, the threads of DeviceStore run beside, and the
UI thread dispatches nothing while it saves. **MCTrayApp** gives the instances, and makes
TLC compare `Parse` with taking one line after the other (`ParseGoesLineByLine`: every
text of up to three lines, of known keys and unknown, blank fields and several).

## 4. The runs

### Runs that pass

| run | instance | shows |
|---|---|---|
| MeshNodeTwo | 2 machines, both switch; links break, silence, heartbeats | no machine rests under an owner it cannot hear; watchdog, reports and election agree; a stamp names one claim although reverts are not sent; refinement of the register; a lost owner is released |
| MeshNodeStable | 3 linked machines, two switch twice | agreement once no claim is on the way, and convergence |
| PeerLinksLive | 3 machines, of which 1 dials 2 and 3 dials 1, 2 connections, an address that may by now belong to the third, resets, one crash | each open end has one owner; a registered link is genuine; dead links are reaped; the machines end up linked |
| StreamPieces | a message that fits and one that is cut off and whose frame is longer than the socket's 3 bytes; 2 sends per end | order and wholeness, nothing lost at an orderly end, refinement of the transport, sends return, everything arrives |
| HandoffThree | two drivers and a listener, links that break, a machine that may be being woken | hooks only as the driving owner; at most one captures; the listener is left with no key down; a user without links is not locked out |
| ClipboardPair | 2 machines, 4 copies, one excluded text | the traffic ends; paced copies agree |
| TrayLifetime | one machine, one other to pair with, one address, one fault (an end or a file that cannot be opened), 2 windows | the file says what is in memory when nobody saves, unless two saves met without the mutex; nobody is listed without a key; no window reaches into a loop that has returned; who keeps asking to quit gets there |
| PairingRaces | 2 machines, 2 connections | one exchange per session; a dial keeps its session; sessions end, unless their dial is never answered |
| ChannelTwo | counters up to 3, a payload that is too long | nonces are never reused; what is taken is what was sent, in order, once |
| DiscoveryFollows | 2 machines, 3 addresses, one-way broadcasts | each comes to see the other; the recorded address follows |
| PullTwo | 2 destinations, an empty file and a file of a chunk, 2 changes at the source (a copy, or a file that vanishes) | a finished paste is the promised one while the source keeps its files; pastes end, unless their dial is never answered; the server is freed, unless a caller stalls before the upgrade |

The bounds and why they suffice:

* *Machines.* Two, where a property is about a pair and a third would only add its own
  copy of it; three where it matters: agreement needs a claim that overtakes another on a
  second path, a stale address a machine that answers for another, the handoff a listener
  beside two drivers. `MeshNodeThree.cfg` and `ClipboardPaced.cfg` repeat the
  two-machine results with three.
* *MaxSeq* bounds the time of a requested switch, not of reverts: these are issued at any
  time and go one beyond it. With 1, two switches race at the same time and each can meet
  a revert at that time; the two-switch case is in MeshNodeStable. The theorems have no
  such bound.
* *MaxInFlight, MaxBeats, Room, MaxWire, MaxNet* bound what is on the way. One message of
  each kind in each direction is what lets the orders differ that the receivers can see;
  `Room` = 3 makes a frame of 4 bytes wait for room, lets one be torn by a send that
  gives up, and still lets a read bring two frames.
* *MaxCrashes, MaxMoves, MaxChanges, MaxCopies, MaxExchanges*: a fault before and after what it
  disturbs. `MaxExchanges` = 2 lets a session begin, fail, and begin again.
* *TrayLifetime.* One machine to pair with is enough to add it, to follow it to its address
  and to list it twice over a restart. The one fault can fall into any step of any save,
  and Quit, which is not bounded, ends the process in the same places. Two windows are
  what it takes for one to be opened within the loop of another, of the same kind or not.
  A text is shorter than the buffer of the file stream, so a write reaches the file as a
  whole or not at all. External: whether a window that is destroyed with the focus gets
  WM_KILLFOCUS (`DestroyTakesFocus`, as Windows does it), and which combinations of keys
  other applications own (`Taken`). 1.7 million states.
* *MaxCtr* = 3 reaches the last counter value, where the code refuses to send.

No listed run uses symmetry (`PeerLinksRace.cfg` does, over connections only, which the
module never compares, and checks invariants alone). Deadlock checking is off where the
modelled part really stops: nobody has to copy, pair, send or pull. The type invariants
of modules whose run does not list it hold as well; they are left to the
configurations beside the runs, or to a theorem.

### Fairness

Fairness is stated for loops that run as long as the application does, and never for a
user or for a failure that need not come.

* MeshNode: the pump polls every few milliseconds, so `PollRecv`, `RemovePeer` and a
  `PollEnd` that finds the silent are weakly fair.
* PeerLinks: the steps of both loops are weakly fair, a dial, a meeting and a timely hint
  strongly fair: a machine listens most of the time, and a peer that keeps dialing gets
  through. `PromptSpec` adds the three-second cool-down between dials of a peer, taken to be
  long enough for the previous attempt to have ended; the code has only the clock for
  that, so liveness is claimed for threads that are not stalled for so long. The theorems
  and `PeerLinksRace.cfg` speak of dials at any time. `Restart` is bounded.
* FrameStream: `Write`, `GiveUp` (a bounded wait) and `Recv` (polled); never `Send` or `Close`.
* InputHandoff: the timer, the end of a poll, the arrival of what was sent and the
  discovery of a broken link.
* ClipboardMesh: the message loop and the pump.
* PairingSession: the threads; never the user. The dial looks at its 15 s and the exchange at
  its 30 s between the steps they take, and a step returns, but for one: `connect` reads the
  upgrade from a blocking socket without a time-out (`ws_transport_win.cpp:97`). A peer that
  takes the connection and then says nothing is `DialHangs`, which may happen to any dial and
  never ends; `SessionsEnd` excepts it by name, and only it. A peer that asks for a connection
  and says nothing more blocks `pairAcceptProc` in the same way
  (`ws_transport_win.cpp:151`); that one is left out, and accepting taken to end.
* Discovery: the broadcast is timed, a path does not lose everything (strong fairness of
  hearing from a machine at its present address), a stale datagram does not stay for ever.
* TrayApp: threads that have begun to save go on, the user answers the question for
  administrator rights, and the innermost loop of the UI thread, which is one thread, ends
  when it can: it returns when its window is done and else takes WM_QUIT. Nobody has to
  answer a window or to ask for the end; `QuitsEnd` assumes a user who keeps asking, and
  who opens nothing more.
* FileTransfer: the serving thread and, on each destination, the session and its reads, each
  while what it waits for has a limit: 30 s without progress for a read, 100 ms for a write,
  five minutes for the linger, 2 s for the hint. The two reads of the upgrade have none
  (`ws_transport_win.cpp:97`, `:151`). A dial that is never answered (`FallsSilent`) holds the
  session's mutex on the thread of OLE for good, so that the paste hangs and the 30 s never
  begin (`tray_win.cpp:936-940`); a caller that never asks (`CallerStalls`) stops the thread
  that serves. Both may happen to any call; `PastesEnd` and `ServerIsFreed` except them by name.
  The user need not paste, and no link has to break or fall silent.

### A run that finds a disagreement

*MeshFaultRepair* (`app/mesh_node.cpp:206-213`). "A later explicit switch re-establishes
a single mesh-wide owner." The fail-safe revert raises the clock of the machine that
reverts and is not sent. A switch requested at a machine whose clock is lower is refused
where the higher claim is held, and two owners remain in a fully linked, quiet mesh.

### Further counterexamples

Each of these statements is one that the code does not keep. The configurations are kept
beside the runs for whoever changes that code; TLC prints the shortest history. Where a
configuration has several, TLC stops at the first it finds violated: comment out the
others, and in `TrayClaims.cfg` uncomment one.

| configuration | module | statement | where | what happens |
|---|---|---|---|---|
| MeshFaultClaims | MCMeshFaults | `ClaimsAreTotallyOrdered`: "every machine independently computes the same winner" (`core/ownership_state.h:26-30`) | `core/ownership_state.cpp:16` | a restarted machine begins at time 0 and repeats a stamp that others still hold |
| | | with the values its comment gives, `SinglePrimary`: "Every machine computes the same result with no negotiation" (`core/server_election.h:11-17`) | `platform/tray_win.cpp:1421` | `setPriority` replaces the list in which a machine is itself eligible |
| PeerLinksDedup | MCPeerLinks | `DedupKeepsALink`: "so re-dialing is safe" (`app/connection_service.cpp:9-11`) | `app/connection_manager.cpp:52` | machines that dial each other at once each drop the connection the other keeps |
| StreamTorn | MCFrameStream | `ReceivesWholeMessages`: "Receive one whole message" (`net/transport.h:22-25`) | `platform/ws_transport_win.cpp:190` | a send that gives up half-way leaves a torn frame and a connection in use |
| HandoffClaims | InputHandoff | `InjectsOnlyFromOwner`: "Sinks inject forwarded input from the current owner" (`app/mesh_node.cpp:148`) | `app/mesh_node.cpp:149` | the guard asks whether this machine is the owner, not whether the sender is |
| | | `SwitchOutReleases`: releases come before the handoff (`core/input_tracker.h:3-6`) | `platform/tray_win.cpp:1078` | releases reach a machine that has become the owner, and are ignored there |
| | | `OwnKeysMatch` (`src/spec.md:246-249`) | `platform/tray_win.cpp:1083` | the up event of a key held when capture starts is swallowed |
| | | `WokenIsDriven`: "On success (machine reconnects): proceed normally" (`src/spec.md` 12) | `platform/tray_win.cpp:1306` | the switch makes the woken machine the owner of input; its user drives nothing, and whoever drove stops |
| ClipboardStorm | ClipboardMesh | `EchoesEnd` with three machines: no ping-pong (`core/clipboard_sync.h:3-7`) | `core/clipboard_sync.cpp:20` | one remembered text does not cover two notifications of it |
| PairingClaims | PairingSession | `StoredOnMutualConfirm`: "on mutual confirm, stores the PSK" (`pairing/pairing_exchange.h:11-12`) | `platform/tray_win.cpp:503-522` | each side stores on its own confirmation |
| | | `TheOtherAccepts`: "the other becomes the acceptor" (`platform/tray_win.cpp:561-562`) | `platform/tray_win.cpp:567` | machines that dial each other each refuse the other |
| TrayClaims | MCTrayApp | `GuardedByStateMutex`: "guards config.devices + keys" (`platform/tray_win.cpp:113`) | `platform/tray_win.cpp:1174` | the UI thread saves, and so reads the devices, without the mutex |
| | | `AddressesSurvive`: "survive restart" (`platform/tray_win.cpp:701`) | `platform/tray_win.cpp:1174` | a save of the UI thread that overtakes that of an address puts the old one back |
| | | `HiddenArePaired`: "nothing to add there" (`platform/tray_win.cpp:231`) | `pairing/key_store.cpp:123` | a key file that was cut short leaves machines listed, and hidden, whose key is gone |
| | | `LoopOnlyWhileOpen`: "A local message loop runs while it is open" (`ui/picker_window_win.cpp:3-4`) | `ui/settings_window_win.cpp:153` | a second window of a kind takes the pointer over: the first loop goes on when its window is closed |
| | | `EnterChooses`: "Enter to switch" (`src/spec.md` 4.2) | `ui/picker_window_win.cpp:67` | the window clears the result as it loses the focus on its way out |
| | | `SavePersistsAtOnce`: "On Save, persist and apply run-on-startup immediately" (`platform/tray_win.cpp:1168`) | `platform/tray_win.cpp:1171` | the save waits for the loops opened within that of the settings window |
| | | `StartupMatchesTask`: "a declined prompt leaves the setting unchanged" (`platform/tray_win.cpp:1190`) | `platform/tray_win.cpp:1171` | the menu changes the task while the settings window is open, and what is compared is from before |
| | | `ReclaimIsTheHotkey`: "watches for the same combo" (`platform/tray_win.cpp:1543`) | `platform/tray_win.cpp:1546` | where the secondary hotkey is in force, the hook watches for the configured one |
| PullChanged | MCFileTransfer | `PromisesAreKept`: peers pull what was announced | `platform/tray_win.cpp:822` | the source has copied something else since, and sends that |
| | | the same, with the values its comment gives | `platform/tray_win.cpp:823-833` | a file that cannot be opened is left out and the others move up |

### Further instances that pass

`PeerLinksRace.cfg` (MCPeerLinks: three machines that dial at any time, invariants and
`TypeOK` only), `MeshNodeThree.cfg` (MCMeshNode: three machines of which one loses its links),
`ClipboardPaced.cfg` (ClipboardMesh: three machines, copies that do not overlap),
`DiscoveryRound.cfg` (MCDiscovery: one round of beacons, `AnswersDieOut`) and
`PullLong.cfg` (MCFileTransfer: one destination, three files, two chunks, a wider wire,
3 changes; `TypeOK` too).

## 5. What is proved

Every theorem holds for any set of machines and any bounds; the assumptions are the
`ASSUME`s of the modules, types and orders of the constants. Every safety invariant that a
run checks is a theorem, and so are both refinements.

**MeshNodeProofs.** `TypeCorrect`. `OwnershipInvariant`: `StampIdentifiesClaim` speaks of
claims held or on the way and is not inductive, since nothing in it says that the next
stamp of a machine is new. `OwnershipInv` adds the set of claims ever issued: the clock of
a machine is the time of the claim it holds, what is held or on the way was issued, and
*the clock of an issuer covers everything it issued*. Every step is one of three kinds
(`StepKinds`): it changes no claim, adopts one that was sent, or issues one at clock + 1;
the invariant is proved once per kind. `StampsIdentify` follows. `FailSafe` proves
`NoSilentOwner` from the revert that ends each poll and each removal of a peer.
`MeshImplementsRegister` maps adopting and issuing to the actions of the register and
everything else to stuttering.

`ReportsAgree` proves `ReportedLivenessIsCurrent`; it needs besides that only peers are
alive and that no machine is a peer of its own, since the election counts the machine
itself as online.

`Agreement`, the last part of the module: in a stable mesh of any size, machines between
which no claim is on the way hold the same claim. The invariant `Delivered` says that a
requested switch is, for each other machine, on its way there or already met by a claim at
least as new; with unique stamps the order is total, and two maximal claims are equal. This
is where the unsent revert would break the argument: `FullMesh` says that in a stable mesh
every peer is alive, so that nobody reverts.

**PairingProofs.** `PairingTypeCorrect`, then `OneExchange` and `DialKeepsSession` from an
invariant that says which places of the two threads exclude each other, and that a thread
past the engagement finds `pairEngaged` set.

**PeerLinksProofs.** `LinksInvariant`, `EndsHaveOneOwner`, `LinksAreGenuine`, for any number
of machines and connections, whoever may answer at an address and however often they
restart. `EachOpenEndHasOneOwner` counts owners and is not inductive: nothing in it says
that an end that moves from one list to the next was not in that one already. `LinksInv`
says of the five places of a machine (handshake, hand-over, pending, still to be looked
at, registered) that none holds an end twice, that they are disjoint, and that together
they hold what is open; that a connection in use has two different ends; and, for
`RegisteredLinkIsGenuine`, where a registered link ends. Each step of the threads takes an
end from one place and puts it in one other, or closes it. The theorems are about `Spec`,
in which a peer may be dialed at any time; the specification of the run restricts dials.

**TransportProofs**, of the two implementations of `net/transport.h`.

The stream: `StreamTyped`, `StreamInOrder`, `StreamComplete`, `StreamImplementsTransport`,
for any messages, any room in the socket and any bounds. The bytes of an end that its peer
has not made frames of are spread over the assembler, the wire and what `sendAll` still holds; the
invariant `Delivered` says that, laid end to end, they are the frames of exactly the
messages that were not received yet (`Encodes`, by the places at which the frames end, so
that no recursion is needed), or a part of those from the start once the connection was
reset. Cutting the stream anywhere changes nothing in it; taking a frame from the assembler
takes the first of those messages (`TakeDelivers`). For the end of the stream there is
`ReadToTheEnd`: an end that has found its peer closed has read all that was on the wire and
has no whole frame left in the assembler, which is the order in which `recv` asks. An end
whose send gave up is exempt from then on: the torn frame swallows what follows it.
For the refinement, writing, and reading less than a frame, are stuttering steps; a frame
that is taken leaves `Delivered` true, so that it can only have been the next message
(`DeliverReceives`); and the end of the stream is found when `Encodes` leaves no message
to come (`AllWasTaken`).

The sealed link: `ChannelTypeCorrect`, `NonceUnique`, `ReceivesInOrder`, from one
invariant: what was sealed has a counter below that of its sealer (`SealedIsSpent`), and
the counter of the last frame taken covers every frame taken (`LastCovers`).

**HandoffProofs.** `HandoffTyped`, `NeverSwallowsAsSink`, `NothingHeldBehind`, for any
machines and keys. What makes the invariant inductive is `ClockKeepsUp`, that the clock of a
machine is not behind the claim it holds: only then does the claim that `ControlPeer` makes
win over the one held, so that the hooks are installed on an owner. The rest is that every
action that changes the owner or `driving` ends in `SyncCapture`.

`OneOwnerWhenQuiet` and `ListenersKeysGoUp` prove the two properties that are true only
when nothing is on the way, and only while no link has broken. For the first, `ClaimsSpread`
says of every claim that is held or on the way that each machine has met it or has it
coming from its issuer, and that a stamp names one claim; when all wires are empty, all
machines hold the highest one. For the second, `KeysTracked` follows each key on its way: a
key that is down at a listener is held by a driver that captures, or its release is on the
way there, behind whatever presses it. A listener is never the owner (`ListenersNeverOwn`),
so that no release that reaches it is ignored.

**ClipboardProofs.** `ClipboardTyped`, `CopiesReachEveryone`. As long as nobody copies while
something is under way, a copy goes through three phases (`PacedInv`): nothing is under way;
one notification is posted where the user copied; or the text spreads from there, and is for
every other machine on its way, or arrived with at most its own notification left and
expected there. Agreement is read off the first phase. Without the pacing the phases
overlap, and `ClipboardStorm` shows what becomes of that.

**FileTransferProofs.** `TransferInvariant`, `FileTransferTyped`, `PastesKeepThePromise`, for
any machines, any selections of files of any sizes, any room on the wire and any number of
copies. `PastesWhatWasPromised` compares what a paste has read with what was promised and
says nothing of what lies in between: a source that had sent the chunks of another file
would not violate it before somebody reads them. `TransferInv` says where every chunk is.
A session transfers one list of files (`SessionInv`); its receiver holds of each file the
first `received` chunks, which is what that counter, a plain sum in the code, has to mean
for `read` to be right (`Holds`); and the wire carries exactly the messages that take the
receiver from there to the cursors of the sender (`Carries`: a sequence of counts, one
before and after each message, so that no recursion is needed). Sending adds a message at
one end of it, draining takes one off the other (`CarriesMore`, `CarriesFirst`, `Takes`). A
link that broke may leave the wire empty; then nothing is claimed of the sender. While the
source keeps what it copied, the list is the one that every announcement and promise names
(`ServerInv`, `AnnouncedInv`): no announcement of another list is on its way, and what the
thread has opened and has still to open make up that list. `PasteInv` is then what a paste
has read: whole files and the beginning of one more. TLC checked `TransferInv` on the
instances of PullTwo and PullLong before it was proved.

**TrayProofs.** For any number of windows, devices, addresses and fields of a line, and
whatever ends half-way.

* `LoopsInvariant`, `LoopsTyped`, `NoWindowDangles`. `NoDanglingState` needs two facts more:
  there are no more loops than windows were opened, and a loop that leaves the stack is the
  last one, to which only the pointer of its own kind can have pointed.
* `ThreadsInvariant`, `TrayTyped`. Which steps each thread can be in, that the discovery and
  the pairing thread hold the mutex exactly while they are at work, and that a text about to
  be written is a whole one.
* The text. `ReadsBack`: `Parse(Serialize(c)) = c` for every configuration, whose lists of
  ids are not a single blank (`IdList`: such a list is written as an empty one).
  `OverlayIs`: what is left when a text is written over a longer one lists the same
  machines. `AddDeviceIs`, `SetAddressIs`: whom these list. None needs an induction, because
  `Parse` names the lines it takes by their number among their kind (`NthOfInterval`).
* `KeysInvariant`, `KeysComeFirst`. `ListedHaveKeys` compares what is in memory; a restart
  reads it from two files written at different times, one of them perhaps by a save that was
  under way. `KeysInv` therefore says of everyone who is listed in memory, in the file or in
  a text about to be written that the key is in the key file, and it covers the moment in
  which that file is cut short, when the keys are in memory alone.
* `SavesInvariant`, `SavesReachTheFile`. `SaveInv` says that, unless a save met another one
  or could not open the file, one thread at most saves and the file is empty meanwhile; and
  that what is in memory is in the file, or is the text about to be written, or a thread is
  still to read it. `SavedAreDone` covers the settings that were changed in a window whose
  loop has not returned. With `ReadsBack` this gives `SavedWhenQuiet`.

Model-checked only:

* All liveness, which needs fairness and `ENABLED`.
* Discovery: its runs check liveness, and its module has no theorem.
* That `Parse` is what `Config::parse` comes to line by line (`ParseGoesLineByLine`, a fold),
  and `ParseHotkey`: checked on small texts.
* The statements about the last claim of a stable mesh, links that end up standing, and the
  machines that discovery lists: liveness as well.

## 6. Mutants

Beside a definition stand variants of it (`Name_How`, each marked `Mutant:`): what a
plausible mistake in that code would make of it, such as a watchdog that does not forget a
removed peer or a counter that moves only when the transport reports success. Replacing
the definition by its variant makes a run fail on the property that `PROJECT.json` lists
with it. No specification uses them.

## 7. What is left out, and simplifications

Not modelled: cryptographic primitives (of the operating system; what they are relied on
for is stated in SecureChannel and PairingSession), the session token (used by tests
only), the translation of keys (a pair of tables), logging, the mac glue (the mac tray does
not run the mesh), composing and sending a magic packet and the self-diagnosis of it
(output only).

Simplifications, each one inside the module that it belongs to:

* A peer with another protocol version does not occur (MeshNode).
* A machine that loses power is seen by its peers as closing its connections (PeerLinks):
  the silent kind is the watchdog's, in MeshNode. A handshake that blocks for ever on a
  peer that says nothing is not modelled there: the code has no time-out, and that a dial
  and an accept of the net thread end is an assumption of `EventuallyLinked`. PairingSession makes it of the accept only, FileTransfer of neither.
* The HTTP upgrade and TLS are their outcome (PeerLinks, FrameStream). A frame header is one
  unit; masking is undone by the frame that it comes with.
* SecureChannel is one link. `EncryptedTransport` takes the pairing key itself
  (`app/secure_link.cpp`) and starts its counters at 0 for every connection; the module
  and its theorems speak of the frames of one connection ("per session", `src/spec.md`
  5.4) and claim nothing about nonces across the connections of a pair.
* Links in InputHandoff break for good; movements are left out, as is the time a wake takes.
  Nothing in the repository fills in `mac` and `wol_capable` of a device: a wake begins
  only with a configuration edited by hand.
* Of the settings, the hotkey and the start-up flag stand for all; of a device its id and
  last address. The monitors are left out: nothing writes them. That escaping keeps
  separators out of a field is taken for granted (ConfigFile).
* A machine pairs again only after the session before it is over, and the thread of
  that session has ended by then (TrayApp; PairingSession has the races in between).
  The list of machines that the picker shows is in Discovery.
* The machine that answers a dial to pair is the one that was picked (Discovery), and a dial to
  a machine that is pairing already comes to nothing.
* A change of the clipboard posts one notification (ClipboardMesh).
* Commitments in a pairing are honest (PairingSession).
* The table of peer addresses that the mesh keeps for the file channel is not in Discovery.
* A destination has one session at a time, and a promise waits for a paste that runs
  (FileTransfer).
