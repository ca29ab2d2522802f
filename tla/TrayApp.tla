------------------------------- MODULE TrayApp -------------------------------
(***************************************************************************)
(* The life of the tray application on one machine (runTrayApp, wndProc):  *)
(* it loads its files, registers the hotkey, runs windows and threads, and *)
(* ends with whatever they have done by then.  ModalLoops has the windows, *)
(* DeviceStore the threads and the files; here the user acts on both.      *)
(*                                                                         *)
(* While the UI thread saves, or waits for the user to approve a change of *)
(* the log-on task, it hands out no message.  At the end nothing is joined *)
(* and nothing closed: Quit posts WM_QUIT, the main loop returns, and the  *)
(* threads end with the process (the handler of WM_DESTROY would join      *)
(* them, but nobody destroys the main window).                             *)
(***************************************************************************)
EXTENDS DeviceStore, ModalLoops

CONSTANT Taken   \* the combinations of keys that other applications own

VARIABLES
  hotkey,  \* the combination that opens the picker
  chord,   \* the combination that ends driving
  pairing  \* pairingActive, until the users have confirmed

vars == <<storeVars, loopVars, hotkey, chord, pairing>>

TypeOK ==
  /\ StoreTypeOK /\ LoopsTypeOK /\ pairing \in BOOLEAN
  /\ ~running => loops = <<>> /\ ~quitting

Init ==
  /\ StoreInit /\ LoopsInit
  /\ hotkey = NoHotkey /\ chord = NoHotkey /\ pairing = FALSE
----------------------------------------------------------------------------
(* The hotkey and the chord are read from the configuration once. *)
Begin ==
  /\ Load
  /\ hotkey' = Registered(config'.hotkey, Taken)
  /\ chord' = ReclaimChord(config'.hotkey)
  /\ UNCHANGED <<loopVars, pairing>>

Ends ==
  /\ LoopsEnd
  /\ hotkey' = NoHotkey /\ chord' = NoHotkey /\ pairing' = FALSE

(* The machine goes down, or the application does. *)
Dies == Crash /\ Ends

(* The UI thread takes a message of the user's. *)
Interactive == running /\ at["ui"] = "idle"
InLoops(A) == Interactive /\ A /\ UNCHANGED <<storeVars, hotkey, chord, pairing>>

(* One pairing session at a time; the thread of the last one is joined. *)
OpensAdd ==
  /\ Interactive
  /\ ~pairing /\ at["pair"] = "idle"
  /\ OpenFromMenu("add", FALSE)
  /\ pairing' = TRUE
  /\ UNCHANGED <<storeVars, hotkey, chord>>

Opens ==
  \/ hotkey.valid /\ InLoops(OpenPicker)
  \/ InLoops(OpenFromMenu("settings", config.startup))
  \/ OpensAdd

Answers ==
  \/ \E enter \in BOOLEAN : InLoops(PickerKey(enter))
  \/ InLoops(PickerLosesFocus)
  \/ \E ok \in BOOLEAN : InLoops(AnswerAdd(ok))
  \/ InLoops(AnswerSettings(FALSE))

PressSave(text, startup) ==
  /\ Interactive
  /\ AnswerSettings(TRUE)
  /\ IF state["settings"] # 0 THEN EnterSettings(text, startup) ELSE UNCHANGED storeVars
  /\ UNCHANGED <<hotkey, chord, pairing>>

MenuStartup ==
  /\ Dispatching /\ windows["picker"] = 0
  /\ ToggleStartup
  /\ UNCHANGED <<loopVars, hotkey, chord, pairing>>

(* Without a choice the session is over, unless another machine has dialed. *)
EndsSession(loop) ==
  \/ UNCHANGED pairing
  \/ loop.kind = "add" /\ ~loop.result /\ pairing' = FALSE

(* A loop returns, and what its caller does with the result. *)
LoopReturns ==
  /\ Interactive
  /\ Return
  /\ IF Last(loops).kind = "settings" /\ Last(loops).result
     THEN SaveSettings(Last(loops).was) ELSE UNCHANGED storeVars
  /\ UNCHANGED <<hotkey, chord>>
  /\ EndsSession(Last(loops))

Quits == InLoops(AskQuit)

LoopTakesQuit ==
  /\ Interactive
  /\ TakeQuit
  /\ EndsSession([Last(loops) EXCEPT !.result = FALSE])
  /\ UNCHANGED <<storeVars, hotkey, chord>>

(* The main loop returns: the process ends, as it does at a null pointer. *)
MainLoopTakesQuit == Interactive /\ LastQuit /\ Stop /\ UNCHANGED faults /\ Ends

NullPointer == Interactive /\ FollowsNull /\ Stop /\ UNCHANGED faults /\ Ends

(* The users of two machines confirm, or the session ends without. *)
Pairs ==
  /\ pairing /\ pairing' = FALSE
  /\ \/ \E id \in Device, ip \in Addr \cup {NoAddr} : PairingConfirmed(id, ip)
     \/ running /\ UNCHANGED storeVars
  /\ UNCHANGED <<loopVars, hotkey, chord>>

Works == Background /\ UNCHANGED <<loopVars, hotkey, chord, pairing>>

Next ==
  \/ Begin \/ Dies \/ Opens \/ Answers \/ MenuStartup \/ LoopReturns
  \/ Quits \/ LoopTakesQuit \/ MainLoopTakesQuit \/ NullPointer \/ Pairs \/ Works
  \/ \E text \in HotkeyTexts, startup \in BOOLEAN : PressSave(text, startup)

Spec == Init /\ [][Next]_vars

(* What the innermost loop of the UI thread does without the user: it returns when
   its window is done, and otherwise takes WM_QUIT. *)
InnermostLoop == LoopReturns \/ LoopTakesQuit \/ MainLoopTakesQuit

(* Threads that have begun to save go on, the user answers the question for
   administrator rights, and the innermost loop ends when it can. *)
FairSpec == Spec /\ WF_vars(Works) /\ WF_vars(InnermostLoop)
----------------------------------------------------------------------------
(* Properties *)

(* The settings window was saved, its loop has not returned. *)
Unsaved == \E i \in DOMAIN loops : loops[i].kind = "settings" /\ loops[i].result

(* Once no thread saves, the file reads as what is in memory, so that a new
   start brings back the same settings, devices and addresses ("survive
   restart", tray_win.cpp) -- unless a save of the UI thread, which takes no
   mutex, met another one, or the file could not be opened; the next save
   makes up for both. *)
SavedWhenQuiet == Quiet /\ ~Unsaved /\ ~mixed => Parse(configFile) = config

(* A user who opens and changes nothing more and keeps asking to quit gets the application
   to end: each loop takes one WM_QUIT, and the main loop the last. *)
QuitsEnd ==
  /\ []<>(running => quitting)
  /\ <>[][~(Opens \/ MenuStartup)]_vars
  => []<>~running

(* "On Save, persist and apply run-on-startup immediately" (wndProc): saved
   settings do not wait for another window to be closed. *)
SavePersistsAtOnce ==
  \A i \in DOMAIN loops : loops[i].kind = "settings" /\ loops[i].result => i = Len(loops)

(* "a declined prompt leaves the setting unchanged" (wndProc): the setting and
   the log-on task agree when nothing is left to do. *)
StartupMatchesTask == Quiet /\ ~Unsaved /\ faults = 0 => config.startup = task

(* "the capture hook itself watches for the same combo" (runTrayApp): what ends
   driving is the combination that is registered. *)
ReclaimIsTheHotkey == hotkey.valid => chord = hotkey
=============================================================================
