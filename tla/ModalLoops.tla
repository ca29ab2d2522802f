----------------------------- MODULE ModalLoops -----------------------------
(***************************************************************************)
(* The windows of the tray application and the message loops that run      *)
(* while they are open (showSettingsWindow, showPicker,                    *)
(* showDiscoveryPicker), all on the UI thread.                             *)
(*                                                                         *)
(* Each of the three opens a window and runs a loop of its own until the   *)
(* window is answered.  That loop hands out the messages of all windows,   *)
(* the tray's own among them, so that a window can be opened while another *)
(* loop runs: the loops form a stack, of which only the innermost runs.    *)
(* What a window does goes to the state of the loop that its kind's global *)
(* variable points to (g_ss, g_ps, g_disco), whichever loop the window     *)
(* was opened by; windows of a kind are therefore only counted.            *)
(*                                                                         *)
(* External, the window system: the picker has the focus as long as it is  *)
(* open, and gets WM_KILLFOCUS when it loses it.  WM_QUIT ends the loop    *)
(* that takes it out of the queue.                                         *)
(***************************************************************************)
EXTENDS Naturals, Sequences, SequencesExt

CONSTANTS
  MaxOpened,         \* bound: how many windows are opened before the application ends
  DestroyTakesFocus  \* a window that is destroyed with the focus gets WM_KILLFOCUS

ASSUME LoopsAssumption == MaxOpened \in Nat /\ DestroyTakesFocus \in BOOLEAN

Kind == {"settings", "picker", "add"}

VARIABLES
  loops,    \* the stack of loops, each with what is in its state
  state,    \* the loop whose state the global variable of a kind points to, 0 for nullptr
  windows,  \* how many windows of a kind are open
  quitting, \* WM_QUIT is in the queue
  opened    \* how many windows were opened

loopVars == <<loops, state, windows, quitting, opened>>

(* result: the settings were saved, a machine was chosen; was: wasStartup. *)
Loop == [kind : Kind, done : BOOLEAN, result : BOOLEAN, was : BOOLEAN]

LoopsTypeOK ==
  /\ loops \in Seq(Loop) /\ Len(loops) <= MaxOpened
  /\ state \in [Kind -> 0..MaxOpened]
  /\ windows \in [Kind -> 0..MaxOpened]
  /\ quitting \in BOOLEAN
  /\ opened \in 0..MaxOpened

LoopsInit ==
  /\ loops = <<>>
  /\ state = [k \in Kind |-> 0]
  /\ windows = [k \in Kind |-> 0]
  /\ quitting = FALSE
  /\ opened = 0

(* The application is gone and its windows with it. *)
LoopsEnd ==
  /\ loops' = <<>>
  /\ state' = [k \in Kind |-> 0]
  /\ windows' = [k \in Kind |-> 0]
  /\ quitting' = FALSE
  /\ opened' = 0

(* A loop looks at its flag before it waits for a message. *)
Returning == loops # <<>> /\ Last(loops).done
Dispatching == ~Returning
----------------------------------------------------------------------------
(* A state is pointed to, a window shown, and the loop begins.  A picker takes
   the focus from the picker that is open: that one finds the state of the new
   one when it loses the focus, and closes. *)
ShowWindow(kind, was) ==
  LET replaces == kind = "picker" /\ windows["picker"] > 0
  IN  /\ opened < MaxOpened
      /\ opened' = opened + 1
      /\ loops' = Append(loops, [kind |-> kind, done |-> replaces, result |-> FALSE,
                                 was |-> kind = "settings" /\ was = TRUE])
      /\ state' = [state EXCEPT ![kind] = Len(loops) + 1]
      /\ windows' = IF replaces THEN windows ELSE [windows EXCEPT ![kind] = @ + 1]
      /\ UNCHANGED quitting

(* The hotkey is taken whatever is open.  To reach the tray's menu the user
   leaves the picker.  A session that is over has closed its window. *)
OpenPicker == Dispatching /\ ShowWindow("picker", FALSE)

OpenFromMenu(kind, was) ==
  /\ Dispatching
  /\ kind # "picker" /\ windows["picker"] = 0
  /\ kind = "add" => \A i \in DOMAIN loops : loops[i].kind = "add" => loops[i].done
  /\ ShowWindow(kind, was)

(* Quit in the menu. *)
AskQuit ==
  /\ Dispatching
  /\ windows["picker"] = 0
  /\ quitting' = TRUE
  /\ UNCHANGED <<loops, state, windows, opened>>
----------------------------------------------------------------------------
(* A window is answered or closed: the state of its kind is done, if there is
   one.  What was saved or chosen stays, unless the picker takes it back. *)
Answer(kind, result) ==
  /\ Dispatching
  /\ windows[kind] > 0
  /\ windows' = [windows EXCEPT ![kind] = @ - 1]
  /\ loops' = IF state[kind] = 0 THEN loops
              ELSE [loops EXCEPT ![state[kind]].done = TRUE,
                                 ![state[kind]].result = (@ /\ kind # "picker") \/ result]
  /\ UNCHANGED <<state, quitting, opened>>

(* applyAndClose *)
AnswerSettings(save) == windows["picker"] = 0 /\ Answer("settings", save)

(* The buttons of the discovery picker and its close, which a pairing thread posts
   as well, whatever else is open (endPairingSession). *)
AnswerAdd(ok) ==
  /\ ok => windows["picker"] = 0
  /\ state["add"] # 0
  /\ Answer("add", ok)

(* Without a state they follow the null pointer. *)
FollowsNull ==
  Dispatching /\ windows["add"] > 0 /\ state["add"] = 0

(* Enter leaves a result and Escape none; then the window is destroyed, and
   clears the result as it loses the focus.  Without a state it ignores keys. *)
PickerKey(enter) ==
  /\ state["picker"] # 0
  /\ Answer("picker", enter /\ ~DestroyTakesFocus)

PickerLosesFocus == Answer("picker", FALSE)
----------------------------------------------------------------------------
(* Mutant: a loop returns without `g_ss = nullptr'. *)
Leave_KeepsState ==
  /\ loops' = Front(loops)
  /\ UNCHANGED <<state, windows, opened>>

(* The innermost loop ends, because it is done or because it took WM_QUIT; the
   global variable points to nothing, whatever it pointed to. *)
Leave ==
  /\ loops' = Front(loops)
  /\ state' = [state EXCEPT ![Last(loops).kind] = 0]
  /\ UNCHANGED <<windows, opened>>

Return == Returning /\ Leave /\ UNCHANGED quitting

(* Mutant: the loop looks at its flag only, not at what GetMessage returns. *)
TakeQuit_GoesOn ==
  /\ quitting /\ Dispatching /\ loops # <<>>
  /\ quitting' = FALSE
  /\ UNCHANGED <<loops, state, windows, opened>>

TakeQuit ==
  /\ quitting /\ Dispatching /\ loops # <<>>
  /\ quitting' = FALSE
  /\ Leave

(* The main loop takes it when no other loop runs. *)
LastQuit == quitting /\ loops = <<>>
----------------------------------------------------------------------------
(* Properties *)

(* What a window writes to is the state of a loop of its kind that still runs:
   no handler reaches into the frame of a function that has returned. *)
NoDanglingState ==
  \A k \in Kind : state[k] # 0 => state[k] <= Len(loops) /\ loops[state[k]].kind = k

(* "A local message loop runs while it is open; Esc / lost-focus dismiss it"
   (picker_window_win.cpp): a loop that is not done can be ended by a window
   of its kind. *)
LoopOnlyWhileOpen ==
  \A i \in DOMAIN loops : ~loops[i].done => state[loops[i].kind] = i /\ windows[loops[i].kind] > 0

(* "Enter to switch" (spec.md 4.2): what the user chose with Enter is what
   showPicker returns. *)
EnterChooses ==
  [][\A i \in DOMAIN loops :
       PickerKey(TRUE) /\ state["picker"] = i => loops'[i].result]_loopVars
=============================================================================
