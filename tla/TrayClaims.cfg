\* What documents say of the windows and files of the tray application and the
\* code does not keep: one of them at a time (EnterChooses is a PROPERTY).
SPECIFICATION Spec
CONSTANTS
  Device = {"Q"}
  Addr = {"b"}
  HotkeyTexts <- OtherHotkeys
  Taken <- F9Taken
  FirstFile <- NonePaired
  MaxFaults = 0
  MaxOpened = 2
  DestroyTakesFocus = TRUE
  Word <- Words
  Torn = Torn
  NoKeys = NoKeys
  Nobody = Nobody
INVARIANTS
  TypeOK
  ReclaimIsTheHotkey
\*  GuardedByStateMutex
\*  HiddenArePaired
\*  AddressesSurvive
\*  LoopOnlyWhileOpen
\*  SavePersistsAtOnce
\*  StartupMatchesTask
\* PROPERTY
\*  EnterChooses
