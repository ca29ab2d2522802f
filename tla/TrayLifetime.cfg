SPECIFICATION FairSpec
CONSTANTS
  Device = {"Q"}
  Addr = {"b"}
  HotkeyTexts <- SameHotkey
  Taken <- NoneTaken
  FirstFile <- NonePaired
  MaxFaults = 1
  MaxOpened = 2
  DestroyTakesFocus = TRUE
  Word <- Words
  Torn = Torn
  NoKeys = NoKeys
  Nobody = Nobody
INVARIANTS
  SavedWhenQuiet
  ListedHaveKeys
  NoDanglingState
PROPERTY
  QuitsEnd
