----------------------------- MODULE DeviceStore -----------------------------
(***************************************************************************)
(* What a machine knows of the others, in memory and on disk: the          *)
(* configuration and the keys (core/config, pairing/key_store) and the     *)
(* threads of the tray application that change and save them               *)
(* (platform/tray_win).                                                    *)
(*                                                                         *)
(*   disco  the discovery thread follows a device to a new address;        *)
(*   pair   a pairing thread stores the key and the device of a session    *)
(*          that ended well;                                               *)
(*   ui     the UI thread changes settings.                                *)
(*                                                                         *)
(* The first two hold stateMutex from before they change anything until    *)
(* the files are closed; the UI thread takes no mutex.  Saving truncates   *)
(* the file, then forms the text from memory as it is at that moment, then *)
(* writes it.  The outcome of a save is looked at by nobody.  The          *)
(* application may end at any moment, by a crash or because the user quits *)
(* (see TrayApp), and starts again from its files.                         *)
(***************************************************************************)
EXTENDS ConfigFile

CONSTANTS
  Device,       \* the ids of the machines to pair with
  Addr,         \* their addresses
  HotkeyTexts,  \* what users enter as the hotkey
  FirstFile,    \* the text of the configuration file in the beginning
  MaxFaults,    \* bound: how often the application ends or a file cannot be opened
  NoKeys,       \* a key file that cannot be read: cut short
  Nobody        \* no thread

Thread == {"ui", "disco", "pair"}

ASSUME StoreAssumption ==
  /\ Device \subseteq Word \ {""} /\ Addr \subseteq Word \ {NoAddr}
  /\ HotkeyTexts \subseteq Seq(Word)
  /\ FirstFile \in Seq(Line)
  /\ MaxFaults \in Nat
  /\ \A ids \in SUBSET Device : ids # NoKeys
  /\ Nobody \notin Thread

VARIABLES
  running,     \* the application runs
  config,      \* config
  keys,        \* keys: the machines whose key is known
  configFile,  \* config.txt
  keyFile,     \* keys.dat
  task,        \* isAutostartEnabled: the application is started at log-on
  mutex,       \* the thread that holds stateMutex
  at,          \* where each thread stands in the operation it performs
  job,         \* the device, with its address, that disco and pair work on
  draft,       \* the text a thread has formed and not yet written
  retask,      \* after this save, the UI thread changes the log-on task
  mixed,       \* history: a save of the UI thread met another one, or a file was not opened
  keyFault,    \* history: a save of the keys failed or was cut short
  faults

storeVars == <<running, config, keys, configFile, keyFile, task, mutex, at, job, draft, retask,
          mixed, keyFault, faults>>
memory == <<config, keys>>
files == <<configFile, keyFile>>
history == <<mixed, keyFault, faults>>

NoJob == [id |-> "", ip |-> ""]

StoreTypeOK ==
  /\ running \in BOOLEAN /\ task \in BOOLEAN /\ retask \in BOOLEAN
  /\ config \in Config
  /\ keys \subseteq Device
  /\ (keyFile = NoKeys \/ keyFile \subseteq Device)
  /\ configFile \in Seq(Line) /\ draft \in [Thread -> Seq(Line)]
  /\ mutex \in {"disco", "pair", Nobody}
  /\ at \in [Thread -> {"idle", "assign", "setPsk", "openKeys", "writeKeys", "add",
                        "open", "serialize", "write", "task"}]
  /\ job \in [Thread -> [id : Device \cup {""}, ip : Addr \cup {NoAddr}]]
  /\ mixed \in BOOLEAN /\ keyFault \in BOOLEAN
  /\ faults \in 0..MaxFaults
  /\ ~running => at = [t \in Thread |-> "idle"] /\ mutex = Nobody

StoreInit ==
  /\ running = FALSE
  /\ config = DefaultConfig /\ keys = {}
  /\ configFile = FirstFile
  /\ keyFile = Ids(Parse(FirstFile)) \cap Device
  /\ task = Parse(FirstFile).startup
  /\ mutex = Nobody
  /\ at = [t \in Thread |-> "idle"]
  /\ job = [t \in Thread |-> NoJob]
  /\ draft = [t \in Thread |-> <<>>]
  /\ retask = FALSE
  /\ mixed = FALSE /\ keyFault = FALSE /\ faults = 0
----------------------------------------------------------------------------
(* KeyStore::loadFromFile *)
ReadKeys == IF keyFile = NoKeys THEN {} ELSE keyFile

(* The application begins: what can be read of the files is loaded. *)
Load ==
  /\ ~running
  /\ running' = TRUE
  /\ config' = Parse(configFile)
  /\ keys' = ReadKeys
  /\ mixed' = FALSE
  /\ UNCHANGED <<files, task, mutex, at, job, draft, retask, keyFault, faults>>

(* It ends, wherever its threads are; a text that is not written yet is lost,
   and the file stays empty. *)
Stop ==
  /\ running
  /\ running' = FALSE
  /\ config' = DefaultConfig /\ keys' = {}
  /\ keyFault' = (keyFault \/ at["pair"] = "writeKeys")
  /\ mutex' = Nobody
  /\ at' = [t \in Thread |-> "idle"]
  /\ job' = [t \in Thread |-> NoJob]
  /\ draft' = [t \in Thread |-> <<>>]
  /\ retask' = FALSE
  /\ UNCHANGED <<files, task, mixed>>

Crash ==
  /\ faults < MaxFaults
  /\ faults' = faults + 1
  /\ Stop
----------------------------------------------------------------------------
(* Config::saveToFile, by any of the threads. *)

Saving(t) == at[t] \in {"serialize", "write"}

MeetsAnother(t) ==
  \E u \in Thread \ {t} : Saving(u) /\ "ui" \in {t, u}

Open(t) ==
  /\ at[t] = "open"
  /\ at' = [at EXCEPT ![t] = "serialize"]
  /\ configFile' = <<>>
  /\ mixed' = MeetsAnother(t)
  /\ UNCHANGED <<running, memory, keyFile, task, mutex, job, draft, retask, keyFault, faults>>

(* Where a thread goes on when its save is over. *)
Unlock(t) == mutex' = IF mutex = t THEN Nobody ELSE mutex
Done(t) ==
  /\ at' = [at EXCEPT ![t] = IF t = "ui" /\ retask THEN "task" ELSE "idle"]
  /\ job' = [job EXCEPT ![t] = NoJob]
  /\ draft' = [draft EXCEPT ![t] = <<>>]
  /\ Unlock(t)

(* The file cannot be opened, because another program reads it or the disk
   is full: saveToFile returns false, and nobody asks. *)
OpenFails(t) ==
  /\ at[t] = "open"
  /\ faults < MaxFaults
  /\ faults' = faults + 1
  /\ mixed' = TRUE
  /\ Done(t)
  /\ UNCHANGED <<running, memory, files, task, retask, keyFault>>

(* The text is formed from memory.  A thread without the mutex may read an
   address while another one assigns it. *)
Readings(t) ==
  {config} \cup IF mutex \notin {t, Nobody} /\ at[mutex] = "assign"
                THEN {SetAddress(config, job[mutex].id, Torn)} ELSE {}

SerializeConfig(t) ==
  /\ at[t] = "serialize"
  /\ at' = [at EXCEPT ![t] = "write"]
  /\ \E c \in Readings(t) : draft' = [draft EXCEPT ![t] = Serialize(c)]
  /\ UNCHANGED <<running, memory, files, task, mutex, job, retask, history>>

Write(t) ==
  /\ at[t] = "write"
  /\ configFile' \in Overlays(draft[t], configFile)
  /\ Done(t)
  /\ UNCHANGED <<running, memory, keyFile, task, retask, history>>

Save(t) == Open(t) \/ OpenFails(t) \/ SerializeConfig(t) \/ Write(t)
----------------------------------------------------------------------------
(* The discovery thread: a beacon from a paired device at another address. *)
BeaconMoves(id, ip) ==
  /\ running
  /\ at["disco"] = "idle" /\ mutex = Nobody
  /\ HasOtherAddress(config, id, ip)
  /\ mutex' = "disco"
  /\ at' = [at EXCEPT !["disco"] = "assign"]
  /\ job' = [job EXCEPT !["disco"] = [id |-> id, ip |-> ip]]
  /\ UNCHANGED <<running, memory, files, task, draft, retask, history>>

(* Mutant: the mutex guards the change and not the save that follows. *)
AssignAddress_Unlocks ==
  /\ at["disco"] = "assign"
  /\ config' = SetAddress(config, job["disco"].id, job["disco"].ip)
  /\ at' = [at EXCEPT !["disco"] = "open"]
  /\ mutex' = Nobody
  /\ UNCHANGED <<running, keys, files, task, job, draft, retask, history>>

AssignAddress ==
  /\ at["disco"] = "assign"
  /\ config' = SetAddress(config, job["disco"].id, job["disco"].ip)
  /\ at' = [at EXCEPT !["disco"] = "open"]
  /\ UNCHANGED <<running, keys, files, task, mutex, job, draft, retask, history>>

----------------------------------------------------------------------------
(* A pairing thread, when both users have confirmed.  The address is known if
   this machine dialed, which it does to a machine its picker shows. *)
Hidden(id) == id \in Ids(config)

PairingConfirmed(id, ip) ==
  /\ running
  /\ at["pair"] = "idle" /\ mutex = Nobody
  /\ ip # NoAddr => ~Hidden(id)
  /\ mutex' = "pair"
  /\ at' = [at EXCEPT !["pair"] = "setPsk"]
  /\ job' = [job EXCEPT !["pair"] = [id |-> id, ip |-> ip]]
  /\ UNCHANGED <<running, memory, files, task, draft, retask, history>>

(* Mutant: the key is not saved. *)
SetPsk_NotSaved ==
  /\ at["pair"] = "setPsk"
  /\ keys' = keys \cup {job["pair"].id}
  /\ at' = [at EXCEPT !["pair"] = "add"]
  /\ UNCHANGED <<running, config, files, task, mutex, job, draft, retask, history>>

SetPsk ==
  /\ at["pair"] = "setPsk"
  /\ keys' = keys \cup {job["pair"].id}
  /\ at' = [at EXCEPT !["pair"] = "openKeys"]
  /\ UNCHANGED <<running, config, files, task, mutex, job, draft, retask, history>>

(* KeyStore::saveToFile forms and seals the text before it opens the file. *)
OpenKeys ==
  /\ at["pair"] = "openKeys"
  /\ keyFile' = NoKeys
  /\ at' = [at EXCEPT !["pair"] = "writeKeys"]
  /\ UNCHANGED <<running, memory, configFile, task, mutex, job, draft, retask, history>>

OpenKeysFails ==
  /\ at["pair"] = "openKeys"
  /\ faults < MaxFaults
  /\ faults' = faults + 1
  /\ keyFault' = TRUE
  /\ at' = [at EXCEPT !["pair"] = "add"]
  /\ UNCHANGED <<running, memory, files, task, mutex, job, draft, retask, mixed>>

WriteKeys ==
  /\ at["pair"] = "writeKeys"
  /\ keyFile' = keys
  /\ at' = [at EXCEPT !["pair"] = "add"]
  /\ UNCHANGED <<running, memory, configFile, task, mutex, job, draft, retask, history>>

AddPaired ==
  /\ at["pair"] = "add"
  /\ config' = AddDevice(config, job["pair"])
  /\ at' = [at EXCEPT !["pair"] = "open"]
  /\ UNCHANGED <<running, keys, files, task, mutex, job, draft, retask, history>>
----------------------------------------------------------------------------
(* The UI thread. *)

(* The settings window writes to memory when Save is pressed; its values go to
   the file when its loop has returned, and a start-up flag that is not what
   it was when the window opened then changes the log-on task. *)
EnterSettings(text, startup) ==
  /\ running /\ at["ui"] = "idle"
  /\ config' = [config EXCEPT !.hotkey = text, !.startup = startup]
  /\ UNCHANGED <<running, keys, files, task, mutex, at, job, draft, retask, history>>

SaveSettings(was) ==
  /\ running /\ at["ui"] = "idle"
  /\ at' = [at EXCEPT !["ui"] = "open"]
  /\ retask' = (config.startup # was)
  /\ UNCHANGED <<running, memory, files, task, mutex, job, draft, history>>

(* The user is asked for administrator rights; when the task cannot be
   changed, or there is none to delete, the setting is taken back and saved
   once more. *)
ChangeTask ==
  /\ at["ui"] = "task"
  /\ retask' = FALSE
  /\ \/ /\ config.startup \/ task
        /\ task' = config.startup
        /\ at' = [at EXCEPT !["ui"] = "idle"]
        /\ UNCHANGED config
     \/ /\ config' = [config EXCEPT !.startup = ~@]
        /\ at' = [at EXCEPT !["ui"] = "open"]
        /\ UNCHANGED task
  /\ UNCHANGED <<running, keys, files, mutex, job, draft, history>>

(* "Run on startup" in the menu: the task first, then the setting. *)
ToggleStartup ==
  /\ running /\ at["ui"] = "idle"
  /\ task' = ~task
  /\ config' = [config EXCEPT !.startup = ~task]
  /\ at' = [at EXCEPT !["ui"] = "open"]
  /\ UNCHANGED <<running, keys, files, mutex, job, draft, retask, history>>

(* Steps of the threads on their own. *)
Background ==
  \/ \E t \in Thread : Save(t)
  \/ AssignAddress \/ SetPsk \/ OpenKeys \/ OpenKeysFails \/ WriteKeys \/ AddPaired
  \/ ChangeTask
  \/ \E id \in Device, ip \in Addr : BeaconMoves(id, ip)
----------------------------------------------------------------------------
(* Properties *)

Quiet == running /\ \A t \in Thread : at[t] = "idle"

(* A device is written to the configuration only after its key is in the key
   file: whatever the moment at which the application ends, no machine is
   listed without a key, unless it is the save of the keys that is cut short
   or fails (runPairingSession). *)
ListedHaveKeys ==
  ~keyFault /\ at["pair"] # "writeKeys" =>
    (Ids(Parse(configFile)) \cup Ids(config)) \cap Device \subseteq keyFile

(* "guards config.devices + keys" (tray_win.cpp, stateMutex): nobody reads or
   changes them unless it holds the mutex. *)
GuardedByStateMutex ==
  at["ui"] = "serialize" => mutex = Nobody

(* "Hide devices we're already paired with (nothing to add there)"
   (refreshDiscoveryList): a machine the picker hides has a key. *)
HiddenArePaired == Quiet => \A id \in Device : Hidden(id) => id \in keys

(* What the beacons brought is in the file when nobody saves: it survives a
   restart. *)
AddressesSurvive == Quiet => Parse(configFile).devices = config.devices
=============================================================================
