----------------------------- MODULE ConfigFile -----------------------------
(***************************************************************************)
(* The configuration (core/config) and its text.                           *)
(*                                                                         *)
(* A text is a sequence of lines, a line a key with its fields; that       *)
(* escaping keeps separators out of a field is taken for granted.  Of the  *)
(* settings, the hotkey and the start-up flag stand for all; of a device,  *)
(* its id and its last address, as the rest is the same for every device   *)
(* that was paired by the application.  The monitors, which only an editor *)
(* of the file can enter, are left out.                                    *)
(*                                                                         *)
(* Two threads that save at once write over one another, because saving    *)
(* truncates the file and writes it from the start: what is left of the    *)
(* two texts is defined here, when it happens is said in DeviceStore.  A   *)
(* text is shorter than the buffer of the stream, so that it reaches the   *)
(* file as a whole or, if the application ends before, not at all.         *)
(***************************************************************************)
EXTENDS Hotkey, SequencesExt, FiniteSetsExt

CONSTANTS
  Word,  \* what a field of a line can say
  Torn   \* an address that was read while another thread assigned it

NoAddr == ""    \* last_ip of a device that was never seen: empty

ASSUME WordAssumption == {"", "0", "1", "ctrl", "alt", "space", Torn} \subseteq Word

(* The keys that are known, and "" for all others. *)
LineKey == {"setting.hotkey", "setting.run_on_startup", "device", "priority", "ineligible", ""}
Line == [key : LineKey, fields : Seq(Word)]

(* A list of ids whose only member is blank cannot be told from an empty one. *)
IdList == Seq(Word) \ {<<"">>}

Config == [hotkey : Seq(Word), startup : BOOLEAN, devices : Seq([id : Word, ip : Word]),
           priority : IdList, ineligible : IdList]

(* Config{}: what a machine starts with that has no file. *)
DefaultConfig ==
  [hotkey |-> CtrlAltSpace, startup |-> FALSE, devices |-> <<>>,
   priority |-> <<>>, ineligible |-> <<>>]

Yes == <<"1">>
No == <<"0">>

Serialize(c) ==
  << [key |-> "setting.hotkey", fields |-> c.hotkey],
     [key |-> "setting.run_on_startup", fields |-> IF c.startup THEN Yes ELSE No] >>
  \o [i \in DOMAIN c.devices |->
        [key |-> "device", fields |-> <<c.devices[i].id, c.devices[i].ip>>]]
  \o << [key |-> "priority", fields |-> c.priority],
        [key |-> "ineligible", fields |-> c.ineligible] >>

Field(line, i) == IF i \in DOMAIN line.fields THEN line.fields[i] ELSE ""

(* splitFields: a blank value has no fields. *)
IdsIn(fields) == IF fields = <<"">> THEN <<>> ELSE fields

Lines(text, key) == {i \in DOMAIN text : text[i].key = key}

(* The nth of a set of lines, in their order. *)
Nth(S, n) == CHOOSE i \in S : Cardinality({j \in S : j <= i}) = n

(* Of a setting the last line holds. *)
Setting(text, key, default) ==
  LET S == Lines(text, key)
  IN  IF S = {} THEN default ELSE text[Nth(S, Cardinality(S))].fields

(* One line of Config::parse: what is not known is passed over. *)
ParseLine(c, line) ==
  CASE line.key = "setting.hotkey" -> [c EXCEPT !.hotkey = line.fields]
    [] line.key = "setting.run_on_startup" -> [c EXCEPT !.startup = (line.fields = Yes)]
    [] line.key = "device" ->
         [c EXCEPT !.devices = Append(@, [id |-> Field(line, 1), ip |-> Field(line, 2)])]
    [] line.key = "priority" -> [c EXCEPT !.priority = IdsIn(line.fields)]
    [] line.key = "ineligible" -> [c EXCEPT !.ineligible = IdsIn(line.fields)]
    [] OTHER -> c

(* What comes of taking one line after the other: devices add up, of all else
   the last line holds. *)
Parse(text) ==
  LET S == Lines(text, "device")
  IN  [hotkey |-> Setting(text, "setting.hotkey", DefaultConfig.hotkey),
       startup |-> Setting(text, "setting.run_on_startup", No) = Yes,
       devices |-> [n \in 1..Cardinality(S) |->
                      [id |-> Field(text[Nth(S, n)], 1), ip |-> Field(text[Nth(S, n)], 2)]],
       priority |-> IdsIn(Setting(text, "priority", <<>>)),
       ineligible |-> IdsIn(Setting(text, "ineligible", <<>>))]

(* A text written over another one from the start.  Of a longer one an end is
   left: shorter than the device it lists more, so that none of its lines is
   whole but possibly the last two, of which the list of priorities counts. *)
Overlays(new, old) ==
  {new} \cup IF Len(old) > Len(new) THEN {new \o SubSeq(old, Len(old) - 1, Len(old))} ELSE {}

Ids(c) == {c.devices[i].id : i \in DOMAIN c.devices}

(* addDevice: a device that is known is replaced, another one comes last, and
   last in priority as well unless the user has taken it out. *)
AddDevice(c, d) ==
  LET known == {i \in DOMAIN c.devices : c.devices[i].id = d.id}
      listed == ToSet(c.priority) \cup ToSet(c.ineligible)
  IN  [c EXCEPT !.devices = IF known = {} THEN Append(@, d) ELSE [@ EXCEPT ![Min(known)] = d],
                !.priority = IF d.id \in listed THEN @ ELSE Append(@, d.id)]

(* The address of a machine, wherever it is listed. *)
SetAddress(c, id, ip) ==
  [c EXCEPT !.devices = [i \in DOMAIN @ |-> IF @[i].id = id THEN [@[i] EXCEPT !.ip = ip] ELSE @[i]]]

HasOtherAddress(c, id, ip) ==
  \E i \in DOMAIN c.devices : c.devices[i].id = id /\ c.devices[i].ip # ip
=============================================================================
