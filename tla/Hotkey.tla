------------------------------- MODULE Hotkey -------------------------------
(***************************************************************************)
(* The combination of keys that opens the picker, and the one that ends    *)
(* driving (core/hotkey, and where runTrayApp registers them).             *)
(*                                                                         *)
(* A text is the sequence of its tokens, trimmed and in lower case: what   *)
(* stands between the plus signs.  Words for the same modifier or key are  *)
(* one token; every token that is neither stands for the unknown ones, the *)
(* blank one included.                                                     *)
(***************************************************************************)
EXTENDS Naturals, Sequences, FiniteSets

Modifiers == {"ctrl", "alt", "shift", "win"}
Keys == {"space", "f9", "end"}

Tokens(text) == {text[i] : i \in DOMAIN text}

NoHotkey == [valid |-> FALSE, modifiers |-> {}, key |-> ""]

(* parseHotkey: modifiers in any number and order, and exactly one key. *)
ParseHotkey(text) ==
  LET keysAt == {i \in DOMAIN text : text[i] \in Keys}
  IN  IF Tokens(text) \subseteq Modifiers \cup Keys /\ Cardinality(keysAt) = 1
      THEN [valid |-> TRUE, modifiers |-> Tokens(text) \cap Modifiers,
            key |-> text[CHOOSE i \in keysAt : TRUE]]
      ELSE NoHotkey

CtrlAltSpace == <<"ctrl", "alt", "space">>
CtrlShiftAltSpace == <<"ctrl", "shift", "alt", "space">>

(* RegisterHotKey refuses a combination that another application owns. *)
Registers(hk, taken) == hk.valid /\ hk \notin taken

(* The hotkey that is in force: the configured one, the secondary one, which
   the tooltip of the tray then names, or none. *)
Registered(text, taken) ==
  LET configured == ParseHotkey(text)
      fallback == ParseHotkey(CtrlShiftAltSpace)
  IN  CASE Registers(configured, taken) -> configured
        [] Registers(fallback, taken) /\ ~Registers(configured, taken) -> fallback
        [] OTHER -> NoHotkey

(* The combination the capture hook watches for while everything else is
   swallowed (setEscape). *)
ReclaimChord(text) ==
  IF ParseHotkey(text).valid THEN ParseHotkey(text) ELSE ParseHotkey(CtrlAltSpace)
=============================================================================
