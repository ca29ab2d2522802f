------------------------------ MODULE MCTrayApp ------------------------------
(***************************************************************************)
(* Instances of TrayApp.                                                   *)
(***************************************************************************)
EXTENDS TrayApp

Words == Modifiers \cup Keys \cup {"", "0", "1", "P", "Q", "a", "b", Torn}

(* No machine is paired in the beginning, or one is. *)
NonePaired == Serialize(DefaultConfig)
OnePaired == Serialize(AddDevice(DefaultConfig, [id |-> "P", ip |-> "a"]))

(* The user leaves the hotkey as it is, or enters others: one that another
   application owns, and one that is none. *)
SameHotkey == {CtrlAltSpace}
OtherHotkeys == {CtrlAltSpace, <<"ctrl", "f9">>, <<"win">>}
NoneTaken == {}
F9Taken == {ParseHotkey(<<"ctrl", "f9">>)}

(* Parse is what Config::parse comes to, line by line. *)
SomeLine == [key : LineKey, fields : {<<"">>, <<"1">>, <<"a", "b">>}]

ASSUME ParseGoesLineByLine ==
  \A n \in 0..3 : \A text \in [1..n -> SomeLine] :
    Parse(text) = FoldLeft(ParseLine, DefaultConfig, text)
=============================================================================
