--------------------------- MODULE MCFileTransfer ---------------------------
(* Instances of FileTransfer: an empty file, a file of one chunk and one of   *)
(* two; a selection that mixes them, and two of one file each.               *)
EXTENDS FileTransfer

MCChunks == [empty |-> 0, note |-> 1, photo |-> 2]
MCSelection == {<<"photo", "empty", "note">>}
MCShort == {<<"empty", "note">>}
MCPair == {<<"note", "photo">>}
MCSingles == {<<"note">>, <<"photo">>}
=============================================================================
