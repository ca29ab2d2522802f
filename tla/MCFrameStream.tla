---------------------------- MODULE MCFrameStream ----------------------------
(* Instances of FrameStream: a message whose byte cannot be a header, and a longer
   one, with bytes that can, whose frame does not fit in the socket at once. *)
EXTENDS FrameStream

MCMessage == {<<4>>, <<1, 0, 1>>}
=============================================================================
