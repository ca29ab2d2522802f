--------------------------- MODULE MessageTransport ---------------------------
(***************************************************************************)
(* What a Transport promises (net/transport.h), without frames, sockets or *)
(* buffers: each end takes the messages of the other one whole, in their   *)
(* order and once, and is told that the connection is over after the last  *)
(* of them.  A send that returns false ends the promise for what its end   *)
(* sends, as does a connection that is cut off for what is then missing.   *)
(***************************************************************************)
EXTENDS Naturals, Sequences

CONSTANTS
  Message,  \* the messages that are sent
  Byte,
  Cap       \* the size of the buffer recv is given

VARIABLES
  up,      \* isConnected, at each end
  closed,  \* the ends on which close was called
  sent,    \* the messages send was called with
  got,     \* what recv returned
  failed,  \* the ends where a send returned false
  cut      \* the closed ends of whose messages some may be missing

tvars == <<up, closed, sent, got, failed, cut>>

End == {1, 2}
Other(e) == 3 - e

(* One whole message, up to cap bytes. *)
UpTo(m) == SubSeq(m, 1, IF Len(m) <= Cap THEN Len(m) ELSE Cap)

Bytes == UNION {[1..n -> Byte] : n \in 1..Cap}

TInit ==
  /\ up = [e \in End |-> TRUE]
  /\ closed = {}
  /\ sent = [e \in End |-> <<>>] /\ got = [e \in End |-> <<>>]
  /\ failed = {} /\ cut = {}

Send(e, m) ==
  /\ up[e]
  /\ sent' = [sent EXCEPT ![e] = Append(@, m)]
  /\ UNCHANGED <<up, closed, got, failed, cut>>

Fail(e) ==
  /\ e \notin closed
  /\ failed' = failed \cup {e}
  /\ UNCHANGED <<up, closed, sent, got, cut>>

Recv(e) ==
  /\ up[e]
  /\ \/ /\ Len(got[e]) < Len(sent[Other(e)])
        /\ got' = [got EXCEPT ![e] = Append(@, UpTo(sent[Other(e)][Len(@) + 1]))]
     \/ /\ Other(e) \in failed
        /\ \E b \in Bytes : got' = [got EXCEPT ![e] = Append(@, b)]
  /\ UNCHANGED <<up, closed, sent, failed, cut>>

RecvOver(e) ==
  /\ up[e] /\ Other(e) \in closed
  /\ Other(e) \notin failed \cup cut => Len(got[e]) = Len(sent[Other(e)])
  /\ up' = [up EXCEPT ![e] = FALSE]
  /\ UNCHANGED <<closed, sent, got, failed, cut>>

Close(e) ==
  /\ e \notin closed
  /\ closed' = closed \cup {e}
  /\ up' = [up EXCEPT ![e] = FALSE]
  /\ UNCHANGED <<sent, got, failed, cut>>

CutOff(e) ==
  /\ e \in closed
  /\ cut' = cut \cup {e}
  /\ UNCHANGED <<up, closed, sent, got, failed>>

TNext == \E e \in End :
  (\E m \in Message : Send(e, m)) \/ Fail(e) \/ Recv(e) \/ RecvOver(e) \/ Close(e) \/ CutOff(e)

TSpec == TInit /\ [][TNext]_tvars
=============================================================================
