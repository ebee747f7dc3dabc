---------------------------- MODULE PacketStream ----------------------------
(***************************************************************************)
(* What receiving over the xpt protocol promises: on each connection the   *)
(* packets are handled one at a time, each once, in the order sent, however *)
(* the bytes were cut into pieces.  A connection may be given up at any    *)
(* time; nothing of it is handled on the next one.                         *)
(***************************************************************************)
EXTENDS Naturals, Sequences

CONSTANT Packet

VARIABLES sent,     (* the packets the server put on this connection        *)
          handled   (* the packets a handler was called with                *)

streamVars == <<sent, handled>>

StreamInit == sent = <<>> /\ handled = <<>>

Send == \E p \in Packet : sent' = Append(sent, p) /\ UNCHANGED handled

Handle ==
  /\ Len(handled) < Len(sent)
  /\ handled' = Append(handled, sent[Len(handled) + 1])
  /\ UNCHANGED sent

NewStream == sent' = <<>> /\ handled' = <<>>

StreamSpec == StreamInit /\ [][Send \/ Handle \/ NewStream]_streamVars
=============================================================================
