------------------------- MODULE MCXptPacketbuffer -------------------------
(* Bytes of base 3; integers of 1 byte for U8 and of 2 for the wider ones; *)
(* strings with a prefix of 1 byte (128 and 45) and of 2 (512 and 1024).   *)
EXTENDS XptPacketbuffer

F(kind, size) == [kind |-> kind, size |-> size, check |-> FALSE]
C(kind, size) == [kind |-> kind, size |-> size, check |-> TRUE]

HandlerLayouts ==
  [auth |-> <<C("int", 2), C("string", 5), F("int", 1)>>,
   ack |-> <<C("int", 2), F("string", 5), C("int", 2)>>,
   message |-> <<C("int", 1), C("string", 4)>>,
   work |-> <<F("int", 2), F("data", 2), F("int", 1)>>]

AllLayouts ==
  {HandlerLayouts[op] : op \in DOMAIN HandlerLayouts}
    \cup {<<F("int", 2), F("string", 3), F("string", 3), F("int", 1)>>}
=============================================================================
