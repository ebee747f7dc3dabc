---------------------------- MODULE MCXptClient -----------------------------
(* Small instances of XptClient for TLC. *)
EXTENDS XptClient, TLC

CONSTANTS r1, r2

Packet(op, size) ==
  [op |-> op, size |-> size, cut |-> "none", accepted |-> TRUE,
   algorithm |-> "riecoin", height |-> 1, root |-> r1]

Login == Packet("auth", 1)
WrongLogin == [Login EXCEPT !.algorithm = "other"]
Rejected == [Login EXCEPT !.accepted = FALSE]
Block == Packet("work", 2)
NextBlock == [Block EXCEPT !.height = 2]
OtherRoot == [Block EXCEPT !.root = r2]
Ping == Packet("ping", 0)

(* A server that keeps to the protocol. *)
GoodPackets == {Login, WrongLogin, Rejected, Block, NextBlock, OtherRoot}

(* One that does not: packets cut short, of a size that is refused, of     *)
(* kinds the client does not know, in any order.                           *)
BadPackets ==
  {Login, Block, [Block EXCEPT !.cut = "late", !.height = 2],
   [Block EXCEPT !.cut = "early", !.size = 1], [Login EXCEPT !.cut = "late"],
   [Packet("ack", 2) EXCEPT !.cut = "late"], Packet("message", 3), Ping,
   [Ping EXCEPT !.cut = "early", !.op = "message"], Packet("other", 4)}

(* For the shares: what is received matters only as far as it connects. *)
FewPackets == {Login, WrongLogin, Block}

Symmetry == Permutations(MinerThreads) \cup Permutations(Shares)
=============================================================================
