------------------------------ MODULE WorkFeed ------------------------------
(***************************************************************************)
(* The work source: what the main thread lets the miner threads see of the *)
(* connection.  The miner threads copy workDataSource under cs_work; the   *)
(* master polls monitorCurrentBlockHeight.  RiecoinMiner is built on this  *)
(* module, and XptClient is shown to implement it.                         *)
(***************************************************************************)
EXTENDS Naturals

CONSTANTS Heights, Roots,  (* block heights and merkle roots the server sends *)
          None

VARIABLES work,     (* workDataSource: height, root, algorithm              *)
          mainpc,   (* "idle", or "publish" between lines 233 and 234       *)
          monitor   (* monitorCurrentBlockHeight                            *)

feedVars == <<work, mainpc, monitor>>

Algorithms == {"riecoin", "other"}

(* Block data comes after a login for Riecoin and brings height and root;  *)
(* what a connection without block data holds has height 0.                *)
Works == [height : Heights, root : Roots, algorithm : {"riecoin"}]
           \cup [height : {0}, root : Roots \cup {None}, algorithm : Algorithms]

FeedInit ==
  /\ work = [height |-> 0, root |-> None, algorithm |-> "other"]
  /\ mainpc = "idle" /\ monitor = 0

(* xptMiner_getWorkFromXPTConnection, under cs_work: the connection holds  *)
(* another height or root, because the server sent block data or because   *)
(* the connection is new and holds none yet.                               *)
GetWorkFromConnection ==
  /\ mainpc = "idle"
  /\ work' \in Works
  /\ work'.height # work.height \/ work'.root # work.root
  /\ mainpc' = "publish"
  /\ UNCHANGED monitor

(* The height the master polls is written after cs_work was left. *)
PublishHeight ==
  /\ mainpc = "publish"
  /\ mainpc' = "idle"
  /\ monitor' = work.height
  /\ UNCHANGED work

(* The connection is lost: both heights become 0 inside cs_work. *)
LoseConnection ==
  /\ mainpc = "idle"
  /\ work' = [work EXCEPT !.height = 0]
  /\ monitor' = 0
  /\ UNCHANGED mainpc

FeedStep == GetWorkFromConnection \/ PublishHeight \/ LoseConnection

FeedSpec == FeedInit /\ [][FeedStep]_feedVars
=============================================================================
