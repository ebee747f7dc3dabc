----------------------------- MODULE XptClient ------------------------------
(***************************************************************************)
(* The connection to the pool: xptClient.cpp, xptClientPacketHandler.cpp   *)
(* and the part of main.cpp that drives them.  The main thread runs        *)
(* xptMiner_xptQueryWorkLoop: it connects, sends the shares queued,        *)
(* receives packets in pieces, dispatches them, and publishes the block    *)
(* data they bring.  Miner threads queue shares.  All of them use the      *)
(* client object under cs_xptClient.  The server sends packets, and the    *)
(* link may go down at any time.                                           *)
(*                                                                         *)
(* A packet is a record; the bytes of a connection are positions counted   *)
(* from 0; the k-th packet begins at starts[k].  The receive buffer holds   *)
(* the recvIndex bytes before position consumed.                           *)
(***************************************************************************)
EXTENDS Integers, Sequences, FiniteSets

CONSTANTS
  MinerThreads,     (* threads that find shares                             *)
  Shares,           (* bound: the shares found                              *)
  Heights, Roots,   (* block heights and merkle roots the server sends      *)
  Packets,          (* what the server sends                                *)
  MaxPackets,       (* bound: packets per connection                        *)
  HeaderLen,        (* 4: bytes of a packet header                          *)
  SizeLimit,        (* 1024*1024*2-4: sizes from here on are refused        *)
  Builds,           (* how the program may have been built                  *)
  Conforming,       (* the server answers the login before it sends others  *)
  Main, None

Algorithms == {"riecoin", "other"}

(* "windows" is the _WIN32 build, where connect() is checked; "bsd" the    *)
(* builds for systems where SIGPIPE is ignored (main.cpp:533); "posix" all *)
(* others, Linux first.                                                    *)
AllBuilds == {"windows", "bsd", "posix"}

(* op: what is dispatched on.  size: bytes after the header.  cut: whether *)
(* all fields are there, or the packet ends before its first fields        *)
(* ("early") or later ("late").  accepted: error code 0 of a login answer. *)
(* Fields a packet of its kind has not are ignored; a string the reader    *)
(* refuses, as long as its buffer, counts as cut (XptPacketbuffer).        *)
PacketType == [op : {"auth", "work", "ack", "message", "ping", "other"},
               size : Nat, cut : {"none", "early", "late"},
               accepted : BOOLEAN, algorithm : Algorithms,
               height : Heights, root : Roots]

ASSUME ClientAssumption ==
  /\ Heights \subseteq Nat \ {0} /\ None \notin Roots
  /\ Packets \subseteq PacketType
  /\ MaxPackets \in Nat /\ HeaderLen \in Nat \ {0} /\ SizeLimit \in Nat \ {0}
  /\ Builds \subseteq AllBuilds /\ Conforming \in BOOLEAN
  /\ Main \notin MinerThreads /\ None \notin MinerThreads /\ Main # None
  /\ None \notin Shares

VARIABLES
  build,        (* the build that runs                                      *)
  (* main thread, work source *)
  mainpc,
  work,         (* workDataSource                                           *)
  monitor,      (* monitorCurrentBlockHeight                                *)
  started,      (* miningStartTime # 0: miner threads have had work         *)
  cs_xptClient, (* the thread that holds it, or None                        *)
  (* the client object *)
  disconnected,
  loggedIn,     (* clientState = XPT_CLIENT_STATE_LOGGED_IN                 *)
  algorithm,    (* "other" until the login is answered (0)                  *)
  recvSize, recvIndex, opcode,
  blockWorkInfo,
  queue,        (* list_shareSubmitQueue                                    *)
  (* the connection *)
  link,         (* "none", "up", "fin" (the server closed it), "down"       *)
  sent, starts,     (* packets the server put on it, and where they begin   *)
  written, consumed,  (* bytes the server put on it, and recv() took        *)
  handled,          (* history: the packets handlers were called with       *)
  (* shares *)
  hand,         (* hand[t]: the share thread t is submitting, or None       *)
  sends,        (* history: how often a share was given to send()           *)
  refused       (* history: shares dropped for want of a connection         *)

feedVars == <<work, monitor, started>>
recvVars == <<recvSize, recvIndex, opcode>>
loginVars == <<loggedIn, algorithm, blockWorkInfo>>
streamVars == <<sent, starts, written, consumed, handled>>
shareVars == <<queue, sends, refused, hand>>

vars == <<build, mainpc, feedVars, cs_xptClient, disconnected, loginVars, recvVars,
          link, streamVars, shareVars>>

-----------------------------------------------------------------------------
NoWork == [height |-> 0, root |-> None]
(* What a header that is none decodes to. *)
Garbage == [op |-> "other", size |-> 0, cut |-> "none", accepted |-> FALSE,
            algorithm |-> "other", height |-> 0, root |-> None]

(* xptMiner_xptQueryWorkLoop before its loop: an object, not connected. *)
Init ==
  /\ build \in Builds
  /\ mainpc = "loop"
  /\ work = [height |-> 0, root |-> None, algorithm |-> "other"]
  /\ monitor = 0 /\ started = FALSE
  /\ cs_xptClient = None
  /\ disconnected = TRUE /\ loggedIn = FALSE /\ algorithm = "other"
  /\ recvSize = 0 /\ recvIndex = 0 /\ opcode = "other"
  /\ blockWorkInfo = NoWork
  /\ link = "none"
  /\ sent = <<>> /\ starts = <<>> /\ written = 0 /\ consumed = 0 /\ handled = <<>>
  /\ queue = <<>> /\ hand = [t \in MinerThreads |-> None]
  /\ sends = [s \in Shares |-> 0] /\ refused = {}

-----------------------------------------------------------------------------
(* The server and the network. *)

(* The server's next packet; a conforming one answers the login first, and *)
(* once.                                                                   *)
ServerSend(p) ==
  /\ link = "up"
  /\ Len(sent) < MaxPackets
  /\ Conforming => (sent = <<>> <=> p.op = "auth")
  /\ sent' = Append(sent, p)
  /\ starts' = Append(starts, written)
  /\ written' = written + HeaderLen + p.size
  /\ UNCHANGED <<mainpc, feedVars, cs_xptClient, disconnected, loginVars,
                 recvVars, link, consumed, handled, shareVars>>

(* The server closes the connection, with bytes still to be read, or the   *)
(* connection breaks and those bytes are gone.                             *)
LinkLost ==
  /\ link = "up"
  /\ link' \in {"fin", "down"}
  /\ UNCHANGED <<mainpc, feedVars, cs_xptClient, disconnected, loginVars,
                 recvVars, streamVars, shareVars>>

-----------------------------------------------------------------------------
(* Miner threads: xptMiner_submitShare. *)

FindShare(t, s) ==
  /\ started /\ mainpc # "killed"
  /\ hand[t] = None /\ s \notin refused /\ sends[s] = 0
  /\ \A u \in MinerThreads : hand[u] # s
  /\ \A i \in DOMAIN queue : queue[i] # s
  /\ hand' = [hand EXCEPT ![t] = s]
  /\ UNCHANGED <<mainpc, feedVars, cs_xptClient, disconnected, loginVars,
                 recvVars, link, streamVars, queue, sends, refused>>

EnterSubmit(t) ==
  /\ hand[t] # None
  /\ cs_xptClient = None
  /\ cs_xptClient' = t
  /\ UNCHANGED <<mainpc, feedVars, disconnected, loginVars, recvVars, link,
                 streamVars, shareVars>>

(* Mutants of SubmitShare: the state of the connection is not looked at; a *)
(* share is tried again until there is a connection.                       *)
SubmitShareUnchecked(t) ==
  /\ cs_xptClient = t
  /\ queue' = Append(queue, hand[t])
  /\ hand' = [hand EXCEPT ![t] = None]
  /\ cs_xptClient' = None
  /\ UNCHANGED <<mainpc, feedVars, disconnected, loginVars, recvVars, link,
                 streamVars, sends, refused>>

SubmitShareRetry(t) ==
  /\ cs_xptClient = t
  /\ IF disconnected
     THEN UNCHANGED <<queue, hand>>
     ELSE queue' = Append(queue, hand[t]) /\ hand' = [hand EXCEPT ![t] = None]
  /\ cs_xptClient' = None
  /\ UNCHANGED <<mainpc, feedVars, disconnected, loginVars, recvVars, link,
                 streamVars, sends, refused>>

(* Without a connection the share is dropped; with one it is queued under  *)
(* cs_shareSubmit, which is only ever taken inside cs_xptClient.           *)
SubmitShare(t) ==
  /\ cs_xptClient = t
  /\ IF disconnected
     THEN refused' = refused \cup {hand[t]} /\ UNCHANGED queue
     ELSE queue' = Append(queue, hand[t]) /\ UNCHANGED refused
  /\ hand' = [hand EXCEPT ![t] = None]
  /\ cs_xptClient' = None
  /\ UNCHANGED <<mainpc, feedVars, disconnected, loginVars, recvVars, link,
                 streamVars, sends>>

-----------------------------------------------------------------------------
(* The main thread: connecting. *)

(* Mutant of NewObject: the count of bytes received is kept. *)
NewObjectKeepsBytes ==
  /\ mainpc = "loop"
  /\ disconnected
  /\ cs_xptClient = None
  /\ cs_xptClient' = Main
  /\ disconnected' = TRUE
  /\ loggedIn' = FALSE /\ algorithm' = "other" /\ blockWorkInfo' = NoWork
  /\ recvSize' = 0 /\ opcode' = "other"
  /\ queue' = <<>>
  /\ link' = "none"
  /\ sent' = <<>> /\ starts' = <<>> /\ written' = 0 /\ consumed' = 0
  /\ handled' = <<>>
  /\ mainpc' = "connect"
  /\ UNCHANGED <<feedVars, recvIndex, sends, refused, hand>>

(* Mutant of NewObject: connects only as long as there was no work yet. *)
NewObjectOnce ==
  /\ mainpc = "loop"
  /\ disconnected
  /\ cs_xptClient = None
  /\ cs_xptClient' = IF started THEN None ELSE Main
  /\ mainpc' = IF started THEN "sleep" ELSE "connect"
  /\ disconnected' = TRUE
  /\ loggedIn' = FALSE /\ algorithm' = "other" /\ blockWorkInfo' = NoWork
  /\ recvSize' = 0 /\ recvIndex' = 0 /\ opcode' = "other"
  /\ queue' = <<>>
  /\ link' = "none"
  /\ sent' = <<>> /\ starts' = <<>> /\ written' = 0 /\ consumed' = 0
  /\ handled' = <<>>
  /\ UNCHANGED <<feedVars, sends, refused, hand>>

(* A new object takes the place of the old one, which is not freed. *)
NewObject ==
  /\ mainpc = "loop"
  /\ disconnected
  /\ cs_xptClient = None
  /\ cs_xptClient' = Main
  /\ disconnected' = TRUE
  /\ loggedIn' = FALSE /\ algorithm' = "other" /\ blockWorkInfo' = NoWork
  /\ recvSize' = 0 /\ recvIndex' = 0 /\ opcode' = "other"
  /\ queue' = <<>>
  /\ link' = "none"
  /\ sent' = <<>> /\ starts' = <<>> /\ written' = 0 /\ consumed' = 0
  /\ handled' = <<>>
  /\ mainpc' = "connect"
  /\ UNCHANGED <<feedVars, sends, refused, hand>>

Return(label) == mainpc' = label /\ cs_xptClient' = None

(* xptClient_connect with a connect() that succeeds: the login is sent. *)
Connect ==
  /\ mainpc = "connect"
  /\ link' = "up"
  /\ disconnected' = FALSE
  /\ blockWorkInfo' = NoWork
  /\ Return("loop")
  /\ UNCHANGED <<feedVars, loggedIn, algorithm, recvVars, streamVars, shareVars>>

(* Mutant of ConnectFails: noticed by neither build. *)
ConnectFailsUnseen ==
  /\ mainpc = "connect"
  /\ link' = "down"
  /\ disconnected' = FALSE /\ Return("loop")
  /\ UNCHANGED <<feedVars, loginVars, recvVars, streamVars, shareVars>>

(* connect() fails: noticed by the Windows build only.  In the others the  *)
(* object is marked as connected, over a socket that is not.               *)
ConnectFails ==
  /\ mainpc = "connect"
  /\ link' = "down"
  /\ IF build = "windows"
     THEN disconnected' = TRUE /\ Return("sleep")
     ELSE disconnected' = FALSE /\ Return("loop")
  /\ UNCHANGED <<feedVars, loginVars, recvVars, streamVars, shareVars>>

(* send() on a socket that is not connected raises SIGPIPE where nobody    *)
(* ignores it, and the process ends, with its threads and its sockets: in  *)
(* the login after a connect() that failed, or, after the connection was   *)
(* lost, in a share or in the ping that may be due once logged in.         *)
Killed ==
  /\ build = "posix"
  /\ \/ mainpc = "connect"
     \/ mainpc = "shares" /\ link # "up" /\ (queue # <<>> \/ loggedIn)
  /\ mainpc' = "killed"
  /\ link' = "down"
  /\ UNCHANGED <<feedVars, cs_xptClient, disconnected, loginVars, recvVars,
                 streamVars, shareVars>>

(* 45 seconds. *)
Wake ==
  /\ mainpc = "sleep"
  /\ mainpc' = "loop"
  /\ UNCHANGED <<feedVars, cs_xptClient, disconnected, loginVars, recvVars,
                 link, streamVars, shareVars>>

-----------------------------------------------------------------------------
(* The main thread: xptClient_process. *)

EnterProcess ==
  /\ mainpc = "loop"
  /\ ~disconnected
  /\ cs_xptClient = None
  /\ cs_xptClient' = Main
  /\ mainpc' = "shares"
  /\ UNCHANGED <<feedVars, disconnected, loginVars, recvVars, link, streamVars,
                 shareVars>>

(* Mutants of SendShares: the list is not emptied; nothing is received     *)
(* when nothing was sent.                                                  *)
SendSharesKept ==
  /\ mainpc = "shares"
  /\ sends' = [s \in Shares |->
                 sends[s] + Cardinality({i \in DOMAIN queue : queue[i] = s})]
  /\ mainpc' = "recv"
  /\ UNCHANGED <<feedVars, cs_xptClient, disconnected, loginVars, recvVars,
                 link, streamVars, queue, refused, hand>>

SendSharesOnly ==
  /\ mainpc = "shares"
  /\ sends' = [s \in Shares |->
                 sends[s] + Cardinality({i \in DOMAIN queue : queue[i] = s})]
  /\ queue' = <<>>
  /\ mainpc' = IF queue = <<>> THEN "processed" ELSE "recv"
  /\ UNCHANGED <<feedVars, cs_xptClient, disconnected, loginVars, recvVars,
                 link, streamVars, refused, hand>>

(* Every share queued is given to send(), whose result is not looked at.   *)
SendShares ==
  /\ mainpc = "shares"
  /\ sends' = [s \in Shares |->
                 sends[s] + Cardinality({i \in DOMAIN queue : queue[i] = s})]
  /\ queue' = <<>>
  /\ mainpc' = "recv"
  /\ UNCHANGED <<feedVars, cs_xptClient, disconnected, loginVars, recvVars,
                 link, streamVars, refused, hand>>

PacketFullSize == HeaderLen + recvSize
BytesToReceive == PacketFullSize - recvIndex

PacketAt(pos) ==
  IF \E k \in DOMAIN sent : starts[k] = pos
  THEN sent[CHOOSE k \in DOMAIN sent : starts[k] = pos]
  ELSE Garbage

(* recv() fails for good: the connection is broken, or closed and read to  *)
(* its end, or asked for no bytes.                                         *)
RecvFails ==
  /\ mainpc = "recv"
  /\ link = "down" \/ (link = "fin" /\ consumed = written) \/ BytesToReceive = 0
  /\ disconnected' = TRUE
  /\ mainpc' = "processed"
  /\ UNCHANGED <<feedVars, cs_xptClient, loginVars, recvVars, link, streamVars,
                 shareVars>>

(* EAGAIN. *)
RecvNothing ==
  /\ mainpc = "recv"
  /\ link = "up" /\ consumed = written /\ BytesToReceive > 0
  /\ mainpc' = "processed"
  /\ UNCHANGED <<feedVars, cs_xptClient, disconnected, loginVars, recvVars,
                 link, streamVars, shareVars>>

(* recv() returns r bytes, at most as many as were asked for. *)
Received(r) ==
  /\ mainpc = "recv"
  /\ link \in {"up", "fin"}
  /\ r \in 1..BytesToReceive /\ r <= written - consumed
  /\ consumed' = consumed + r

(* The packet in the buffer once r more bytes are in it, and whether those *)
(* bytes complete its header.                                              *)
Buffered == PacketAt(consumed - recvIndex)
HeaderDone(r) == recvIndex + r = PacketFullSize /\ PacketFullSize = HeaderLen

(* recvSize as it is after the header was looked at. *)
SizeAfter(r) == IF HeaderDone(r) THEN Buffered.size ELSE recvSize
OpcodeAfter(r) == IF HeaderDone(r) THEN Buffered.op ELSE opcode
TooLarge(r) == HeaderDone(r) /\ Buffered.size >= SizeLimit
Complete(r) == recvIndex + r >= SizeAfter(r) + HeaderLen

(* The size is refused: the header stays in the buffer, and the object is  *)
(* not marked as disconnected.                                             *)
RecvTooLarge(r) ==
  /\ Received(r)
  /\ TooLarge(r)
  /\ recvIndex' = recvIndex + r
  /\ mainpc' = "processed"
  /\ UNCHANGED <<feedVars, cs_xptClient, disconnected, loginVars, recvSize,
                 opcode, link, sent, starts, written, handled, shareVars>>

RecvPiece(r) ==
  /\ Received(r)
  /\ ~TooLarge(r) /\ ~Complete(r)
  /\ recvIndex' = recvIndex + r
  /\ recvSize' = SizeAfter(r)
  /\ opcode' = OpcodeAfter(r)
  /\ mainpc' = "processed"
  /\ UNCHANGED <<feedVars, cs_xptClient, disconnected, loginVars, link, sent,
                 starts, written, handled, shareVars>>

-----------------------------------------------------------------------------
(* The packet handlers, on packet p. *)

(* What a handler may return.  In a share answer cut inside its reason, a  *)
(* later read may succeed and hide the error of the first.                 *)
Verdicts(op, p) ==
  CASE op = "auth" -> {p.cut # "early" /\ p.accepted}
    [] op = "ack" -> IF p.cut = "late" THEN BOOLEAN ELSE {p.cut = "none"}
    [] op \in {"message", "ping"} -> {p.cut = "none"}
    [] OTHER -> {TRUE}

(* The login is accepted before the algorithm is read. *)
LoginAfter(op, p) ==
  IF op = "auth" /\ p.cut # "early" /\ p.accepted
  THEN /\ loggedIn' = TRUE
       /\ algorithm' = IF p.cut = "none" THEN p.algorithm ELSE "other"
  ELSE UNCHANGED <<loggedIn, algorithm>>

(* Mutant of BlockAfter: only the first root is taken. *)
BlockAfterFirstRoot(op, p) ==
  IF op = "work"
  THEN blockWorkInfo' = [height |-> IF p.cut = "early" THEN 0 ELSE p.height,
                         root |-> IF p.cut = "none" /\ blockWorkInfo.root = None
                                  THEN p.root ELSE blockWorkInfo.root]
  ELSE UNCHANGED blockWorkInfo

(* Block data: errors are not looked at.  A field that is missing reads as *)
(* 0, an array that is missing keeps what it held.                         *)
BlockAfter(op, p) ==
  IF op = "work"
  THEN blockWorkInfo' = [height |-> IF p.cut = "early" THEN 0 ELSE p.height,
                         root |-> IF p.cut = "none" THEN p.root
                                  ELSE blockWorkInfo.root]
  ELSE UNCHANGED blockWorkInfo

(* Mutant of RecvPacket: recvSize is kept, as xptServer_receiveData does. *)
RecvPacketKeepsSize(r) ==
  /\ Received(r)
  /\ ~TooLarge(r) /\ Complete(r)
  /\ LET p == Buffered op == OpcodeAfter(r) IN
       /\ handled' = Append(handled, p)
       /\ LoginAfter(op, p)
       /\ BlockAfter(op, p)
       /\ \E ok \in Verdicts(op, p) :
            /\ disconnected' = ~ok
            /\ link' = IF ok THEN link ELSE "down"
  /\ recvIndex' = 0 /\ recvSize' = SizeAfter(r) /\ opcode' = "other"
  /\ mainpc' = "processed"
  /\ UNCHANGED <<feedVars, cs_xptClient, sent, starts, written, shareVars>>

RecvPacket(r) ==
  /\ Received(r)
  /\ ~TooLarge(r) /\ Complete(r)
  /\ LET p == Buffered op == OpcodeAfter(r) IN
       /\ handled' = Append(handled, p)
       /\ LoginAfter(op, p)
       /\ BlockAfter(op, p)
       /\ \E ok \in Verdicts(op, p) :
            /\ disconnected' = ~ok
            /\ link' = IF ok THEN link ELSE "down"
  /\ recvIndex' = 0 /\ recvSize' = 0 /\ opcode' = "other"
  /\ mainpc' = "processed"
  /\ UNCHANGED <<feedVars, cs_xptClient, sent, starts, written, shareVars>>

Process ==
  \/ SendShares \/ RecvFails \/ RecvNothing
  \/ \E r \in 1..BytesToReceive : RecvTooLarge(r) \/ RecvPiece(r) \/ RecvPacket(r)

-----------------------------------------------------------------------------
(* The main thread, after xptClient_process; cs_work nested inside. *)

(* Mutant of ConnectionLost: the work is kept. *)
ConnectionLostQuiet ==
  /\ mainpc = "processed"
  /\ disconnected
  /\ monitor' = 0
  /\ Return("sleep")
  /\ UNCHANGED <<work, started, disconnected, loginVars, recvVars, link,
                 streamVars, shareVars>>

(* xptClient_forceDisconnect does nothing: the object is disconnected. *)
ConnectionLost ==
  /\ mainpc = "processed"
  /\ disconnected
  /\ work' = [work EXCEPT !.height = 0]
  /\ monitor' = 0
  /\ Return("sleep")
  /\ UNCHANGED <<started, disconnected, loginVars, recvVars, link, streamVars,
                 shareVars>>

WrongAlgorithm == loggedIn /\ algorithm # "riecoin"

ForceDisconnect ==
  /\ mainpc = "processed"
  /\ ~disconnected /\ WrongAlgorithm
  /\ disconnected' = TRUE
  /\ link' = "down"
  /\ Return("sleep")
  /\ UNCHANGED <<feedVars, loginVars, recvVars, streamVars, shareVars>>

NewData == blockWorkInfo.height # work.height \/ blockWorkInfo.root # work.root

(* xptMiner_getWorkFromXPTConnection, under cs_work. *)
GetWorkFromConnection ==
  /\ mainpc = "processed"
  /\ ~disconnected /\ ~WrongAlgorithm /\ NewData
  /\ work' = [height |-> blockWorkInfo.height, root |-> blockWorkInfo.root,
              algorithm |-> algorithm]
  /\ started' = (started \/ (work.height = 0 /\ blockWorkInfo.height # 0))
  /\ mainpc' = "publish"
  /\ UNCHANGED <<monitor, cs_xptClient, disconnected, loginVars, recvVars, link,
                 streamVars, shareVars>>

(* Mutant of PublishHeight: a lower height is taken for an old one. *)
PublishHeightRising ==
  /\ mainpc = "publish"
  /\ monitor' = IF work.height > monitor THEN work.height ELSE monitor
  /\ Return("loop")
  /\ UNCHANGED <<work, started, disconnected, loginVars, recvVars, link,
                 streamVars, shareVars>>

PublishHeight ==
  /\ mainpc = "publish"
  /\ monitor' = work.height
  /\ Return("loop")
  /\ UNCHANGED <<work, started, disconnected, loginVars, recvVars, link,
                 streamVars, shareVars>>

NothingNew ==
  /\ mainpc = "processed"
  /\ ~disconnected /\ ~WrongAlgorithm /\ ~NewData
  /\ Return("loop")
  /\ UNCHANGED <<feedVars, disconnected, loginVars, recvVars, link, streamVars,
                 shareVars>>

-----------------------------------------------------------------------------
MainStep ==
  /\ \/ NewObject \/ Connect \/ ConnectFails \/ Killed \/ Wake
     \/ EnterProcess \/ Process
     \/ ConnectionLost \/ ForceDisconnect \/ GetWorkFromConnection \/ PublishHeight
     \/ NothingNew
  /\ UNCHANGED build

ServerStep ==
  /\ LinkLost \/ \E p \in Packets : ServerSend(p)
  /\ UNCHANGED build

SubmitStep(t) == (EnterSubmit(t) \/ SubmitShare(t)) /\ UNCHANGED build
ThreadStep(t) ==
  SubmitStep(t) \/ \E s \in Shares : FindShare(t, s) /\ UNCHANGED build

Next == MainStep \/ ServerStep \/ \E t \in MinerThreads : ThreadStep(t)

Spec == Init /\ [][Next]_vars

(* The main thread goes on, sleeps end and connect() comes back; a thread  *)
(* that keeps finding cs_xptClient free gets it in the end.  Nothing is    *)
(* assumed of the server and the network.                                  *)
FairSpec ==
  /\ Spec
  /\ SF_vars(MainStep)
  /\ \A t \in MinerThreads : SF_vars(SubmitStep(t))
-----------------------------------------------------------------------------
Sizes == {p.size : p \in Packets} \cup {0}

TypeOK ==
  /\ build \in Builds
  /\ mainpc \in {"loop", "connect", "sleep", "shares", "recv", "processed",
                "publish", "killed"}
  /\ work \in [height : Heights \cup {0}, root : Roots \cup {None},
               algorithm : Algorithms]
  /\ monitor \in Heights \cup {0} /\ started \in BOOLEAN
  /\ cs_xptClient \in MinerThreads \cup {Main, None}
  /\ disconnected \in BOOLEAN /\ loggedIn \in BOOLEAN /\ algorithm \in Algorithms
  /\ recvSize \in Sizes /\ recvIndex \in 0..(HeaderLen + recvSize)
  /\ opcode \in {"auth", "work", "ack", "message", "ping", "other"}
  /\ blockWorkInfo \in [height : Heights \cup {0}, root : Roots \cup {None}]
  /\ link \in {"none", "up", "fin", "down"}
  /\ sent \in Seq(Packets) /\ starts \in Seq(Nat)
  /\ written \in Nat /\ consumed \in Nat
  /\ handled \in Seq(Packets)
  /\ queue \in Seq(Shares) /\ hand \in [MinerThreads -> Shares \cup {None}]
  /\ sends \in [Shares -> Nat] /\ refused \subseteq Shares

(* A share is in one place only: in the hand of one thread, once in the    *)
(* queue, refused, or given to send() once (main.cpp:78-107,               *)
(* xptClient.cpp:479-491, 591-596).                                        *)
SharesAccounted ==
  \A s \in Shares :
    Cardinality({t \in MinerThreads : hand[t] = s})
      + Cardinality({i \in DOMAIN queue : queue[i] = s})
      + (IF s \in refused THEN 1 ELSE 0) + sends[s] <= 1

(* No share is lost with a client object: the main loop replaces an object *)
(* that is disconnected, with its queue, and nothing empties that queue    *)
(* first (main.cpp:345).  It never holds anything, because a share is      *)
(* queued under the lock under which the loop sends the queue and then     *)
(* notices the loss of the connection.                                     *)
NoShareStranded == disconnected => queue = <<>>

(* The miner has no work while the main loop waits to connect again: the   *)
(* heights are 0 after the loss of a connection, and also after a login    *)
(* for another algorithm, where the code does not reset them               *)
(* (main.cpp:300-311, 315-326).  For a server that answers the login first. *)
NoWorkWithoutConnection ==
  disconnected /\ cs_xptClient # Main => work.height = 0 /\ monitor = 0

(* What is mined is the height and the root of one block data packet of    *)
(* the present connection, never a mixture of two or of two connections    *)
(* (main.cpp:190-236, xptClientPacketHandler.cpp:50-90).                    *)
WorkIsFromServer ==
  work.height > 0 =>
    \E k \in DOMAIN handled :
       handled[k].op = "work" /\ handled[k].height = work.height
         /\ handled[k].root = work.root

(* Receiving implements PacketStream: the packets handled are the packets  *)
(* sent, in order, each once, however recv() cuts them, and nothing of one *)
(* connection is taken for a part of the next (xptClient.cpp:499-571).     *)
Stream == INSTANCE PacketStream WITH Packet <- Packets
PacketsInOrder == Stream!StreamSpec

(* The connection loop is the work source the miner is built on (WorkFeed), *)
(* for a server that answers the login first and whole block data.         *)
Feed == INSTANCE WorkFeed
          WITH mainpc <- IF mainpc = "publish" THEN "publish" ELSE "idle"
ImplementsFeed == Feed!FeedSpec

(* xptClient_connect "Returns false on error" (xptClient.cpp:68): in the   *)
(* Windows build, the only one where that is so, an object becomes         *)
(* connected only over a connection.                                       *)
ConnectReportsErrors ==
  [][build = "windows" /\ disconnected /\ ~disconnected' => link' = "up"]_vars

(* Every packet that arrived is handled, unless the connection is given up. *)
PacketsHandled ==
  \A k \in 1..MaxPackets :
    Len(sent) >= k ~> Len(handled) >= k \/ disconnected \/ link = "none"

(* Every share found is refused or sent: no thread waits for ever for      *)
(* cs_xptClient, which the main thread holds while it connects, and nothing *)
(* stays in the queue (main.cpp:82, 344-365).                              *)
SharesSettle ==
  \A s \in Shares :
    (\E t \in MinerThreads : hand[t] = s) ~> s \in refused \/ sends[s] > 0

(* A connection that is lost is noticed, and the main loop always comes to *)
(* connect again: "Reconnect in 45 seconds" (main.cpp:306), "retry in 45   *)
(* seconds" (main.cpp:360).                                                *)
Reconnects == disconnected \/ link \in {"fin", "down"} ~> mainpc = "connect"

=============================================================================
