--------------------------- MODULE XptClientProofs ---------------------------
(***************************************************************************)
(* Proofs about XptClient, for any threads, shares, packets, sizes and     *)
(* number of packets: its type invariant, that receiving implements        *)
(* PacketStream, that no share is stranded or sent twice, and, for a       *)
(* server that keeps to the protocol, that the connection loop implements  *)
(* WorkFeed.                                                               *)
(***************************************************************************)
EXTENDS XptClient, FiniteSetTheorems, TLAPS

(* Who holds cs_xptClient, and what the main thread knows where it is. *)
Control ==
  /\ cs_xptClient = Main <=> mainpc \notin {"loop", "sleep"}
  /\ \A t \in MinerThreads : cs_xptClient = t => hand[t] # None
  /\ mainpc \in {"shares", "recv", "publish"} => ~disconnected
  /\ mainpc \in {"connect", "sleep"} => disconnected

(* Where the k-th packet begins; after the last, where the next one will.  *)
Boundary(k) == IF k <= Len(sent) THEN starts[k] ELSE written

(* The packets lie one behind the other. *)
Laid ==
  /\ Len(starts) = Len(sent)
  /\ Boundary(1) = 0
  /\ \A k \in 1..Len(sent) :
       /\ Boundary(k + 1) = Boundary(k) + HeaderLen + sent[k].size
       /\ starts[k] < written
       /\ \A j \in 1..(k - 1) : starts[j] < starts[k]

(* The packet that is being received. *)
Current == Len(handled) + 1

(* The buffer holds the beginning of the first packet that was not handled; *)
(* once its header is there, size and opcode are those of that packet, or  *)
(* the size was refused.                                                   *)
Framed ==
  /\ Len(handled) <= Len(sent)
  /\ \A k \in 1..Len(handled) : handled[k] = sent[k]
  /\ consumed <= written
  /\ consumed - recvIndex = Boundary(Current)
  /\ IF recvIndex < HeaderLen THEN recvSize = 0 /\ opcode = "other"
     ELSE /\ Current <= Len(sent)
          /\ \/ /\ recvSize = sent[Current].size /\ opcode = sent[Current].op
                /\ recvIndex < HeaderLen + recvSize
             \/ recvSize = 0 /\ recvIndex = HeaderLen

Safe == TypeOK /\ Control /\ Laid /\ Framed

-----------------------------------------------------------------------------
(* Sequences. *)

LEMMA Appended ==
  ASSUME NEW S, NEW s \in Seq(S), NEW x \in S
  PROVE  /\ Append(s, x) \in Seq(S) /\ Len(Append(s, x)) = Len(s) + 1
         /\ Append(s, x)[Len(s) + 1] = x
         /\ \A k \in 1..Len(s) : Append(s, x)[k] = s[k]
OBVIOUS

LEMMA Element ==
  ASSUME NEW S, NEW s \in Seq(S), NEW k \in 1..Len(s)
  PROVE  s[k] \in S
OBVIOUS

LEMMA Empty == ASSUME NEW S PROVE <<>> \in Seq(S) /\ Len(<<>>) = 0
OBVIOUS

-----------------------------------------------------------------------------
(* Typing of what the actions read. *)

LEMMA PacketFields ==
  ASSUME NEW p \in Packets
  PROVE  /\ p.size \in Nat /\ p.size \in Sizes
         /\ p.op \in {"auth", "work", "ack", "message", "ping", "other"}
         /\ p.cut \in {"none", "early", "late"} /\ p.accepted \in BOOLEAN
         /\ p.algorithm \in Algorithms /\ p.height \in Heights /\ p.root \in Roots
<1>1. p \in PacketType
  BY ClientAssumption
<1> QED
  BY <1>1 DEF PacketType, Sizes

LEMMA SizesNat == Sizes \subseteq Nat
BY PacketFields DEF Sizes

THEOREM SafeInit == Init => Safe
<1> SUFFICES ASSUME Init PROVE Safe
  OBVIOUS
<1> USE ClientAssumption DEF Init
<1>1. TypeOK
  <2>1. \A S : <<>> \in Seq(S)
    BY Empty
  <2>2. work \in [height : Heights \cup {0}, root : Roots \cup {None},
                 algorithm : Algorithms]
    BY DEF Algorithms
  <2>3. blockWorkInfo \in [height : Heights \cup {0}, root : Roots \cup {None}]
    BY DEF NoWork
  <2>4. recvSize \in Sizes /\ recvIndex \in 0..(HeaderLen + recvSize)
    BY DEF Sizes
  <2>5. hand \in [MinerThreads -> Shares \cup {None}] /\ sends \in [Shares -> Nat]
    OBVIOUS
  <2>6. /\ sent \in Seq(Packets) /\ starts \in Seq(Nat) /\ handled \in Seq(Packets)
        /\ queue \in Seq(Shares)
    BY <2>1
  <2> QED
    BY <2>2, <2>3, <2>4, <2>5, <2>6 DEF TypeOK, Algorithms
<1>2. Control
  BY DEF Control
<1>3. Laid
  BY DEF Laid, Boundary
<1>4. Framed
  BY DEF Framed, Boundary, Current
<1> QED
  BY <1>1, <1>2, <1>3, <1>4 DEF Safe

-----------------------------------------------------------------------------
(* Steps that move no bytes. *)

LEMMA BytesUntouched ==
  ASSUME Laid, Framed,
         UNCHANGED <<sent, starts, written, consumed, handled, recvVars>>
  PROVE  Laid' /\ Framed'
<1>1. \A k : Boundary(k)' = Boundary(k)
  BY DEF Boundary
<1>2. Laid'
  BY <1>1 DEF Laid
<1>3. Current' = Current
  BY DEF Current
<1> QED
  BY <1>1, <1>2, <1>3 DEF Framed, recvVars

LEMMA SafeThread ==
  ASSUME Safe, NEW t \in MinerThreads, ThreadStep(t)
  PROVE  Safe'
<1> USE ClientAssumption
<1>0. TypeOK /\ Control /\ Laid /\ Framed
  BY DEF Safe
<1>u. UNCHANGED <<build, sent, starts, written, consumed, handled, recvVars, mainpc,
                  feedVars, disconnected, loginVars, link>>
  BY DEF ThreadStep, SubmitStep, FindShare, EnterSubmit, SubmitShare, streamVars
<1>1. Laid' /\ Framed'
  BY <1>0, <1>u, BytesUntouched
<1>2. CASE \E x \in Shares : FindShare(t, x)
  <2>1. PICK x \in Shares : FindShare(t, x)
    BY <1>2
  <2>2. TypeOK'
    BY <1>0, <1>u, <2>1 DEF FindShare, TypeOK, feedVars, loginVars, recvVars, shareVars
  <2>3. Control'
    BY <1>0, <1>u, <2>1 DEF FindShare, Control, TypeOK
  <2> QED
    BY <1>1, <2>2, <2>3 DEF Safe
<1>3. CASE EnterSubmit(t)
  <2>1. TypeOK'
    BY <1>0, <1>u, <1>3 DEF EnterSubmit, TypeOK, feedVars, loginVars, recvVars, shareVars
  <2>2. Control'
    BY <1>0, <1>u, <1>3 DEF EnterSubmit, Control, TypeOK, shareVars
  <2> QED
    BY <1>1, <2>1, <2>2 DEF Safe
<1>4. CASE SubmitShare(t)
  <2>1. hand[t] \in Shares
    BY <1>0, <1>4 DEF SubmitShare, Control, TypeOK
  <2>2. queue \in Seq(Shares) /\ Append(queue, hand[t]) \in Seq(Shares)
    BY <1>0, <2>1 DEF TypeOK
  <2>3. queue' \in Seq(Shares) /\ refused' \subseteq Shares
    <3>1. refused \subseteq Shares
      BY <1>0 DEF TypeOK
    <3> QED
      BY <1>4, <2>1, <2>2, <3>1 DEF SubmitShare
  <2>4. TypeOK'
    BY <1>0, <1>u, <1>4, <2>3 DEF SubmitShare, TypeOK, feedVars, loginVars, recvVars
  <2>5. Control'
    BY <1>0, <1>u, <1>4 DEF SubmitShare, Control, TypeOK
  <2> QED
    BY <1>1, <2>4, <2>5 DEF Safe
<1> QED
  BY <1>2, <1>3, <1>4 DEF ThreadStep, SubmitStep

(* The main thread's steps, but for those that receive and NewObject. *)
QuietStep ==
  \/ Connect \/ ConnectFails \/ Killed \/ Wake \/ EnterProcess
  \/ SendShares \/ RecvFails \/ RecvNothing
  \/ ConnectionLost \/ ForceDisconnect \/ GetWorkFromConnection \/ PublishHeight
  \/ NothingNew

LEMMA SafeQuiet == Safe /\ QuietStep /\ UNCHANGED build => Safe'
<1> SUFFICES ASSUME Safe, QuietStep, UNCHANGED build PROVE Safe'
  OBVIOUS
<1> USE ClientAssumption
<1>0. TypeOK /\ Control /\ Laid /\ Framed
  BY DEF Safe
<1>u. UNCHANGED <<sent, starts, written, consumed, handled, recvVars, hand, refused,
                  loggedIn, algorithm>>
  BY DEF QuietStep, Connect, ConnectFails, Killed,
         Wake, EnterProcess, SendShares, RecvFails,
         RecvNothing, ConnectionLost, ForceDisconnect, GetWorkFromConnection,
         PublishHeight, NothingNew, streamVars, shareVars, loginVars
<1>1. Laid' /\ Framed'
  BY <1>0, <1>u, BytesUntouched
<1>2. Control'
  <2> USE <1>0, <1>u DEF Control, TypeOK, Return
  <2>1. CASE Connect \/ ConnectFails \/ Killed \/ Wake \/ EnterProcess
    BY <2>1 DEF Connect, ConnectFails, Killed,
         Wake, EnterProcess
  <2>2. CASE SendShares \/ RecvFails \/ RecvNothing
    BY <2>2 DEF SendShares, RecvFails, RecvNothing
  <2>3. CASE ConnectionLost \/ ForceDisconnect
    BY <2>3 DEF ConnectionLost, ForceDisconnect
  <2>4. CASE GetWorkFromConnection \/ PublishHeight \/ NothingNew
    BY <2>4 DEF GetWorkFromConnection, PublishHeight, NothingNew
  <2> QED
    BY <2>1, <2>2, <2>3, <2>4 DEF QuietStep
<1>3. /\ sent' \in Seq(Packets) /\ starts' \in Seq(Nat) /\ written' \in Nat
      /\ consumed' \in Nat /\ handled' \in Seq(Packets)
      /\ hand' \in [MinerThreads -> Shares \cup {None}] /\ refused' \subseteq Shares
      /\ recvSize' \in Sizes /\ recvIndex' \in 0..(HeaderLen + recvSize')
      /\ opcode' \in {"auth", "work", "ack", "message", "ping", "other"}
      /\ loggedIn' \in BOOLEAN /\ algorithm' \in Algorithms
  BY <1>0, <1>u DEF TypeOK, recvVars
<1>4. /\ queue' \in Seq(Shares) /\ sends' \in [Shares -> Nat]
  <2>1. CASE SendShares
    <3>1. queue \in Seq(Shares)
      BY <1>0 DEF TypeOK
    <3>2. \A x \in Shares : Cardinality({k \in DOMAIN queue : queue[k] = x}) \in Nat
      <4> TAKE x \in Shares
      <4>1. IsFiniteSet(1..Len(queue)) /\ DOMAIN queue = 1..Len(queue)
        BY <3>1, FS_Interval
      <4>2. {k \in DOMAIN queue : queue[k] = x} \subseteq 1..Len(queue)
        BY <4>1
      <4> QED
        BY <4>1, <4>2, FS_Subset, FS_CardinalityType
    <3>3. sends \in [Shares -> Nat]
      BY <1>0 DEF TypeOK
    <3>4. \A x \in Shares :
            sends[x] + Cardinality({k \in DOMAIN queue : queue[k] = x}) \in Nat
      BY <3>2, <3>3
    <3>5. sends' \in [Shares -> Nat]
      BY <2>1, <3>4 DEF SendShares
    <3> QED
      BY <2>1, <3>5, Empty DEF SendShares
  <2>2. CASE UNCHANGED <<queue, sends>>
    BY <1>0, <2>2 DEF TypeOK
  <2> QED
    BY <2>1, <2>2 DEF QuietStep, Connect, ConnectFails, Killed,
         Wake, EnterProcess, RecvFails,
         RecvNothing, ConnectionLost, ForceDisconnect, GetWorkFromConnection,
         PublishHeight, NothingNew, shareVars
<1>5. /\ work' \in [height : Heights \cup {0}, root : Roots \cup {None},
                    algorithm : Algorithms]
      /\ monitor' \in Heights \cup {0} /\ started' \in BOOLEAN
  <2> USE <1>0 DEF TypeOK
  <2>1. CASE ConnectionLost
    BY <2>1 DEF ConnectionLost
  <2>2. CASE GetWorkFromConnection
    BY <2>2 DEF GetWorkFromConnection
  <2>3. CASE PublishHeight
    BY <2>3 DEF PublishHeight
  <2>4. CASE UNCHANGED feedVars
    BY <2>4 DEF feedVars
  <2> QED
    BY <2>1, <2>2, <2>3, <2>4 DEF QuietStep, Connect, ConnectFails, Killed,
         Wake, EnterProcess,
         RecvFails, RecvNothing, ForceDisconnect, NothingNew, SendShares
<1>6. blockWorkInfo' \in [height : Heights \cup {0}, root : Roots \cup {None}]
  <2>1. NoWork \in [height : Heights \cup {0}, root : Roots \cup {None}]
    BY DEF NoWork
  <2>2. blockWorkInfo' = NoWork \/ UNCHANGED blockWorkInfo
    BY DEF QuietStep, Connect, ConnectFails, Killed,
         Wake, EnterProcess, SendShares, RecvFails,
         RecvNothing, ConnectionLost, ForceDisconnect, GetWorkFromConnection,
         PublishHeight, NothingNew, loginVars
  <2> QED
    BY <1>0, <2>1, <2>2 DEF TypeOK
<1>7. /\ mainpc' \in {"loop", "connect", "sleep", "shares", "recv", "processed",
                     "publish", "killed"}
      /\ cs_xptClient' \in MinerThreads \cup {Main, None}
      /\ disconnected' \in BOOLEAN /\ link' \in {"none", "up", "fin", "down"}
  BY <1>0 DEF TypeOK, Return, QuietStep, Connect, ConnectFails, Killed,
         Wake, EnterProcess,
         SendShares, RecvFails, RecvNothing, ConnectionLost, ForceDisconnect,
         GetWorkFromConnection, PublishHeight, NothingNew
<1>8. TypeOK'
  BY <1>0, <1>3, <1>4, <1>5, <1>6, <1>7 DEF TypeOK
<1> QED
  BY <1>1, <1>2, <1>8 DEF Safe

LEMMA SafeServer == Safe /\ ServerStep => Safe'
<1> SUFFICES ASSUME Safe, ServerStep PROVE Safe'
  OBVIOUS
<1> USE ClientAssumption
<1>0. TypeOK /\ Control /\ Laid /\ Framed
  BY DEF Safe
<1>1. CASE LinkLost
  <2>u. UNCHANGED <<sent, starts, written, consumed, handled, recvVars, mainpc, feedVars,
                    cs_xptClient, disconnected, loginVars, shareVars>>
    BY <1>1 DEF LinkLost, streamVars
  <2>b. UNCHANGED build
    BY DEF ServerStep
  <2>1. Laid' /\ Framed'
    BY <1>0, <2>u, BytesUntouched
  <2>2. Control'
    BY <1>0, <2>u DEF Control, shareVars
  <2>3. link' \in {"none", "up", "fin", "down"}
    BY <1>1 DEF LinkLost
  <2>4. TypeOK'
    BY <1>0, <2>u, <2>b, <2>3 DEF TypeOK, recvVars, feedVars, loginVars, shareVars
  <2> QED
    BY <2>1, <2>2, <2>4 DEF Safe
<1>2. CASE \E p \in Packets : ServerSend(p)
  <2>1. PICK p \in Packets : ServerSend(p)
    BY <1>2
  <2>2. /\ sent' = Append(sent, p) /\ starts' = Append(starts, written)
        /\ written' = written + HeaderLen + p.size
        /\ UNCHANGED <<mainpc, feedVars, cs_xptClient, disconnected, loginVars,
                       recvVars, link, consumed, handled, shareVars>>
    BY <2>1 DEF ServerSend
  <2>3. /\ sent \in Seq(Packets) /\ starts \in Seq(Nat) /\ written \in Nat
        /\ handled \in Seq(Packets) /\ consumed \in Nat /\ recvIndex \in Nat
        /\ p.size \in Nat /\ HeaderLen \in Nat \ {0} /\ Len(sent) \in Nat
        /\ Len(starts) = Len(sent) /\ Len(handled) \in Nat
    BY <1>0, PacketFields, SizesNat DEF TypeOK, Laid
  <2>4. /\ sent' \in Seq(Packets) /\ Len(sent') = Len(sent) + 1 /\ sent'[Len(sent) + 1] = p
        /\ \A k \in 1..Len(sent) : sent'[k] = sent[k]
    BY <2>2, <2>3, Appended
  <2>5. /\ starts' \in Seq(Nat) /\ Len(starts') = Len(sent) + 1
        /\ starts'[Len(sent) + 1] = written
        /\ \A k \in 1..Len(sent) : starts'[k] = starts[k]
    BY <2>2, <2>3, Appended
  <2>6. written' \in Nat /\ written < written'
    BY <2>2, <2>3
  <2>7. TypeOK'
    <3>1. UNCHANGED build
      BY DEF ServerStep
    <3> QED
      BY <1>0, <2>2, <2>4, <2>5, <2>6, <3>1
         DEF TypeOK, recvVars, feedVars, loginVars, shareVars
  <2>8. Control'
    BY <1>0, <2>2 DEF Control, shareVars
  <2>9. \A k \in 1..(Len(sent) + 1) : Boundary(k)' = Boundary(k)
    BY <2>3, <2>4, <2>5 DEF Boundary
  <2>10. /\ Boundary(Len(sent) + 1) = written
         /\ \A k : k = Len(sent) + 2 => Boundary(k)' = written'
    BY <2>3, <2>4 DEF Boundary
  <2>11. Laid'
    <3>1. Boundary(1)' = 0
      BY <1>0, <2>3, <2>9 DEF Laid
    <3>2. ASSUME NEW k \in 1..Len(sent')
          PROVE  /\ Boundary(k + 1)' = Boundary(k)' + HeaderLen + sent'[k].size
                 /\ starts'[k] < written'
                 /\ \A j \in 1..(k - 1) : starts'[j] < starts'[k]
      <4>1. CASE k \in 1..Len(sent)
        <5>1. /\ Boundary(k + 1) = Boundary(k) + HeaderLen + sent[k].size
              /\ starts[k] < written
              /\ \A j \in 1..(k - 1) : starts[j] < starts[k]
          BY <1>0, <4>1 DEF Laid
        <5>2. Boundary(k + 1)' = Boundary(k + 1) /\ Boundary(k)' = Boundary(k)
          BY <2>3, <2>9, <4>1
        <5>3. sent'[k] = sent[k] /\ starts'[k] = starts[k] /\ starts[k] \in Nat
          BY <2>3, <2>4, <2>5, <4>1, Element
        <5>4. starts'[k] < written'
          BY <2>3, <2>6, <5>1, <5>3
        <5>5. \A j \in 1..(k - 1) : starts'[j] = starts[j]
          BY <2>3, <2>5, <4>1
        <5> QED
          BY <5>1, <5>2, <5>3, <5>4, <5>5
      <4>2. CASE k = Len(sent) + 1
        <5>0. k + 1 = Len(sent) + 2 /\ k \in 1..(Len(sent) + 1)
          BY <2>3, <4>2
        <5>1. Boundary(k)' = written /\ Boundary(k + 1)' = written'
          <6>1. Boundary(k)' = written
            BY <2>9, <2>10, <4>2, <5>0
          <6> QED
            BY <2>10, <5>0, <6>1
        <5>2. sent'[k] = p /\ starts'[k] = written
          BY <2>4, <2>5, <4>2
        <5>3. \A j \in 1..(k - 1) : starts'[j] = starts[j] /\ starts[j] < written
          BY <1>0, <2>3, <2>5, <4>2 DEF Laid
        <5> QED
          BY <2>2, <2>6, <5>1, <5>2, <5>3
      <4> QED
        BY <2>3, <2>4, <4>1, <4>2
    <3> QED
      BY <2>4, <2>5, <3>1, <3>2 DEF Laid
  <2>12. Framed'
    <3>1. /\ handled' = handled /\ consumed' = consumed /\ recvIndex' = recvIndex
          /\ recvSize' = recvSize /\ opcode' = opcode /\ Current' = Current
      BY <2>2 DEF recvVars, Current
    <3>2. Current \in 1..(Len(sent) + 1) /\ Len(handled) <= Len(sent)
      BY <1>0, <2>3 DEF Framed, Current
    <3>3. Boundary(Current)' = Boundary(Current)
      BY <2>9, <3>1, <3>2
    <3>4. /\ Len(handled') <= Len(sent')
          /\ \A k \in 1..Len(handled') : handled'[k] = sent'[k]
          /\ consumed' <= written'
      BY <1>0, <2>3, <2>4, <2>6, <3>1, <3>2 DEF Framed
    <3>5. consumed' - recvIndex' = Boundary(Current)'
      BY <1>0, <3>1, <3>3 DEF Framed
    <3>6. Current <= Len(sent) => Current' <= Len(sent') /\ sent'[Current] = sent[Current]
      BY <2>3, <2>4, <3>1, <3>2
    <3> QED
      BY <1>0, <3>1, <3>4, <3>5, <3>6 DEF Framed
  <2> QED
    BY <2>7, <2>8, <2>11, <2>12 DEF Safe
<1> QED
  BY <1>1, <1>2 DEF ServerStep

LEMMA SafeNewObject == Safe /\ NewObject /\ UNCHANGED build => Safe'
<1> SUFFICES ASSUME Safe, NewObject, UNCHANGED build PROVE Safe'
  OBVIOUS
<1> USE ClientAssumption DEF NewObject
<1>0. TypeOK /\ Control
  BY DEF Safe
<1>1. Laid'
  BY DEF Laid, Boundary
<1>2. Framed'
  BY DEF Framed, Boundary, Current
<1>3. Control'
  BY <1>0 DEF Control, TypeOK
<1>4. /\ sent' \in Seq(Packets) /\ starts' \in Seq(Nat) /\ handled' \in Seq(Packets)
      /\ queue' \in Seq(Shares)
  BY Empty
<1>5. /\ recvSize' \in Sizes /\ recvIndex' \in 0..(HeaderLen + recvSize')
      /\ blockWorkInfo' \in [height : Heights \cup {0}, root : Roots \cup {None}]
  BY DEF Sizes, NoWork
<1>6. TypeOK'
  BY <1>0, <1>4, <1>5 DEF TypeOK, feedVars, Algorithms
<1> QED
  BY <1>1, <1>2, <1>3, <1>6 DEF Safe

-----------------------------------------------------------------------------
(* Receiving. *)

(* What is in the buffer is the first packet that was not handled. *)
LEMMA BufferedIs ==
  ASSUME Safe, NEW r, Received(r)
  PROVE  /\ Current \in 1..Len(sent) /\ sent[Current] \in Packets
         /\ Buffered = sent[Current]
<1> USE ClientAssumption
<1>0. TypeOK /\ Laid /\ Framed
  BY DEF Safe
<1>1. /\ sent \in Seq(Packets) /\ starts \in Seq(Nat) /\ written \in Nat
      /\ handled \in Seq(Packets) /\ consumed \in Nat /\ recvIndex \in Nat
      /\ Len(starts) = Len(sent) /\ Len(sent) \in Nat /\ Len(handled) \in Nat
  BY <1>0, SizesNat DEF TypeOK, Laid
<1>2. /\ Len(handled) <= Len(sent) /\ consumed <= written
      /\ consumed - recvIndex = Boundary(Current) /\ Current = Len(handled) + 1
  BY <1>0 DEF Framed, Current
<1>3. BytesToReceive \in Int /\ r \in 1..BytesToReceive /\ r <= written - consumed
  BY <1>0, SizesNat DEF Received, BytesToReceive, PacketFullSize, TypeOK
<1>4. Current \in 1..Len(sent)
  <2>1. CASE Current = Len(sent) + 1
    <3>1. Boundary(Current) = written
      BY <1>1, <2>1 DEF Boundary
    <3> QED
      BY <1>1, <1>2, <1>3, <3>1
  <2> QED
    BY <1>1, <1>2, <2>1
<1>5. starts[Current] = consumed - recvIndex
  BY <1>2, <1>4 DEF Boundary
<1>6. ASSUME NEW k \in DOMAIN sent, starts[k] = starts[Current]
      PROVE  k = Current
  <2>1. k \in 1..Len(sent)
    BY <1>1
  <2>2. starts[k] \in Nat /\ starts[Current] \in Nat
    BY <1>1, <1>4, <2>1, Element
  <2>3. CASE k < Current
    <3>1. k \in 1..(Current - 1)
      BY <1>1, <1>4, <2>1, <2>3
    <3>2. starts[k] < starts[Current]
      BY <1>0, <1>4, <3>1 DEF Laid
    <3> QED
      BY <1>6, <2>2, <3>2
  <2>4. CASE Current < k
    <3>1. Current \in 1..(k - 1)
      BY <1>1, <1>4, <2>1, <2>4
    <3>2. starts[Current] < starts[k]
      BY <1>0, <2>1, <3>1 DEF Laid
    <3> QED
      BY <1>6, <2>2, <3>2
  <2> QED
    BY <1>1, <1>4, <2>1, <2>3, <2>4
<1>7. Current \in DOMAIN sent
  BY <1>1, <1>4
<1>8. (CHOOSE k \in DOMAIN sent : starts[k] = consumed - recvIndex) = Current
  BY <1>5, <1>6, <1>7
<1>9. Buffered = sent[Current]
  BY <1>5, <1>7, <1>8 DEF Buffered, PacketAt
<1> QED
  BY <1>1, <1>4, <1>9, Element

(* Size and opcode once the bytes received are looked at. *)
LEMMA HeaderAfter ==
  ASSUME Safe, NEW r, Received(r)
  PROVE  /\ r \in Nat \ {0} /\ recvIndex \in Nat
         /\ \/ /\ recvIndex + r < HeaderLen
               /\ SizeAfter(r) = 0 /\ OpcodeAfter(r) = "other" /\ ~TooLarge(r)
            \/ /\ recvIndex + r >= HeaderLen
               /\ recvIndex + r <= HeaderLen + SizeAfter(r)
               /\ SizeAfter(r) = sent[Current].size
               /\ OpcodeAfter(r) = sent[Current].op
         /\ TooLarge(r) => /\ recvIndex + r = HeaderLen /\ recvSize = 0
                           /\ opcode = "other"
<1> USE ClientAssumption
<1>0. TypeOK /\ Framed
  BY DEF Safe
<1>1. /\ Current \in 1..Len(sent) /\ Buffered = sent[Current]
      /\ sent[Current].size \in Nat
  BY BufferedIs, PacketFields
<1>2. recvSize \in Nat /\ recvIndex \in Nat /\ HeaderLen \in Nat \ {0}
  BY <1>0, SizesNat DEF TypeOK
<1>3. r \in 1..(HeaderLen + recvSize - recvIndex)
  BY <1>2 DEF Received, BytesToReceive, PacketFullSize
<1>4. r \in Nat \ {0} /\ recvIndex + r <= HeaderLen + recvSize
  BY <1>2, <1>3
<1>5. CASE recvIndex < HeaderLen
  <2>1. recvSize = 0 /\ opcode = "other"
    BY <1>0, <1>5 DEF Framed
  <2>2. CASE recvIndex + r = HeaderLen
    BY <1>1, <1>2, <1>4, <2>1, <2>2
       DEF HeaderDone, PacketFullSize, SizeAfter, OpcodeAfter, TooLarge
  <2>3. CASE recvIndex + r # HeaderLen
    BY <1>1, <1>2, <1>4, <2>1, <2>3
       DEF HeaderDone, PacketFullSize, SizeAfter, OpcodeAfter, TooLarge
  <2> QED
    BY <1>2, <1>4, <2>2, <2>3
<1>6. CASE recvIndex >= HeaderLen
  <2>1. ~(recvSize = 0 /\ recvIndex = HeaderLen)
    BY <1>2, <1>4
  <2>2. recvSize = sent[Current].size /\ opcode = sent[Current].op
    BY <1>0, <1>2, <1>6, <2>1 DEF Framed
  <2>3. ~HeaderDone(r)
    BY <1>2, <1>4, <1>6 DEF HeaderDone, PacketFullSize
  <2> QED
    BY <1>1, <1>2, <1>4, <1>6, <2>2, <2>3 DEF SizeAfter, OpcodeAfter, TooLarge
<1> QED
  BY <1>2, <1>5, <1>6

(* A packet that is complete ends with the last byte in the buffer. *)
LEMMA CompleteIs ==
  ASSUME Safe, NEW r, RecvPacket(r)
  PROVE  /\ Buffered = sent[Current] /\ Current \in 1..Len(sent)
         /\ sent[Current] \in Packets
         /\ OpcodeAfter(r) = sent[Current].op
         /\ consumed + r = Boundary(Current + 1)
<1> USE ClientAssumption
<1>0. TypeOK /\ Laid /\ Framed
  BY DEF Safe
<1>1. Received(r) /\ ~TooLarge(r) /\ Complete(r)
  BY DEF RecvPacket
<1>2. /\ Current \in 1..Len(sent) /\ sent[Current] \in Packets
      /\ Buffered = sent[Current]
  BY <1>1, BufferedIs
<1>3. sent[Current].size \in Nat /\ HeaderLen \in Nat \ {0}
  BY <1>2, PacketFields
<1>4. /\ recvIndex + r >= SizeAfter(r) + HeaderLen
      /\ r \in Nat /\ recvIndex \in Nat /\ consumed \in Nat
  BY <1>0, <1>1, HeaderAfter DEF Complete, TypeOK
<1>5. /\ recvIndex + r = HeaderLen + sent[Current].size
      /\ OpcodeAfter(r) = sent[Current].op
  BY <1>1, <1>3, <1>4, HeaderAfter
<1>6. Boundary(Current + 1) = Boundary(Current) + HeaderLen + sent[Current].size
  BY <1>0, <1>2 DEF Laid
<1>7. consumed - recvIndex = Boundary(Current)
  BY <1>0 DEF Framed
<1>8. consumed + r = Boundary(Current + 1)
  <2>1. consumed = Boundary(Current) + recvIndex /\ Boundary(Current) \in Int
    BY <1>4, <1>7
  <2> QED
    BY <1>3, <1>4, <1>5, <1>6, <2>1
<1> QED
  BY <1>2, <1>5, <1>8

(* More bytes of the packet that is being received. *)
LEMMA FramedMore ==
  ASSUME Safe, NEW r, Received(r), recvIndex' = recvIndex + r,
         UNCHANGED <<sent, starts, written, handled>>,
         \/ recvIndex' < HeaderLen /\ recvSize' = 0 /\ opcode' = "other"
         \/ /\ recvIndex' >= HeaderLen
            /\ \/ /\ recvSize' = sent[Current].size /\ opcode' = sent[Current].op
                  /\ recvIndex' < HeaderLen + recvSize'
               \/ recvSize' = 0 /\ recvIndex' = HeaderLen
  PROVE  Laid' /\ Framed'
<1> USE ClientAssumption
<1>0. TypeOK /\ Laid /\ Framed
  BY DEF Safe
<1>1. \A k : Boundary(k)' = Boundary(k)
  BY DEF Boundary
<1>2. Laid'
  BY <1>0, <1>1 DEF Laid
<1>3. Current' = Current /\ Current <= Len(sent) /\ Current \in Nat
  BY BufferedIs DEF Current
<1>4. r \in Nat /\ recvIndex \in Nat /\ consumed \in Nat /\ written \in Nat
  BY <1>0, HeaderAfter DEF TypeOK
<1>5. consumed' = consumed + r /\ r <= written - consumed
  BY DEF Received
<1>6. consumed' - recvIndex' = consumed - recvIndex /\ consumed' <= written'
  BY <1>4, <1>5
<1>7. Boundary(Current)' = Boundary(Current)
  BY <1>1, <1>3
<1>8. consumed' - recvIndex' = Boundary(Current)'
  BY <1>0, <1>6, <1>7 DEF Framed
<1>9. /\ Len(handled') <= Len(sent')
      /\ \A k \in 1..Len(handled') : handled'[k] = sent'[k]
  BY <1>0 DEF Framed
<1>10. recvIndex' \in Nat /\ HeaderLen \in Nat
  BY <1>4
<1> QED
  BY <1>2, <1>3, <1>6, <1>8, <1>9, <1>10 DEF Framed

LEMMA SafePiece ==
  ASSUME Safe, UNCHANGED build, NEW r, RecvTooLarge(r) \/ RecvPiece(r)
  PROVE  Safe'
<1> USE ClientAssumption
<1>0. TypeOK /\ Control
  BY DEF Safe
<1>1. /\ Received(r) /\ recvIndex' = recvIndex + r /\ mainpc' = "processed"
      /\ UNCHANGED <<feedVars, cs_xptClient, disconnected, loginVars, link, sent,
                     starts, written, handled, shareVars>>
  BY DEF RecvTooLarge, RecvPiece
<1>2. /\ r \in Nat \ {0} /\ recvIndex \in Nat /\ consumed \in Nat
      /\ HeaderLen \in Nat \ {0} /\ sent[Current] \in Packets
      /\ consumed' = consumed + r /\ mainpc = "recv"
  BY <1>0, <1>1, HeaderAfter, BufferedIs DEF TypeOK, Received
<1>3. /\ sent[Current].size \in Sizes /\ 0 \in Sizes /\ sent[Current].size \in Nat
      /\ sent[Current].op \in {"auth", "work", "ack", "message", "ping", "other"}
  BY <1>2, PacketFields DEF Sizes
<1>4. /\ Laid' /\ Framed'
      /\ recvSize' \in Sizes /\ recvIndex' \in 0..(HeaderLen + recvSize')
      /\ opcode' \in {"auth", "work", "ack", "message", "ping", "other"}
  <2>1. CASE RecvTooLarge(r)
    <3>1. recvIndex' = HeaderLen /\ recvSize' = 0 /\ opcode' = "other"
      BY <1>1, <2>1, HeaderAfter DEF RecvTooLarge
    <3> QED
      BY <1>1, <1>2, <1>3, <3>1, FramedMore
  <2>2. CASE RecvPiece(r)
    <3>1. /\ recvSize' = SizeAfter(r) /\ opcode' = OpcodeAfter(r)
          /\ ~(recvIndex + r >= SizeAfter(r) + HeaderLen)
      BY <2>2 DEF RecvPiece, Complete
    <3>2. CASE recvIndex + r < HeaderLen
      <4>1. SizeAfter(r) = 0 /\ OpcodeAfter(r) = "other"
        BY <1>1, <1>2, <3>2, HeaderAfter
      <4> QED
        BY <1>1, <1>2, <1>3, <3>1, <3>2, <4>1, FramedMore
    <3>3. CASE recvIndex + r >= HeaderLen
      <4>1. SizeAfter(r) = sent[Current].size /\ OpcodeAfter(r) = sent[Current].op
        BY <1>1, <1>2, <3>3, HeaderAfter
      <4>2. recvIndex' < HeaderLen + recvSize'
        BY <1>1, <1>2, <1>3, <3>1, <4>1
      <4>3. recvIndex' \in 0..(HeaderLen + recvSize')
        BY <1>1, <1>2, <1>3, <3>1, <4>1, <4>2
      <4> QED
        BY <1>1, <1>2, <1>3, <3>1, <3>3, <4>1, <4>2, <4>3, FramedMore
    <3> QED
      BY <1>2, <3>2, <3>3
  <2> QED
    BY <2>1, <2>2
<1>5. consumed' \in Nat
  BY <1>2
<1>6. TypeOK'
  BY <1>0, <1>1, <1>4, <1>5 DEF TypeOK, feedVars, loginVars, shareVars
<1>7. Control'
  BY <1>0, <1>1, <1>2 DEF Control, shareVars
<1> QED
  BY <1>4, <1>6, <1>7 DEF Safe

(* What handlers leave is of the types of the variables. *)
LEMMA HandlerTypes ==
  ASSUME TypeOK, NEW p \in Packets, NEW op, LoginAfter(op, p), BlockAfter(op, p)
  PROVE  /\ loggedIn' \in BOOLEAN /\ algorithm' \in Algorithms
         /\ blockWorkInfo' \in [height : Heights \cup {0}, root : Roots \cup {None}]
<1>0. /\ p.algorithm \in Algorithms /\ p.height \in Heights /\ p.root \in Roots
      /\ "other" \in Algorithms
  BY PacketFields DEF Algorithms
<1>1. loggedIn \in BOOLEAN /\ algorithm \in Algorithms
  BY DEF TypeOK
<1>2. blockWorkInfo \in [height : Heights \cup {0}, root : Roots \cup {None}]
  BY DEF TypeOK
<1>3. loggedIn' \in BOOLEAN /\ algorithm' \in Algorithms
  BY <1>0, <1>1 DEF LoginAfter
<1>4. CASE op = "work"
  <2>1. blockWorkInfo' = [height |-> IF p.cut = "early" THEN 0 ELSE p.height,
                          root |-> IF p.cut = "none" THEN p.root ELSE blockWorkInfo.root]
    BY <1>4 DEF BlockAfter
  <2> QED
    BY <1>0, <1>2, <1>3, <2>1
<1>5. CASE op # "work"
  BY <1>2, <1>3, <1>5 DEF BlockAfter
<1> QED
  BY <1>4, <1>5

LEMMA VerdictsBoolean ==
  ASSUME NEW p \in Packets, NEW op, NEW ok \in Verdicts(op, p)
  PROVE  ok \in BOOLEAN
<1>1. p.accepted \in BOOLEAN
  BY PacketFields
<1>2. (p.cut # "early" /\ p.accepted) \in BOOLEAN /\ (p.cut = "none") \in BOOLEAN
  BY <1>1
<1> QED
  BY <1>2 DEF Verdicts

(* A packet is handed to its handler, and the next begins where it ends. *)
LEMMA PacketTaken ==
  ASSUME Safe, NEW r, RecvPacket(r)
  PROVE  /\ Current \in 1..Len(sent) /\ sent[Current] \in Packets
         /\ handled' = Append(handled, sent[Current])
         /\ LoginAfter(sent[Current].op, sent[Current])
         /\ BlockAfter(sent[Current].op, sent[Current])
         /\ \E ok \in Verdicts(sent[Current].op, sent[Current]) :
              /\ disconnected' = ~ok
              /\ link' = IF ok THEN link ELSE "down"
         /\ recvIndex' = 0 /\ recvSize' = 0 /\ opcode' = "other"
         /\ mainpc = "recv" /\ mainpc' = "processed"
         /\ consumed' = Boundary(Current + 1)
         /\ UNCHANGED <<feedVars, cs_xptClient, sent, starts, written, shareVars>>
<1>1. /\ Buffered = sent[Current] /\ Current \in 1..Len(sent)
      /\ sent[Current] \in Packets /\ OpcodeAfter(r) = sent[Current].op
      /\ consumed + r = Boundary(Current + 1)
  BY CompleteIs
<1>2. mainpc = "recv" /\ consumed' = consumed + r
  BY DEF RecvPacket, Received
<1> QED
  BY <1>1, <1>2 DEF RecvPacket

LEMMA SafePacket ==
  ASSUME Safe, UNCHANGED build, NEW r, RecvPacket(r)
  PROVE  Safe'
<1> USE ClientAssumption
<1>0. TypeOK /\ Control /\ Laid /\ Framed
  BY DEF Safe
<1>1. /\ Current \in 1..Len(sent) /\ sent[Current] \in Packets
      /\ handled' = Append(handled, sent[Current])
      /\ LoginAfter(sent[Current].op, sent[Current])
      /\ BlockAfter(sent[Current].op, sent[Current])
      /\ recvIndex' = 0 /\ recvSize' = 0 /\ opcode' = "other"
      /\ mainpc = "recv" /\ mainpc' = "processed"
      /\ consumed' = Boundary(Current + 1)
      /\ UNCHANGED <<feedVars, cs_xptClient, sent, starts, written, shareVars>>
  BY PacketTaken
<1>2. /\ sent \in Seq(Packets) /\ starts \in Seq(Nat) /\ written \in Nat
      /\ handled \in Seq(Packets) /\ Len(starts) = Len(sent)
      /\ Len(sent) \in Nat /\ Len(handled) \in Nat /\ Current = Len(handled) + 1
  BY <1>0 DEF TypeOK, Laid, Current
<1>3. /\ handled' \in Seq(Packets) /\ Len(handled') = Current
      /\ handled'[Current] = sent[Current]
      /\ \A k \in 1..Len(handled) : handled'[k] = handled[k]
  BY <1>1, <1>2, Appended
<1>4. \A k : Boundary(k)' = Boundary(k)
  BY <1>1 DEF Boundary
<1>5. Laid'
  BY <1>0, <1>1, <1>4 DEF Laid
<1>6. consumed' \in Nat /\ consumed' <= written'
  <2>1. CASE Current < Len(sent)
    <3>1. Current + 1 \in 1..Len(sent)
      BY <1>1, <1>2, <2>1
    <3>2. consumed' = starts[Current + 1] /\ starts[Current + 1] < written
      BY <1>0, <1>1, <3>1 DEF Laid, Boundary
    <3>3. starts[Current + 1] \in Nat
      BY <1>2, <3>1, Element
    <3> QED
      BY <1>1, <1>2, <3>2, <3>3
  <2>2. CASE Current = Len(sent)
    BY <1>1, <1>2, <2>2 DEF Boundary
  <2> QED
    BY <1>1, <1>2, <2>1, <2>2
<1>7. Framed'
  <2>1. Current' = Current + 1
    BY <1>3 DEF Current
  <2>2. Boundary(Current)' = Boundary(Current + 1)
    BY <1>4, <2>1
  <2>3. consumed' - recvIndex' = Boundary(Current)'
    BY <1>1, <1>6, <2>2
  <2>4. \A k \in 1..Len(handled') : handled'[k] = sent'[k]
    <3>1. \A k \in 1..Len(handled) : handled'[k] = sent'[k]
      BY <1>0, <1>1, <1>3 DEF Framed
    <3>2. handled'[Current] = sent'[Current]
      BY <1>1, <1>3
    <3>3. ASSUME NEW k \in 1..Len(handled')
          PROVE  k \in 1..Len(handled) \/ k = Current
      BY <1>2, <1>3
    <3> QED
      BY <3>1, <3>2, <3>3
  <2>5. Len(handled') <= Len(sent')
    BY <1>1, <1>2, <1>3
  <2> QED
    BY <1>1, <1>6, <2>3, <2>4, <2>5 DEF Framed
<1>8. disconnected' \in BOOLEAN /\ link' \in {"none", "up", "fin", "down"}
  <2>1. PICK ok \in Verdicts(sent[Current].op, sent[Current]) :
          disconnected' = ~ok /\ link' = IF ok THEN link ELSE "down"
    BY PacketTaken
  <2> QED
    BY <1>0, <2>1 DEF TypeOK
<1>9. TypeOK'
  <2>1. /\ loggedIn' \in BOOLEAN /\ algorithm' \in Algorithms
        /\ blockWorkInfo' \in [height : Heights \cup {0}, root : Roots \cup {None}]
    BY <1>0, <1>1, HandlerTypes
  <2>2. /\ recvSize' \in Sizes /\ recvIndex' \in 0..(HeaderLen + recvSize')
        /\ opcode' \in {"auth", "work", "ack", "message", "ping", "other"}
    BY <1>1 DEF Sizes
  <2> QED
    BY <1>0, <1>1, <1>3, <1>6, <1>8, <2>1, <2>2 DEF TypeOK, feedVars, shareVars
<1>10. Control'
  BY <1>0, <1>1 DEF Control, shareVars
<1> QED
  BY <1>5, <1>7, <1>9, <1>10 DEF Safe

LEMMA SafeNext == Safe /\ [Next]_vars => Safe'
<1> SUFFICES ASSUME Safe, [Next]_vars PROVE Safe'
  OBVIOUS
<1>0. UNCHANGED build
  BY DEF Next, MainStep, ServerStep, ThreadStep, SubmitStep, vars
<1>1. CASE \E r \in 1..BytesToReceive : RecvTooLarge(r) \/ RecvPiece(r) \/ RecvPacket(r)
  BY <1>0, <1>1, SafePiece, SafePacket
<1>2. CASE NewObject
  BY <1>0, <1>2, SafeNewObject
<1>3. CASE QuietStep
  BY <1>0, <1>3, SafeQuiet
<1>4. CASE ServerStep
  BY <1>4, SafeServer
<1>5. CASE \E t \in MinerThreads : ThreadStep(t)
  BY <1>5, SafeThread
<1>6. CASE UNCHANGED vars
  <2>u. UNCHANGED <<sent, starts, written, consumed, handled, recvVars, mainpc, feedVars,
                    cs_xptClient, disconnected, loginVars, link, shareVars>>
    BY <1>6 DEF vars, streamVars
  <2>1. Laid' /\ Framed'
    BY <2>u, BytesUntouched DEF Safe
  <2>2. Control'
    BY <2>u DEF Control, shareVars, Safe
  <2>3. TypeOK'
    BY <1>0, <2>u DEF Safe, TypeOK, recvVars, feedVars, loginVars, shareVars
  <2> QED
    BY <2>1, <2>2, <2>3 DEF Safe
<1> QED
  BY <1>1, <1>2, <1>3, <1>4, <1>5, <1>6 DEF Next, MainStep, Process, QuietStep

LEMMA SafeAlways == Spec => []Safe
<1>1. Safe /\ [Next]_vars => Safe'
  BY SafeNext
<1> QED
  BY <1>1, SafeInit, PTL DEF Spec

(* Every variable of the client, the connection and the main loop stays    *)
(* within its type: the byte counts within the packet in the buffer, the   *)
(* heights and roots among those the server sends.                         *)
THEOREM TypeCorrect == Spec => []TypeOK
<1>1. Safe => TypeOK
  BY DEF Safe
<1> QED
  BY <1>1, SafeAlways, PTL

(* Receiving implements PacketStream: whatever the sizes of the packets and *)
(* the pieces recv() returns, the handlers are called with the packets the *)
(* server sent, in order, each once, and never with a mixture of two       *)
(* packets or two connections (xptClient.cpp:499-571).                     *)
THEOREM ReceivesInOrder == Spec => PacketsInOrder
<1>1. Init => Stream!StreamInit
  BY DEF Init, Stream!StreamInit
<1>2. ASSUME Safe, [Next]_vars
      PROVE  [Stream!Send \/ Stream!Handle \/ Stream!NewStream]_<<sent, handled>>
  <2>1. CASE \E r \in 1..BytesToReceive : RecvPacket(r)
    <3>1. PICK r \in 1..BytesToReceive : RecvPacket(r)
      BY <2>1
    <3>2. /\ Current \in 1..Len(sent) /\ sent' = sent
          /\ handled' = Append(handled, sent[Current])
      BY <1>2, <3>1, PacketTaken
    <3>3. handled \in Seq(Packets) /\ sent \in Seq(Packets)
      BY <1>2 DEF Safe, TypeOK
    <3>4. Len(handled) < Len(sent)
      BY <3>2, <3>3 DEF Current
    <3> QED
      BY <3>2, <3>4 DEF Stream!Handle, Current
  <2>2. CASE \E p \in Packets : ServerSend(p)
    BY <2>2 DEF ServerSend, Stream!Send
  <2>3. CASE NewObject
    BY <2>3 DEF NewObject, Stream!NewStream
  <2>4. CASE QuietStep
    BY <2>4 DEF QuietStep, Connect, ConnectFails, Killed,
         Wake, EnterProcess, SendShares,
         RecvFails, RecvNothing, ConnectionLost, ForceDisconnect,
         GetWorkFromConnection, PublishHeight, NothingNew, streamVars
  <2>5. CASE \E r \in 1..BytesToReceive : RecvTooLarge(r) \/ RecvPiece(r)
    BY <2>5 DEF RecvTooLarge, RecvPiece
  <2>6. CASE LinkLost \/ UNCHANGED vars
    BY <2>6 DEF LinkLost, vars, streamVars
  <2>7. CASE \E t \in MinerThreads : ThreadStep(t)
    BY <2>7 DEF ThreadStep, SubmitStep, FindShare, EnterSubmit, SubmitShare, streamVars
  <2> QED
    BY <1>2, <2>1, <2>2, <2>3, <2>4, <2>5, <2>6, <2>7
       DEF Next, MainStep, Process, QuietStep, ServerStep
<1> QED
  BY <1>1, <1>2, SafeAlways, PTL
     DEF Spec, PacketsInOrder, Stream!StreamSpec, Stream!streamVars

-----------------------------------------------------------------------------
(* The queue of shares.  A share is queued under the lock under which the   *)
(* main thread sends the queue and then learns that the connection is lost. *)
Drained == disconnected \/ mainpc \in {"recv", "processed", "publish"} => queue = <<>>

LEMMA DrainedNext == Safe /\ Drained /\ [Next]_vars => Drained'
<1> SUFFICES ASSUME Safe, Drained, [Next]_vars PROVE Drained'
  OBVIOUS
<1> USE ClientAssumption
<1>0. Control /\ disconnected \in BOOLEAN
  BY DEF Safe, TypeOK
<1>1. CASE \E r \in 1..BytesToReceive : RecvTooLarge(r) \/ RecvPiece(r) \/ RecvPacket(r)
  BY <1>1 DEF RecvTooLarge, RecvPiece, RecvPacket, Received, Drained, shareVars
<1>2. CASE QuietStep
  <2>1. CASE Connect \/ ConnectFails \/ Killed
    BY <1>0, <2>1 DEF Connect, ConnectFails, Killed, Drained, shareVars, Return, Control
  <2>2. CASE Wake \/ EnterProcess \/ SendShares
    BY <1>0, <2>2 DEF Wake, EnterProcess, SendShares, Drained, shareVars, Control
  <2>3. CASE RecvFails \/ RecvNothing \/ ConnectionLost \/ ForceDisconnect
    BY <1>0, <2>3 DEF RecvFails, RecvNothing, ConnectionLost, ForceDisconnect, Drained,
         shareVars, Return
  <2>4. CASE GetWorkFromConnection \/ PublishHeight \/ NothingNew
    BY <1>0, <2>4 DEF GetWorkFromConnection, PublishHeight, NothingNew, Drained,
         shareVars, Return
  <2> QED
    BY <1>2, <2>1, <2>2, <2>3, <2>4 DEF QuietStep
<1>3. CASE NewObject
  BY <1>3 DEF NewObject, Drained
<1>4. CASE ServerStep
  BY <1>4 DEF ServerStep, LinkLost, ServerSend, Drained, shareVars
<1>5. CASE \E t \in MinerThreads : ThreadStep(t)
  <2>1. PICK t \in MinerThreads : ThreadStep(t)
    BY <1>5
  <2>2. CASE SubmitShare(t)
    <3>1. mainpc \in {"loop", "sleep"}
      BY <1>0, <2>2 DEF Control, SubmitShare
    <3> QED
      BY <2>2, <3>1 DEF SubmitShare, Drained
  <2>3. CASE EnterSubmit(t) \/ \E x \in Shares : FindShare(t, x)
    BY <2>3 DEF EnterSubmit, FindShare, Drained, shareVars
  <2> QED
    BY <2>1, <2>2, <2>3 DEF ThreadStep, SubmitStep
<1>6. CASE UNCHANGED vars
  BY <1>6 DEF vars, shareVars, Drained
<1> QED
  BY <1>1, <1>2, <1>3, <1>4, <1>5, <1>6 DEF Next, MainStep, Process, QuietStep

(* A client object that the main loop replaces, and never frees, holds no  *)
(* share that was neither sent nor refused (main.cpp:345).                 *)
THEOREM NoShareLost == Spec => []NoShareStranded
<1>1. Init => Drained
  BY DEF Init, Drained
<1>2. Safe /\ Drained /\ [Next]_vars => Drained'
  BY DrainedNext
<1>3. Drained => NoShareStranded
  BY DEF Drained, NoShareStranded
<1> QED
  BY <1>1, <1>2, <1>3, SafeAlways, PTL DEF Spec

(* With the Windows build's check of connect(), an object becomes connected *)
(* only over a connection (xptClient.cpp:12-43, 68-110).                   *)
THEOREM WindowsReportsErrors == Spec => ConnectReportsErrors
<1>1. ASSUME Safe, [Next]_vars
      PROVE  [build = "windows" /\ disconnected /\ ~disconnected' => link' = "up"]_vars
  <2>0. Control /\ disconnected \in BOOLEAN
    BY <1>1 DEF Safe, TypeOK
  <2>1. CASE \E r \in 1..BytesToReceive : RecvTooLarge(r) \/ RecvPiece(r) \/ RecvPacket(r)
    BY <2>0, <2>1 DEF RecvTooLarge, RecvPiece, RecvPacket, Received, Control
  <2>2. CASE QuietStep
    BY <2>0, <2>2 DEF QuietStep, Connect, ConnectFails, Killed,
         Wake, EnterProcess, SendShares,
         RecvFails, RecvNothing, ConnectionLost, ForceDisconnect, GetWorkFromConnection,
         PublishHeight, NothingNew
  <2>3. CASE NewObject \/ ServerStep
    BY <2>3 DEF NewObject, ServerStep, LinkLost, ServerSend
  <2>4. CASE \E t \in MinerThreads : ThreadStep(t)
    BY <2>4 DEF ThreadStep, SubmitStep, SubmitShare, EnterSubmit, FindShare
  <2> QED
    BY <1>1, <2>1, <2>2, <2>3, <2>4 DEF Next, MainStep, Process, QuietStep
<1> QED
  BY <1>1, SafeAlways, PTL DEF Spec, ConnectReportsErrors

-----------------------------------------------------------------------------
(* With a server that answers the login first, and once. *)

(* What the main thread relies on and nothing in the code checks: nothing   *)
(* but the answer to the login comes first, so there is no work before it;  *)
(* while a login stands for another algorithm, or there is no connection,   *)
(* there is none either.                                                    *)
Session ==
  /\ \A k \in 1..Len(sent) : sent[k].op = "auth" <=> k = 1
  /\ handled = <<>> => ~loggedIn /\ blockWorkInfo = NoWork
  /\ mainpc = "connect" => handled = <<>>
  /\ handled # <<>> /\ ~disconnected => loggedIn
  /\ \/ handled = <<>>
     \/ WrongAlgorithm
     \/ disconnected /\ mainpc \in {"loop", "sleep"}
     => work.height = 0 /\ monitor = 0

LEMMA SessionServer ==
  ASSUME Conforming, Safe, Session, ServerStep
  PROVE  Session'
<1>1. UNCHANGED <<handled, loggedIn, algorithm, blockWorkInfo, mainpc, disconnected, work,
                  monitor>>
  BY DEF ServerStep, LinkLost, ServerSend, feedVars, loginVars, streamVars
<1>2. \A k \in 1..Len(sent') : sent'[k].op = "auth" <=> k = 1
  <2>1. CASE LinkLost
    BY <2>1 DEF LinkLost, streamVars, Session
  <2>2. CASE \E p \in Packets : ServerSend(p)
    <3>1. PICK p \in Packets : ServerSend(p)
      BY <2>2
    <3>2. sent \in Seq(Packets) /\ Len(sent) \in Nat
      BY DEF Safe, TypeOK
    <3>3. /\ Len(sent') = Len(sent) + 1 /\ sent'[Len(sent) + 1] = p
          /\ \A k \in 1..Len(sent) : sent'[k] = sent[k]
      BY <3>1, <3>2, Appended DEF ServerSend
    <3>4. p.op = "auth" <=> Len(sent) = 0
      BY <3>1, <3>2 DEF ServerSend
    <3>5. \A k \in 1..Len(sent) : sent'[k].op = "auth" <=> k = 1
      BY <3>3 DEF Session
    <3> QED
      BY <3>2, <3>3, <3>4, <3>5
  <2> QED
    BY <2>1, <2>2 DEF ServerStep
<1> QED
  BY <1>1, <1>2 DEF Session, WrongAlgorithm

LEMMA SessionQuiet ==
  ASSUME Safe, Session, QuietStep
  PROVE  Session'
<1>0. Control /\ disconnected \in BOOLEAN /\ loggedIn \in BOOLEAN
  BY DEF Safe, TypeOK
<1>1. UNCHANGED <<sent, handled, loggedIn, algorithm>>
  BY DEF QuietStep, Connect, ConnectFails, Killed,
         Wake, EnterProcess, SendShares, RecvFails,
         RecvNothing, ConnectionLost, ForceDisconnect, GetWorkFromConnection,
         PublishHeight, NothingNew, streamVars, loginVars
<1> USE <1>0, <1>1 DEF Session, WrongAlgorithm, Control
<1>2. CASE Connect \/ ConnectFails \/ Killed
  BY <1>2 DEF Connect, ConnectFails, Killed, feedVars, loginVars, Return
<1>3. CASE Wake \/ EnterProcess \/ SendShares
  BY <1>3 DEF Wake, EnterProcess, SendShares, feedVars, loginVars
<1>4. CASE RecvFails \/ RecvNothing
  BY <1>4 DEF RecvFails, RecvNothing, feedVars, loginVars
<1>5. CASE ConnectionLost
  <2>1. work' = [work EXCEPT !.height = 0] /\ monitor' = 0 /\ mainpc' = "sleep"
        /\ UNCHANGED <<disconnected, blockWorkInfo>>
    BY <1>5 DEF ConnectionLost, loginVars, Return
  <2>2. work'.height = 0
    BY <2>1 DEF Safe, TypeOK
  <2> QED
    BY <2>1, <2>2
<1>6. CASE ForceDisconnect
  BY <1>6 DEF ForceDisconnect, feedVars, loginVars, Return
<1>7. CASE GetWorkFromConnection
  <2>1. /\ ~disconnected /\ ~(loggedIn /\ algorithm # "riecoin")
        /\ work'.height = blockWorkInfo.height /\ mainpc' = "publish"
        /\ UNCHANGED <<monitor, disconnected, blockWorkInfo>>
    BY <1>7 DEF GetWorkFromConnection, loginVars
  <2> QED
    BY <2>1 DEF NoWork
<1>8. CASE PublishHeight
  <2>1. mainpc = "publish" /\ monitor' = work.height /\ mainpc' = "loop"
        /\ UNCHANGED <<work, disconnected, blockWorkInfo>>
    BY <1>8 DEF PublishHeight, loginVars, Return
  <2> QED
    BY <2>1
<1>9. CASE NothingNew
  BY <1>9 DEF NothingNew, feedVars, loginVars, Return
<1> QED
  BY <1>2, <1>3, <1>4, <1>5, <1>6, <1>7, <1>8, <1>9 DEF QuietStep

LEMMA SessionPacket ==
  ASSUME Safe, Session, NEW r, RecvPacket(r)
  PROVE  Session'
<1> DEFINE p == sent[Current]
<1>1. /\ Current \in 1..Len(sent) /\ p \in Packets /\ handled' = Append(handled, p)
      /\ LoginAfter(p.op, p) /\ BlockAfter(p.op, p)
      /\ \E ok \in Verdicts(p.op, p) : disconnected' = ~ok
      /\ mainpc = "recv" /\ mainpc' = "processed"
      /\ UNCHANGED <<feedVars, sent>>
  BY PacketTaken
<1>2. handled \in Seq(Packets) /\ ~disconnected /\ loggedIn \in BOOLEAN
  BY <1>1 DEF Safe, TypeOK, Control
<1>3. handled' # <<>> /\ (handled = <<>> <=> Current = 1)
  BY <1>1, <1>2 DEF Current
<1>4. p.op = "auth" <=> Current = 1
  BY <1>1 DEF Session
<1>5. CASE Current = 1
  <2>1. disconnected' = ~(p.cut # "early" /\ p.accepted)
    BY <1>1, <1>4, <1>5 DEF Verdicts
  <2>2. p.cut # "early" /\ p.accepted => loggedIn'
    BY <1>1, <1>4, <1>5 DEF LoginAfter
  <2>3. work.height = 0 /\ monitor = 0
    BY <1>3, <1>5 DEF Session
  <2> QED
    BY <1>1, <1>3, <2>1, <2>2, <2>3 DEF Session, feedVars
<1>6. CASE Current # 1
  <2>1. UNCHANGED <<loggedIn, algorithm>>
    BY <1>1, <1>4, <1>6 DEF LoginAfter
  <2> QED
    BY <1>1, <1>2, <1>3, <1>6, <2>1 DEF Session, feedVars, WrongAlgorithm
<1> QED
  BY <1>5, <1>6

LEMMA SessionNext ==
  ASSUME Conforming
  PROVE  Safe /\ Session /\ [Next]_vars => Session'
<1> SUFFICES ASSUME Safe, Session, [Next]_vars PROVE Session'
  OBVIOUS
<1>1. CASE \E r \in 1..BytesToReceive : RecvPacket(r)
  BY <1>1, SessionPacket
<1>2. CASE \E r \in 1..BytesToReceive : RecvTooLarge(r) \/ RecvPiece(r)
  BY <1>2 DEF RecvTooLarge, RecvPiece, Received, feedVars, loginVars, Session,
              WrongAlgorithm
<1>3. CASE QuietStep
  BY <1>3, SessionQuiet
<1>4. CASE NewObject
  <2>1. work.height = 0 /\ monitor = 0
    BY <1>4 DEF NewObject, Session
  <2> QED
    BY <1>4, <2>1 DEF NewObject, Session, WrongAlgorithm, feedVars
<1>5. CASE ServerStep
  BY <1>5, SessionServer
<1>6. CASE \E t \in MinerThreads : ThreadStep(t)
  <2>1. UNCHANGED <<sent, handled, mainpc, disconnected, loggedIn, algorithm,
                    blockWorkInfo, work, monitor>>
    BY <1>6 DEF ThreadStep, SubmitStep, SubmitShare, EnterSubmit, FindShare, feedVars,
                loginVars, streamVars
  <2> QED
    BY <2>1 DEF Session, WrongAlgorithm
<1>7. CASE UNCHANGED vars
  BY <1>7 DEF vars, feedVars, loginVars, streamVars, Session, WrongAlgorithm
<1> QED
  BY <1>1, <1>2, <1>3, <1>4, <1>5, <1>6, <1>7 DEF Next, MainStep, Process, QuietStep

LEMMA SessionAlways ==
  ASSUME Conforming
  PROVE  Spec => []Session
<1>1. Init => Session
  BY DEF Init, Session, NoWork, WrongAlgorithm
<1>2. Safe /\ Session /\ [Next]_vars => Session'
  BY SessionNext
<1> QED
  BY <1>1, <1>2, SafeAlways, PTL DEF Spec

(* The miner is never left with work while the main loop waits to connect  *)
(* again, also not after a login for another algorithm, where the code does *)
(* not reset the heights (main.cpp:300-311, 315-326).                       *)
THEOREM IdleMinerWithoutConnection ==
  ASSUME Conforming
  PROVE  Spec => []NoWorkWithoutConnection
<1>1. Safe /\ Session => NoWorkWithoutConnection
  BY DEF Safe, TypeOK, Control, Session, NoWorkWithoutConnection
<1> QED
  BY <1>1, SafeAlways, SessionAlways, PTL

(* Block data is whole: every field of it arrived. *)
WholeBlocks == \A p \in Packets : p.op = "work" => p.cut = "none"

FromServer(w) ==
  w.height > 0 =>
    \E k \in DOMAIN handled :
       handled[k].op = "work" /\ handled[k].height = w.height /\ handled[k].root = w.root

Traced == FromServer(blockWorkInfo) /\ FromServer(work)

LEMMA TracedNext ==
  ASSUME WholeBlocks
  PROVE  Safe /\ Session /\ Traced /\ [Next]_vars => Traced'
<1> SUFFICES ASSUME Safe, Session, Traced, [Next]_vars PROVE Traced'
  OBVIOUS
<1>1. CASE \E r \in 1..BytesToReceive : RecvPacket(r)
  <2>1. PICK r \in 1..BytesToReceive : RecvPacket(r)
    BY <1>1
  <2> DEFINE p == sent[Current]
  <2>2. /\ p \in Packets /\ handled' = Append(handled, p) /\ BlockAfter(p.op, p)
        /\ UNCHANGED work
    BY <2>1, PacketTaken DEF feedVars
  <2>3. handled \in Seq(Packets) /\ Len(handled) \in Nat
    BY DEF Safe, TypeOK
  <2>4. /\ handled' \in Seq(Packets) /\ Len(handled') = Len(handled) + 1
        /\ handled'[Len(handled) + 1] = p
        /\ \A k \in 1..Len(handled) : handled'[k] = handled[k]
    BY <2>2, <2>3, Appended
  <2>5. /\ \A k \in DOMAIN handled : k \in DOMAIN handled' /\ handled'[k] = handled[k]
        /\ Len(handled) + 1 \in DOMAIN handled'
    BY <2>3, <2>4
  <2>6. FromServer(work)'
    BY <2>2, <2>5 DEF Traced, FromServer
  <2>7. FromServer(blockWorkInfo)'
    <3>1. CASE p.op = "work"
      <4>1. blockWorkInfo'.height = p.height /\ blockWorkInfo'.root = p.root
        BY <2>2, <3>1 DEF WholeBlocks, BlockAfter
      <4> QED
        BY <2>4, <2>5, <3>1, <4>1 DEF FromServer
    <3>2. CASE p.op # "work"
      BY <2>2, <2>5, <3>2 DEF Traced, FromServer, BlockAfter
    <3> QED
      BY <3>1, <3>2
  <2> QED
    BY <2>6, <2>7 DEF Traced
<1>2. CASE \E r \in 1..BytesToReceive : RecvTooLarge(r) \/ RecvPiece(r)
  BY <1>2 DEF RecvTooLarge, RecvPiece, feedVars, loginVars, Traced, FromServer
<1>3. CASE NewObject
  <2>1. work.height = 0
    BY <1>3 DEF NewObject, Session
  <2> QED
    BY <1>3, <2>1 DEF NewObject, feedVars, NoWork, Traced, FromServer
<1>4. CASE QuietStep
  <2>1. UNCHANGED handled /\ (blockWorkInfo' = NoWork \/ UNCHANGED blockWorkInfo)
    BY <1>4 DEF QuietStep, Connect, ConnectFails, Killed,
         Wake, EnterProcess, SendShares,
         RecvFails, RecvNothing, ConnectionLost, ForceDisconnect, GetWorkFromConnection,
         PublishHeight, NothingNew, streamVars, loginVars
  <2>2. FromServer(blockWorkInfo)'
    BY <2>1 DEF Traced, FromServer, NoWork
  <2>3. CASE UNCHANGED work
    BY <2>1, <2>2, <2>3 DEF Traced, FromServer
  <2>4. CASE ConnectionLost
    <3>1. work'.height = 0
      BY <2>4 DEF ConnectionLost, Safe, TypeOK
    <3> QED
      BY <2>2, <3>1 DEF Traced, FromServer
  <2>5. CASE GetWorkFromConnection
    <3>1. work'.height = blockWorkInfo.height /\ work'.root = blockWorkInfo.root
      BY <2>5 DEF GetWorkFromConnection
    <3> QED
      BY <2>1, <2>2, <3>1 DEF Traced, FromServer
  <2> QED
    BY <1>4, <2>3, <2>4, <2>5 DEF QuietStep, Connect, ConnectFails, Killed,
         Wake, EnterProcess,
         SendShares, RecvFails, RecvNothing, ForceDisconnect, PublishHeight, NothingNew,
         feedVars
<1>5. CASE ServerStep
  BY <1>5 DEF ServerStep, LinkLost, ServerSend, feedVars, loginVars, streamVars, Traced,
              FromServer
<1>6. CASE \E t \in MinerThreads : ThreadStep(t)
  BY <1>6 DEF ThreadStep, SubmitStep, SubmitShare, EnterSubmit, FindShare, feedVars,
              loginVars, streamVars, Traced, FromServer
<1>7. CASE UNCHANGED vars
  BY <1>7 DEF vars, feedVars, loginVars, streamVars, Traced, FromServer
<1> QED
  BY <1>1, <1>2, <1>3, <1>4, <1>5, <1>6, <1>7 DEF Next, MainStep, Process, QuietStep

LEMMA TracedAlways ==
  ASSUME Conforming, WholeBlocks
  PROVE  Spec => []Traced
<1>1. Init => Traced
  BY DEF Init, NoWork, Traced, FromServer
<1>2. Safe /\ Session /\ Traced /\ [Next]_vars => Traced'
  BY TracedNext
<1> QED
  BY <1>1, <1>2, SafeAlways, SessionAlways, PTL DEF Spec

(* What is mined is one block data packet of the present connection: never *)
(* a height of one and a root of another, nor anything of a connection     *)
(* before (main.cpp:190-236, xptClientPacketHandler.cpp:50-90).            *)
THEOREM WorkIsReal ==
  ASSUME Conforming, WholeBlocks
  PROVE  Spec => []WorkIsFromServer
<1>1. Traced => WorkIsFromServer
  BY DEF Traced, FromServer, WorkIsFromServer
<1> QED
  BY <1>1, TracedAlways, PTL

(* What the main thread publishes is what the work source of the miner may. *)
LEMMA WorksPublished ==
  ASSUME Safe, Session, Traced, GetWorkFromConnection
  PROVE  work' \in Feed!Works
<1>1. /\ ~disconnected /\ ~(loggedIn /\ algorithm # "riecoin")
      /\ work' = [height |-> blockWorkInfo.height, root |-> blockWorkInfo.root,
                  algorithm |-> algorithm]
  BY DEF GetWorkFromConnection, WrongAlgorithm
<1>2. /\ blockWorkInfo.height \in Heights \cup {0} /\ blockWorkInfo.root \in Roots \cup {None}
      /\ algorithm \in Algorithms /\ handled \in Seq(Packets)
  BY DEF Safe, TypeOK
<1>3. CASE blockWorkInfo.height = 0
  BY <1>1, <1>2, <1>3 DEF Feed!Works, Feed!Algorithms, Algorithms
<1>4. CASE blockWorkInfo.height # 0
  <2>0. \A h \in Heights : h > 0
    <3>1. \A h \in Nat \ {0} : h > 0
      OBVIOUS
    <3> QED
      BY <3>1, ClientAssumption
  <2>1. blockWorkInfo.height \in Heights /\ blockWorkInfo.height > 0
    BY <1>2, <1>4, <2>0
  <2>2. PICK k \in DOMAIN handled : handled[k].root = blockWorkInfo.root
    BY <2>1 DEF Traced, FromServer
  <2>3. handled[k] \in Packets
    BY <1>2, <2>2, Element
  <2>4. blockWorkInfo.root \in Roots
    BY <2>2, <2>3, PacketFields
  <2>5. loggedIn
    BY <1>1, <1>4 DEF Session, NoWork
  <2> QED
    BY <1>1, <2>1, <2>4, <2>5 DEF Feed!Works
<1> QED
  BY <1>3, <1>4

(* The connection loop implements WorkFeed, on which RiecoinMiner is built: *)
(* every height and root it publishes, in two steps, could come from the   *)
(* work source the miner's properties are about (main.cpp:190-236,         *)
(* 296-340).                                                               *)
THEOREM ConnectionIsFeed ==
  ASSUME Conforming, WholeBlocks
  PROVE  Spec => ImplementsFeed
<1>1. Init => Feed!FeedInit
  BY DEF Init, Feed!FeedInit
<1>2. ASSUME Safe, Session, Traced, [Next]_vars
      PROVE  [Feed!FeedStep]_Feed!feedVars
  <2>1. CASE GetWorkFromConnection
    <3>1. work' \in Feed!Works
      BY <1>2, <2>1, WorksPublished
    <3> QED
      BY <2>1, <3>1 DEF GetWorkFromConnection, NewData, Feed!GetWorkFromConnection,
                        Feed!FeedStep
  <2>2. CASE PublishHeight
    BY <2>2 DEF PublishHeight, Return, Feed!PublishHeight, Feed!FeedStep
  <2>3. CASE ConnectionLost
    BY <2>3 DEF ConnectionLost, Return, Feed!LoseConnection, Feed!FeedStep
  <2>4. CASE \/ Connect \/ ConnectFails \/ Killed \/ Wake \/ EnterProcess \/ SendShares
             \/ RecvFails \/ RecvNothing \/ ForceDisconnect \/ NothingNew \/ NewObject
    BY <2>4 DEF Connect, ConnectFails, Killed,
         Wake, EnterProcess, SendShares, RecvFails,
         RecvNothing, ForceDisconnect, NothingNew, NewObject, Return, feedVars,
         Feed!feedVars
  <2>5. CASE \E r \in 1..BytesToReceive : RecvTooLarge(r) \/ RecvPiece(r) \/ RecvPacket(r)
    BY <2>5 DEF RecvTooLarge, RecvPiece, RecvPacket, Received, feedVars, Feed!feedVars
  <2>6. CASE ServerStep
    BY <2>6 DEF ServerStep, LinkLost, ServerSend, feedVars, Feed!feedVars
  <2>7. CASE \E t \in MinerThreads : ThreadStep(t)
    BY <2>7 DEF ThreadStep, SubmitStep, SubmitShare, EnterSubmit, FindShare, feedVars,
         Feed!feedVars
  <2>8. CASE UNCHANGED vars
    BY <2>8 DEF vars, feedVars, Feed!feedVars
  <2> QED
    BY <1>2, <2>1, <2>2, <2>3, <2>4, <2>5, <2>6, <2>7, <2>8
       DEF Next, MainStep, Process
<1> QED
  BY <1>1, <1>2, SafeAlways, SessionAlways, TracedAlways, PTL
     DEF Spec, ImplementsFeed, Feed!FeedSpec

-----------------------------------------------------------------------------
(* Shares. *)

Held(x) == \E t \in MinerThreads : hand[t] = x
Queued(x) == \E k \in DOMAIN queue : queue[k] = x

(* SharesAccounted without counting. *)
OnePlace(x) ==
  /\ \A t, u \in MinerThreads : hand[t] = x /\ hand[u] = x => t = u
  /\ \A j, k \in DOMAIN queue : queue[j] = x /\ queue[k] = x => j = k
  /\ sends[x] \in {0, 1}
  /\ Held(x) => ~Queued(x) /\ x \notin refused /\ sends[x] = 0
  /\ Queued(x) => x \notin refused /\ sends[x] = 0
  /\ x \in refused => sends[x] = 0

LEMMA AtMostOne ==
  ASSUME NEW T, \A a, b \in T : a = b
  PROVE  Cardinality(T) = IF T = {} THEN 0 ELSE 1
<1>1. CASE T = {}
  BY <1>1, FS_EmptySet
<1>2. CASE T # {}
  <2>1. PICK a \in T : TRUE
    BY <1>2
  <2>2. T = {a}
    BY <2>1
  <2> QED
    BY <1>2, <2>2, FS_Singleton
<1> QED
  BY <1>1, <1>2

(* A share that a thread hands over is in its place alone. *)
LEMMA OnePlaceSubmit ==
  ASSUME Safe, \A y \in Shares : OnePlace(y), NEW t \in MinerThreads, SubmitShare(t),
         NEW x \in Shares
  PROVE  OnePlace(x)'
<1> USE ClientAssumption
<1>0. /\ hand \in [MinerThreads -> Shares \cup {None}] /\ hand[t] \in Shares
      /\ queue \in Seq(Shares) /\ Len(queue) \in Nat
  BY DEF Safe, TypeOK, Control, SubmitShare
<1>1. hand' = [hand EXCEPT ![t] = None] /\ UNCHANGED sends
  BY DEF SubmitShare
<1>2. \A u \in MinerThreads : hand'[u] = IF u = t THEN None ELSE hand[u]
  BY <1>0, <1>1
<1>3. OnePlace(x) /\ x # None
  OBVIOUS
<1>4. /\ \A u \in MinerThreads : hand'[u] = x => hand[u] = x /\ u # t
      /\ hand[t] = x => \A u \in MinerThreads : hand'[u] # x
  BY <1>2, <1>3 DEF OnePlace
<1>5. CASE disconnected
  <2>1. queue' = queue /\ refused' = refused \cup {hand[t]}
    BY <1>5 DEF SubmitShare
  <2>2. CASE hand[t] = x
    <3>1. Held(x) /\ ~Held(x)'
      BY <1>4, <2>2 DEF Held
    <3> QED
      BY <1>1, <1>3, <1>4, <2>1, <2>2, <3>1 DEF OnePlace, Queued
  <2>3. CASE hand[t] # x
    <3>1. x \in refused' <=> x \in refused
      BY <2>1, <2>3
    <3>2. Held(x)' => Held(x)
      BY <1>4 DEF Held
    <3> QED
      BY <1>1, <1>3, <1>4, <2>1, <3>1, <3>2 DEF OnePlace, Queued
  <2> QED
    BY <2>2, <2>3
<1>6. CASE ~disconnected
  <2>1. queue' = Append(queue, hand[t]) /\ refused' = refused
    BY <1>6 DEF SubmitShare
  <2>2. /\ queue' \in Seq(Shares) /\ Len(queue') = Len(queue) + 1
        /\ queue'[Len(queue) + 1] = hand[t]
        /\ \A k \in 1..Len(queue) : queue'[k] = queue[k]
    BY <1>0, <2>1, Appended
  <2>3. /\ DOMAIN queue' = 1..(Len(queue) + 1) /\ DOMAIN queue = 1..Len(queue)
    BY <1>0, <2>2
  <2>4. CASE hand[t] = x
    <3>1. Held(x) /\ ~Held(x)'
      BY <1>4, <2>4 DEF Held
    <3>2. \A k \in DOMAIN queue : queue[k] # x
      BY <1>3, <3>1 DEF OnePlace, Queued
    <3>3. \A k \in DOMAIN queue' : queue'[k] = x => k = Len(queue) + 1
      BY <1>0, <2>2, <2>3, <3>2
    <3> QED
      BY <1>1, <1>3, <1>4, <2>1, <3>1, <3>3 DEF OnePlace
  <2>5. CASE hand[t] # x
    <3>1. \A k \in DOMAIN queue' : queue'[k] = x => k \in DOMAIN queue /\ queue[k] = x
      BY <1>0, <2>2, <2>3, <2>5
    <3>2. (Held(x)' => Held(x)) /\ (Queued(x)' => Queued(x))
      BY <1>4, <3>1 DEF Held, Queued
    <3> QED
      BY <1>1, <1>3, <1>4, <2>1, <3>1, <3>2 DEF OnePlace
  <2> QED
    BY <2>4, <2>5
<1> QED
  BY <1>5, <1>6

LEMMA OnePlaceNext ==
  ASSUME Safe, \A y \in Shares : OnePlace(y), [Next]_vars, NEW x \in Shares
  PROVE  OnePlace(x)'
<1> USE ClientAssumption
<1>0. OnePlace(x) /\ x # None
  OBVIOUS
<1>1. CASE UNCHANGED <<hand, queue, sends, refused>>
  BY <1>0, <1>1 DEF OnePlace, Held, Queued
<1>2. CASE SendShares
  <2>1. /\ queue' = <<>> /\ UNCHANGED <<hand, refused>>
        /\ sends'[x] = sends[x] + Cardinality({k \in DOMAIN queue : queue[k] = x})
    BY <1>2 DEF SendShares
  <2>2. Cardinality({k \in DOMAIN queue : queue[k] = x})
          = IF {k \in DOMAIN queue : queue[k] = x} = {} THEN 0 ELSE 1
    <3>1. \A j, k \in {k \in DOMAIN queue : queue[k] = x} : j = k
      BY <1>0 DEF OnePlace
    <3> QED
      BY <3>1, AtMostOne
  <2>3. Cardinality({k \in DOMAIN queue : queue[k] = x}) = IF Queued(x) THEN 1 ELSE 0
    BY <2>2 DEF Queued
  <2>4. sends'[x] = IF Queued(x) THEN 1 ELSE sends[x]
    BY <1>0, <2>1, <2>3 DEF OnePlace
  <2>5. DOMAIN queue' = {} /\ ~Queued(x)' /\ (Held(x)' <=> Held(x))
    BY <2>1 DEF Queued, Held
  <2> QED
    BY <1>0, <2>1, <2>4, <2>5 DEF OnePlace
<1>3. CASE NewObject
  <2>1. queue' = <<>> /\ UNCHANGED <<hand, refused, sends>>
    BY <1>3 DEF NewObject
  <2>2. DOMAIN queue' = {} /\ ~Queued(x)' /\ (Held(x)' <=> Held(x))
    BY <2>1 DEF Queued, Held
  <2> QED
    BY <1>0, <2>1, <2>2 DEF OnePlace
<1>4. CASE \E t \in MinerThreads, y \in Shares : FindShare(t, y)
  <2>1. PICK t \in MinerThreads, y \in Shares : FindShare(t, y)
    BY <1>4
  <2>2. /\ y \notin refused /\ sends[y] = 0 /\ \A u \in MinerThreads : hand[u] # y
        /\ \A k \in DOMAIN queue : queue[k] # y
        /\ hand' = [hand EXCEPT ![t] = y]
        /\ UNCHANGED <<queue, sends, refused>>
    BY <2>1 DEF FindShare
  <2>3. hand \in [MinerThreads -> Shares \cup {None}]
    BY DEF Safe, TypeOK
  <2>4. \A u \in MinerThreads : hand'[u] = IF u = t THEN y ELSE hand[u]
    BY <2>2, <2>3
  <2>5. CASE x = y
    <3>1. ~Queued(x)' /\ \A u \in MinerThreads : hand'[u] = x => u = t
      BY <2>2, <2>4, <2>5 DEF Queued
    <3> QED
      BY <1>0, <2>2, <2>5, <3>1 DEF OnePlace
  <2>6. CASE x # y
    <3>1. \A u \in MinerThreads : hand'[u] = x => hand[u] = x
      BY <2>4, <2>6
    <3>2. (Held(x)' => Held(x)) /\ (Queued(x)' <=> Queued(x))
      BY <2>2, <3>1 DEF Held, Queued
    <3> QED
      BY <1>0, <2>2, <3>1, <3>2 DEF OnePlace
  <2> QED
    BY <2>5, <2>6
<1>5. CASE \E t \in MinerThreads : SubmitShare(t)
  BY <1>5, OnePlaceSubmit
<1>6. CASE \E t \in MinerThreads : EnterSubmit(t)
  BY <1>1, <1>6 DEF EnterSubmit, shareVars
<1>7. CASE \E r \in 1..BytesToReceive : RecvTooLarge(r) \/ RecvPiece(r) \/ RecvPacket(r)
  BY <1>1, <1>7 DEF RecvTooLarge, RecvPiece, RecvPacket, shareVars
<1>8. CASE ServerStep
  BY <1>1, <1>8 DEF ServerStep, LinkLost, ServerSend, shareVars
<1>9. CASE QuietStep /\ ~SendShares
  BY <1>1, <1>9 DEF QuietStep, Connect, ConnectFails, Killed,
         Wake, EnterProcess, RecvFails,
       RecvNothing, ConnectionLost, ForceDisconnect, GetWorkFromConnection,
       PublishHeight, NothingNew, shareVars
<1>10. CASE UNCHANGED vars
  BY <1>1, <1>10 DEF vars, shareVars
<1> QED
  BY <1>2, <1>3, <1>4, <1>5, <1>6, <1>7, <1>8, <1>9, <1>10
     DEF Next, MainStep, Process, QuietStep, ThreadStep, SubmitStep

(* A share is sent at most once, and never both sent and refused, whatever *)
(* the threads, the connection and the server do (main.cpp:78-107,         *)
(* xptClient.cpp:479-491, 591-596).                                        *)
THEOREM ShareSentOnce == Spec => []SharesAccounted
<1> DEFINE Inv == \A x \in Shares : OnePlace(x)
<1>1. Init => Inv
  <2> SUFFICES ASSUME Init, NEW x \in Shares PROVE OnePlace(x)
    OBVIOUS
  <2>1. DOMAIN queue = {} /\ refused = {} /\ sends[x] = 0
    BY DEF Init
  <2>2. \A t \in MinerThreads : hand[t] # x
    BY ClientAssumption DEF Init
  <2> QED
    BY <2>1, <2>2 DEF OnePlace, Held, Queued
<1>2. Safe /\ Inv /\ [Next]_vars => Inv'
  BY OnePlaceNext
<1>3. Inv => SharesAccounted
  <2> SUFFICES ASSUME Inv, NEW x \in Shares
               PROVE  Cardinality({t \in MinerThreads : hand[t] = x})
                        + Cardinality({k \in DOMAIN queue : queue[k] = x})
                        + (IF x \in refused THEN 1 ELSE 0) + sends[x] <= 1
    BY DEF SharesAccounted
  <2> DEFINE H == {t \in MinerThreads : hand[t] = x}
             Q == {k \in DOMAIN queue : queue[k] = x}
  <2>1. OnePlace(x)
    OBVIOUS
  <2>2. Cardinality(H) = IF H = {} THEN 0 ELSE 1
    <3>1. \A a, b \in H : a = b
      BY <2>1 DEF OnePlace
    <3> QED
      BY <3>1, AtMostOne
  <2>3. Cardinality(Q) = IF Q = {} THEN 0 ELSE 1
    <3>1. \A a, b \in Q : a = b
      BY <2>1 DEF OnePlace
    <3> QED
      BY <3>1, AtMostOne
  <2>4. (H # {} <=> Held(x)) /\ (Q # {} <=> Queued(x))
    BY DEF Held, Queued
  <2>5. /\ sends[x] \in {0, 1}
        /\ H # {} => Q = {} /\ x \notin refused /\ sends[x] = 0
        /\ Q # {} => x \notin refused /\ sends[x] = 0
        /\ x \in refused => sends[x] = 0
    BY <2>1, <2>4 DEF OnePlace
  <2> HIDE DEF H, Q
  <2>6. Cardinality(H) + Cardinality(Q) + (IF x \in refused THEN 1 ELSE 0) + sends[x] <= 1
    BY <2>2, <2>3, <2>5
  <2> QED
    BY <2>6 DEF H, Q
<1> HIDE DEF Inv
<1> QED
  BY <1>1, <1>2, <1>3, SafeAlways, PTL DEF Spec
=============================================================================
