--------------------------- MODULE TsQueueProofs ---------------------------
(***************************************************************************)
(* Proofs about TsQueue, for any threads, items and capacity: its type     *)
(* invariant, that no wake-up is lost, and that it implements AtomicQueue. *)
(***************************************************************************)
EXTENDS TsQueue, FiniteSetTheorems, SequenceTheorems, TLAPS

(***************************************************************************)
(* What links the place of a thread to the mutex, its method and its       *)
(* argument.  Signals are only owed, and sleeps only ended, by threads in  *)
(* the right method, which is what the counting below needs.               *)
(***************************************************************************)
Control ==
  \A t \in Threads :
    /\ pc[t] \in {"held", "leave"} <=> lock = t
    /\ pc[t] = "out" <=> op[t] = "none"
    /\ pc[t] = "cv" => op[t] = "pop_front"
    /\ pc[t] = "cv_full" => op[t] \in PushOps
    /\ op[t] \in PushOps => Len(arg[t]) = 1

Safe == TypeOK /\ Control

-----------------------------------------------------------------------------
(* Two sequences that fit into the queue, one before the other. *)
LEMMA ConcatFits ==
  ASSUME NEW S, NEW s \in Seq(S), NEW u \in Seq(S), NEW M \in Nat,
         Len(s) + Len(u) <= M
  PROVE  s \o u \in Seq(S) /\ Len(s \o u) <= M
BY ConcatProperties

THEOREM SafeInit == Init => Safe
BY SizeAssumption, ThreadsAssumption
   DEF Init, Safe, TypeOK, Control, PCs, Ops, PushOps

(* A step that only moves thread t and the mutex. *)
LEMMA SafeStep ==
  ASSUME Safe, NEW t \in Threads, Step(t)
  PROVE  Safe'
<1> USE SizeAssumption, ThreadsAssumption DEF Safe, TypeOK, Control, PCs, Ops, PushOps
<1>1. CASE Call(t)
  <2>1. ASSUME NEW i \in Items
        PROVE  <<i>> \in Seq(Items) /\ Len(<<i>>) = 1
    OBVIOUS
  <2>e. <<>> \in Seq(Items)
    OBVIOUS
  <2>2. ASSUME NEW o \in Ops, NEW a \in Seq(Items), Begin(t, o, a),
               o \in PushOps => Len(a) = 1
        PROVE  Safe'
    BY <2>2 DEF Begin
  <2> QED
    <3>1. CASE t \in Pushers /\ \E o \in PushOps, i \in Items : Begin(t, o, <<i>>)
      <4>1. PICK o \in PushOps, i \in Items : Begin(t, o, <<i>>)
        BY <3>1
      <4> QED
        BY <4>1, <2>1, <2>2
    <3>2. CASE t \in Poppers /\ Begin(t, "pop_front", <<>>)
      BY <3>2, <2>2, <2>e
    <3>3. CASE t \in Clearers /\ \E o \in {"clear", "size"} : Begin(t, o, <<>>)
      BY <3>3, <2>2, <2>e
    <3> QED
      BY <1>1, <3>1, <3>2, <3>3 DEF Call
<1>2. CASE Enter(t)
  BY <1>2 DEF Enter
<1>3. CASE WakeUnsignalled(t)
  BY <1>3 DEF WakeUnsignalled
<1>4. CASE WaitFull(t)
  BY <1>4 DEF WaitFull, Sleep
<1>5. CASE WaitEmpty(t)
  BY <1>5 DEF WaitEmpty, Sleep
<1>6. CASE Store(t)
  <2>1. PICK nxt \in {q \o arg[t], arg[t] \o q} : Work(t, nxt, <<>>)
    BY <1>6 DEF Store
  <2>2. ASSUME Len(q) < MaxSize, op[t] \in PushOps
        PROVE  nxt \in Seq(Items) /\ Len(nxt) <= MaxSize
    <3>1. /\ q \in Seq(Items) /\ arg[t] \in Seq(Items) /\ MaxSize \in Nat
          /\ Len(q) \in Nat /\ Len(arg[t]) = 1
      BY <2>2
    <3>2. Len(q) + Len(arg[t]) <= MaxSize /\ Len(arg[t]) + Len(q) <= MaxSize
      BY <2>2, <3>1
    <3>3. q \o arg[t] \in Seq(Items) /\ Len(q \o arg[t]) <= MaxSize
      BY <3>1, <3>2, ConcatFits
    <3>4. arg[t] \o q \in Seq(Items) /\ Len(arg[t] \o q) <= MaxSize
      BY <3>1, <3>2, ConcatFits
    <3> QED
      BY <3>3, <3>4
  <2>3. nxt \in Seq(Items) /\ Len(nxt) <= MaxSize
    BY <1>6, <2>2 DEF Store
  <2> QED
    BY <1>6, <2>1, <2>3 DEF Work, Store
<1>7. CASE Take(t)
  BY <1>7 DEF Take, Work
<1>8. CASE Drop(t)
  BY <1>8 DEF Drop, Work
<1>9. CASE Measure(t)
  BY <1>9 DEF Measure, Work
<1>10. CASE Leave(t)
  BY <1>10 DEF Leave
<1>11. ASSUME NEW W \in SUBSET (At("cv") \cup At("cv_full")), Return(t, W),
              pc[t] = "signal"
       PROVE  Safe'
  BY <1>11 DEF Return, At
<1>12. CASE Signal(t)
  BY <1>11, <1>12
     DEF Signal, SignalPush, SignalPop, SignalClear, ReturnSize, WakeOne
<1> QED
  BY <1>1, <1>2, <1>3, <1>4, <1>5, <1>6, <1>7, <1>8, <1>9, <1>10, <1>12
     DEF Step, Holder

(* A stuttering step changes nothing. *)
LEMMA SafeStutter == Safe /\ UNCHANGED vars => Safe'
BY DEF Safe, TypeOK, Control, vars

LEMMA SafeNext == Safe /\ [Next]_vars => Safe'
BY SafeStep, SafeStutter DEF Next

(***************************************************************************)
(* Type correctness: in particular the queue never holds more than MaxSize *)
(* items, whoever signals whom (tsqueue.hpp:32, 42).                       *)
(***************************************************************************)
THEOREM TypeCorrect == Spec => []TypeOK
<1>1. Safe => TypeOK
  BY DEF Safe
<1> QED
  BY SafeInit, SafeNext, <1>1, PTL DEF Spec

-----------------------------------------------------------------------------
(* Counting threads. *)
LEMMA Finite ==
  ASSUME NEW S \in SUBSET Threads
  PROVE  IsFiniteSet(S) /\ Cardinality(S) \in Nat
BY ThreadsAssumption, FS_Subset, FS_CardinalityType

LEMMA CountMore ==
  ASSUME NEW S \in SUBSET Threads, NEW U \in SUBSET Threads, S \subseteq U
  PROVE  Cardinality(S) <= Cardinality(U)
BY Finite, FS_Subset

LEMMA CountAdd ==
  ASSUME NEW S \in SUBSET Threads, NEW t \in Threads, t \notin S
  PROVE  Cardinality(S \cup {t}) = Cardinality(S) + 1
BY Finite, FS_AddElement

LEMMA CountRemove ==
  ASSUME NEW S \in SUBSET Threads, NEW t \in S
  PROVE  Cardinality(S \ {t}) = Cardinality(S) - 1
BY Finite, FS_RemoveElement

(***************************************************************************)
(* The invariant behind NoLostItem, for the method's own sets: a step that *)
(* adds an item adds a thread that owes a signal; a signal moves a thread  *)
(* from the owing to the awake while somebody sleeps; a pop takes an item  *)
(* and itself.  A thread goes to sleep only on an empty queue.             *)
(***************************************************************************)
LEMMA LostItemStep ==
  ASSUME Safe, NoLostItem, NEW t \in Threads, Step(t)
  PROVE  NoLostItem'
<1> DEFINE O == Owing(PushOps)
           A == Awake({"pop_front"})
<1>0. /\ O \in SUBSET Threads /\ A \in SUBSET Threads
      /\ O' \in SUBSET Threads /\ A' \in SUBSET Threads
      /\ Cardinality(O) \in Nat /\ Cardinality(A) \in Nat
      /\ Cardinality(O') \in Nat /\ Cardinality(A') \in Nat
  BY Finite DEF Owing, Awake
<1>1. SUFFICES ASSUME At("cv")' # {}
               PROVE  Len(q)' <= Cardinality(O') + Cardinality(A')
  BY DEF NoLostItem
<1>q. Len(q) \in Nat /\ q \in Seq(Items)
  BY DEF Safe, TypeOK
(* Whatever leaves q alone and neither wakes nor signals. *)
<1>2. ASSUME q' = q, At("cv")' \subseteq At("cv"), O' = O, A \subseteq A'
      PROVE  Len(q)' <= Cardinality(O') + Cardinality(A')
  <2>1. Len(q) <= Cardinality(O) + Cardinality(A)
    BY <1>1, <1>2 DEF NoLostItem
  <2>2. Cardinality(A) <= Cardinality(A')
    BY <1>0, <1>2, CountMore
  <2> QED
    BY <2>1, <2>2, <1>0, <1>2, <1>q
<1>3. ASSUME q' = <<>>
      PROVE  Len(q)' <= Cardinality(O') + Cardinality(A')
  BY <1>3, <1>0
<1> USE DEF PushOps
<1>4. CASE Call(t)
  <2>1. PICK o, a : o \in Ops /\ Begin(t, o, a)
    BY <1>4 DEF Call, Ops
  <2> QED
    BY <2>1, <1>2 DEF Begin, Safe, TypeOK, Control, Owing, Awake, At, Ops
<1>5. CASE Enter(t)
  BY <1>5, <1>2 DEF Enter, Safe, TypeOK, Control, Owing, Awake, At
<1>6. CASE WakeUnsignalled(t)
  BY <1>6, <1>2 DEF WakeUnsignalled, Safe, TypeOK, Control, Owing, Awake, At
<1>7. CASE WaitFull(t)
  BY <1>7, <1>2 DEF WaitFull, Sleep, Safe, TypeOK, Control, Owing, Awake, At
<1>8. CASE WaitEmpty(t)
  BY <1>8, <1>3 DEF WaitEmpty, Sleep
<1>9. CASE Store(t)
  <2>1. At("cv")' = At("cv") /\ A' = A /\ O' = O \cup {t} /\ t \notin O
    BY <1>9 DEF Store, Work, Safe, TypeOK, Control, Owing, Awake, At
  <2>2. Len(q)' = Len(q) + 1
    <3>1. arg[t] \in Seq(Items) /\ Len(arg[t]) = 1
      BY <1>9 DEF Store, Safe, TypeOK, Control
    <3>2. Len(q \o arg[t]) = Len(q) + Len(arg[t])
      BY ONLY <3>1, <1>q, ConcatProperties
    <3>3. Len(arg[t] \o q) = Len(arg[t]) + Len(q)
      BY ONLY <3>1, <1>q, ConcatProperties
    <3> QED
      BY <1>9, <1>q, <3>1, <3>2, <3>3 DEF Store, Work
  <2>3. Cardinality(O') = Cardinality(O) + 1
    BY <1>0, <2>1, CountAdd
  <2> QED
    BY <1>0, <1>1, <1>q, <2>1, <2>2, <2>3 DEF NoLostItem
<1>10. CASE Take(t)
  <2>1. At("cv")' = At("cv") /\ O' = O /\ A' = A \ {t} /\ t \in A
    BY <1>10 DEF Take, Work, Safe, TypeOK, Control, Owing, Awake, At
  <2>2. Len(q)' = Len(q) - 1
    BY <1>10, <1>q, HeadTailProperties DEF Take, Work
  <2>3. Cardinality(A') = Cardinality(A) - 1
    BY <1>0, <2>1, CountRemove
  <2> QED
    BY <1>0, <1>1, <1>q, <2>1, <2>2, <2>3 DEF NoLostItem
<1>11. CASE Drop(t)
  BY <1>11, <1>3 DEF Drop, Work
<1>12. CASE Measure(t)
  BY <1>12, <1>2 DEF Measure, Work, Safe, TypeOK, Control, Owing, Awake, At
<1>13. CASE Leave(t)
  BY <1>13, <1>2 DEF Leave, Safe, TypeOK, Control, Owing, Awake, At
<1>14. CASE SignalPush(t)
  <2>1. PICK W \in WakeOne(At("cv")) : Return(t, W)
    BY <1>14 DEF SignalPush
  <2>2. CASE At("cv") = {}
    BY <1>1, <1>14, <2>1, <2>2 DEF Return, WakeOne, At, Safe, TypeOK
  <2>3. CASE At("cv") # {}
    <3>1. PICK u \in At("cv") : W = {u}
      BY <2>1, <2>3 DEF WakeOne
    <3>2. O' = O \ {t} /\ t \in O
      BY <1>14, <2>1, <3>1
         DEF SignalPush, Return, At, Safe, TypeOK, Control, Owing
    <3>3. A' = A \cup {u} /\ u \notin A
      BY <1>14, <2>1, <3>1
         DEF SignalPush, Return, At, Safe, TypeOK, Control, Awake
    <3>4. Cardinality(O') = Cardinality(O) - 1
      BY <1>0, <3>2, CountRemove
    <3>5. Cardinality(A') = Cardinality(A) + 1
      BY <1>0, <3>1, <3>3, CountAdd DEF At
    <3>6. q' = q
      BY <2>1 DEF Return
    <3> QED
      BY <1>0, <1>q, <2>3, <3>4, <3>5, <3>6 DEF NoLostItem
  <2> QED
    BY <2>2, <2>3
<1>15. ASSUME NEW W \in SUBSET At("cv_full"), Return(t, W), pc[t] = "signal",
              op[t] \notin PushOps
       PROVE  Len(q)' <= Cardinality(O') + Cardinality(A')
  BY <1>15, <1>2 DEF Return, Safe, TypeOK, Control, Owing, Awake, At
<1>16. CASE SignalPop(t)
  BY <1>15, <1>16 DEF SignalPop, WakeOne
<1>17. CASE SignalClear(t)
  BY <1>15, <1>17 DEF SignalClear
<1>18. CASE ReturnSize(t)
  BY <1>15, <1>18 DEF ReturnSize
<1> QED
  BY <1>4, <1>5, <1>6, <1>7, <1>8, <1>9, <1>10, <1>11, <1>12, <1>13, <1>14,
     <1>16, <1>17, <1>18 DEF Step, Holder, Signal

(***************************************************************************)
(* No consumer sleeps on an item nobody will wake it for, for any number   *)
(* of threads and any capacity.                                            *)
(***************************************************************************)
THEOREM NoItemLost == Spec => []NoLostItem
<1>1. Init => NoLostItem
  BY DEF Init, NoLostItem, At
<1>2. Safe /\ NoLostItem /\ [Next]_vars => NoLostItem'
  <2>1. ASSUME NoLostItem, UNCHANGED vars
        PROVE  NoLostItem'
    BY <2>1 DEF NoLostItem, At, Owing, Awake, vars
  <2> QED
    BY <2>1, LostItemStep DEF Next
<1> QED
  BY SafeInit, SafeNext, <1>1, <1>2, PTL DEF Spec

(***************************************************************************)
(* The same count for room: a clear that still owes its broadcast covers   *)
(* every sleeping producer at once.  A thread goes to sleep only on a full *)
(* queue.                                                                  *)
(***************************************************************************)
LEMMA LostRoomStep ==
  ASSUME Safe, NoLostRoom, NEW t \in Threads, Step(t)
  PROVE  NoLostRoom'
<1> DEFINE C == Owing({"clear"})
           O == Owing({"pop_front"})
           A == Awake(PushOps)
           Covered == C # {} \/ MaxSize - Len(q) <= Cardinality(O) + Cardinality(A)
<1>0. /\ O \in SUBSET Threads /\ A \in SUBSET Threads
      /\ O' \in SUBSET Threads /\ A' \in SUBSET Threads
      /\ Cardinality(O) \in Nat /\ Cardinality(A) \in Nat
      /\ Cardinality(O') \in Nat /\ Cardinality(A') \in Nat
  BY Finite DEF Owing, Awake
<1>1. SUFFICES ASSUME At("cv_full")' # {}
               PROVE  Covered'
  BY DEF NoLostRoom
<1>q. /\ Len(q) \in Nat /\ q \in Seq(Items) /\ Len(q) <= MaxSize
      /\ MaxSize \in Nat
  BY SizeAssumption DEF Safe, TypeOK
<1>c. ASSUME At("cv_full") # {}
      PROVE  Covered
  BY <1>c DEF NoLostRoom
(* Whatever leaves q alone and neither wakes nor signals. *)
<1>2. ASSUME q' = q, At("cv_full")' \subseteq At("cv_full"), O' = O, A \subseteq A',
             C' = C
      PROVE  Covered'
  <2>1. Covered
    BY <1>1, <1>2, <1>c
  <2>2. Cardinality(A) <= Cardinality(A')
    BY <1>0, <1>2, CountMore
  <2> QED
    BY <2>1, <2>2, <1>0, <1>2, <1>q
<1>3. ASSUME q' = q, Len(q) >= MaxSize
      PROVE  Covered'
  BY <1>3, <1>0, <1>q
<1> USE DEF PushOps
<1>4. CASE Call(t)
  <2>1. PICK o, a : o \in Ops /\ Begin(t, o, a)
    BY <1>4 DEF Call, Ops
  <2> QED
    BY <2>1, <1>2 DEF Begin, Safe, TypeOK, Control, Owing, Awake, At, Ops
<1>5. CASE Enter(t)
  BY <1>5, <1>2 DEF Enter, Safe, TypeOK, Control, Owing, Awake, At
<1>6. CASE WakeUnsignalled(t)
  BY <1>6, <1>2 DEF WakeUnsignalled, Safe, TypeOK, Control, Owing, Awake, At
<1>7. CASE WaitFull(t)
  BY <1>7, <1>3 DEF WaitFull, Sleep
<1>8. CASE WaitEmpty(t)
  BY <1>8, <1>2 DEF WaitEmpty, Sleep, Safe, TypeOK, Control, Owing, Awake, At
<1>9. CASE Store(t)
  <2>1. /\ At("cv_full")' = At("cv_full") /\ O' = O /\ A' = A \ {t} /\ t \in A
        /\ C' = C
    BY <1>9 DEF Store, Work, Safe, TypeOK, Control, Owing, Awake, At
  <2>2. Len(q)' = Len(q) + 1
    <3>1. arg[t] \in Seq(Items) /\ Len(arg[t]) = 1
      BY <1>9 DEF Store, Safe, TypeOK, Control
    <3>2. Len(q \o arg[t]) = Len(q) + Len(arg[t])
      BY ONLY <3>1, <1>q, ConcatProperties
    <3>3. Len(arg[t] \o q) = Len(arg[t]) + Len(q)
      BY ONLY <3>1, <1>q, ConcatProperties
    <3> QED
      BY <1>9, <1>q, <3>1, <3>2, <3>3 DEF Store, Work
  <2>3. Cardinality(A') = Cardinality(A) - 1
    BY <1>0, <2>1, CountRemove
  <2>4. Covered
    BY <1>1, <1>c, <2>1
  <2> QED
    BY <1>0, <1>q, <2>1, <2>2, <2>3, <2>4
<1>10. CASE Take(t)
  <2>1. /\ At("cv_full")' = At("cv_full") /\ A' = A /\ O' = O \cup {t} /\ t \notin O
        /\ C' = C
    BY <1>10 DEF Take, Work, Safe, TypeOK, Control, Owing, Awake, At
  <2>2. Len(q)' = Len(q) - 1
    BY <1>10, <1>q, HeadTailProperties DEF Take, Work
  <2>3. Cardinality(O') = Cardinality(O) + 1
    BY <1>0, <2>1, CountAdd
  <2>4. Covered
    BY <1>1, <1>c, <2>1
  <2> QED
    BY <1>0, <1>q, <2>1, <2>2, <2>3, <2>4
<1>11. CASE Drop(t)
  BY <1>11 DEF Drop, Work, Safe, TypeOK, Owing
<1>12. CASE Measure(t)
  BY <1>12, <1>2 DEF Measure, Work, Safe, TypeOK, Control, Owing, Awake, At
<1>13. CASE Leave(t)
  BY <1>13, <1>2 DEF Leave, Safe, TypeOK, Control, Owing, Awake, At
<1>14. CASE SignalPop(t)
  <2>1. PICK W \in WakeOne(At("cv_full")) : Return(t, W)
    BY <1>14 DEF SignalPop
  <2>2. CASE At("cv_full") = {}
    BY <1>1, <1>14, <2>1, <2>2 DEF Return, WakeOne, At, Safe, TypeOK
  <2>3. CASE At("cv_full") # {}
    <3>1. PICK u \in At("cv_full") : W = {u}
      BY <2>1, <2>3 DEF WakeOne
    <3>2. O' = O \ {t} /\ t \in O /\ C' = C
      BY <1>14, <2>1, <3>1
         DEF SignalPop, Return, At, Safe, TypeOK, Control, Owing
    <3>3. A' = A \cup {u} /\ u \notin A
      BY <1>14, <2>1, <3>1
         DEF SignalPop, Return, At, Safe, TypeOK, Control, Awake
    <3>4. Cardinality(O') = Cardinality(O) - 1
      BY <1>0, <3>2, CountRemove
    <3>5. Cardinality(A') = Cardinality(A) + 1
      BY <1>0, <3>1, <3>3, CountAdd DEF At
    <3>6. q' = q
      BY <2>1 DEF Return
    <3> QED
      BY <1>0, <1>q, <1>c, <2>3, <3>2, <3>4, <3>5, <3>6
  <2> QED
    BY <2>2, <2>3
<1>15. CASE SignalClear(t)
  BY <1>1, <1>15 DEF SignalClear, Return, At, Safe, TypeOK
<1>16. ASSUME NEW W \in SUBSET At("cv"), Return(t, W), pc[t] = "signal",
              op[t] \notin {"pop_front", "clear"}
       PROVE  Covered'
  <2>1. q' = q /\ At("cv_full")' = At("cv_full") /\ O' = O
    BY <1>16 DEF Return, Safe, TypeOK, Control, Owing, At
  <2>2. A \subseteq A' /\ C' = C
    <3>1. t \notin A
      BY <1>16 DEF Awake
    <3>2. A \subseteq A'
      BY <1>16, <3>1 DEF Return, Awake, At
    <3>3. C' = C
      BY <1>16 DEF Return, Owing, At
    <3> QED
      BY <3>2, <3>3
  <2> QED
    BY <1>2, <2>1, <2>2
<1>17. CASE SignalPush(t)
  BY <1>16, <1>17 DEF SignalPush, WakeOne
<1>18. CASE ReturnSize(t)
  BY <1>16, <1>18 DEF ReturnSize
<1> QED
  BY <1>4, <1>5, <1>6, <1>7, <1>8, <1>9, <1>10, <1>11, <1>12, <1>13, <1>14,
     <1>15, <1>17, <1>18 DEF Step, Holder, Signal

(***************************************************************************)
(* No producer sleeps on room nobody will wake it for, for any number of   *)
(* threads and any capacity.                                               *)
(***************************************************************************)
THEOREM NoRoomLost == Spec => []NoLostRoom
<1>1. Init => NoLostRoom
  BY DEF Init, NoLostRoom, At
<1>2. Safe /\ NoLostRoom /\ [Next]_vars => NoLostRoom'
  <2>1. ASSUME NoLostRoom, UNCHANGED vars
        PROVE  NoLostRoom'
    BY <2>1 DEF NoLostRoom, At, Owing, Awake, vars
  <2> QED
    BY <2>1, LostRoomStep DEF Next
<1> QED
  BY SafeInit, SafeNext, <1>1, <1>2, PTL DEF Spec

-----------------------------------------------------------------------------
(* Every step of the queue is a step of the atomic queue or invisible to   *)
(* it: only the work under the mutex changes _q.                           *)
LEMMA AbstractStep ==
  ASSUME Safe, NEW t \in Threads, Step(t)
  PROVE  Abstract!Next \/ UNCHANGED Abstract!vars
<1> USE DEF Safe, TypeOK, Control
<1>t. t \in Abstract!Threads
  BY DEF Abstract!Threads, Threads
(* The mapped phase where one thread moves. *)
<1>p. ASSUME NEW l, pc' = [pc EXCEPT ![t] = l]
      PROVE  Phase' = [Phase EXCEPT ![t] =
                         IF l = "out" THEN "out"
                         ELSE IF l \in {"leave", "signal"} THEN "done"
                         ELSE "called"]
  BY <1>p DEF Phase
(* Moves within one phase. *)
<1>s. ASSUME NEW l, pc' = [pc EXCEPT ![t] = l], UNCHANGED <<q, op, arg, ret>>,
             \/ /\ pc[t] \in {"enter", "held", "cv", "cv_full"}
                /\ l \in {"enter", "held", "cv", "cv_full"}
             \/ pc[t] = "leave" /\ l = "signal"
      PROVE  UNCHANGED Abstract!vars
  <2>1. Phase' = Phase
    BY <1>s DEF Phase
  <2> QED
    BY <1>s, <2>1 DEF Abstract!vars
<1>1. CASE Call(t)
  <2>1. ASSUME NEW o, NEW a, Begin(t, o, a)
        PROVE  Abstract!Begin(t, o, a)
    <3>1. Phase[t] = "out"
      BY <2>1 DEF Begin, Phase
    <3>2. Phase' = [Phase EXCEPT ![t] = "called"]
      BY <2>1 DEF Begin, Phase
    <3> QED
      BY <2>1, <3>1, <3>2 DEF Begin, Abstract!Begin
  <2>2. Abstract!Call(t)
    BY <1>1, <2>1 DEF Call, Abstract!Call, PushOps, Abstract!PushOps
  <2> QED
    BY <1>t, <2>2 DEF Abstract!Next, Abstract!Step
<1>2. CASE Enter(t)
  BY <1>2, <1>s DEF Enter
<1>3. CASE WakeUnsignalled(t)
  BY <1>3, <1>s DEF WakeUnsignalled
<1>4. CASE WaitFull(t)
  BY <1>4, <1>s DEF WaitFull, Sleep
<1>5. CASE WaitEmpty(t)
  BY <1>5, <1>s DEF WaitEmpty, Sleep
<1>6. CASE Leave(t)
  BY <1>6, <1>s DEF Leave
<1>w. ASSUME NEW o, NEW nxt, NEW r, pc[t] = "held", op[t] = o, Work(t, nxt, r)
      PROVE  Abstract!Effect(t, o, nxt, r)
  <2>1. Phase[t] = "called"
    BY <1>w DEF Phase
  <2>2. Phase' = [Phase EXCEPT ![t] = "done"]
    BY <1>w, <1>p DEF Work
  <2> QED
    BY <1>w, <2>1, <2>2 DEF Work, Abstract!Effect
<1>7. CASE Store(t)
  <2>1. Abstract!PushBack(t) \/ Abstract!PushFront(t)
    BY <1>7, <1>w DEF Store, Abstract!PushBack, Abstract!PushFront
  <2> QED
    BY <1>t, <2>1 DEF Abstract!Next, Abstract!Step
<1>8. CASE Take(t)
  <2>1. Abstract!PopFront(t)
    BY <1>8, <1>w DEF Take, Abstract!PopFront
  <2> QED
    BY <1>t, <2>1 DEF Abstract!Next, Abstract!Step
<1>9. CASE Drop(t)
  <2>1. Abstract!Clear(t)
    BY <1>9, <1>w DEF Drop, Abstract!Clear
  <2> QED
    BY <1>t, <2>1 DEF Abstract!Next, Abstract!Step
<1>10. CASE Measure(t)
  <2>1. Abstract!Size(t)
    BY <1>10, <1>w DEF Measure, Abstract!Size
  <2> QED
    BY <1>t, <2>1 DEF Abstract!Next, Abstract!Step
<1>r. ASSUME NEW W \in SUBSET (At("cv") \cup At("cv_full")), Return(t, W),
             pc[t] = "signal"
      PROVE  Abstract!Next
  <2>1. Phase[t] = "done"
    BY <1>r DEF Phase
  <2>2. Phase' = [Phase EXCEPT ![t] = "out"]
    BY <1>r DEF Phase, Return, At
  <2>3. Abstract!Return(t)
    BY <1>r, <2>1, <2>2 DEF Return, Abstract!Return
  <2> QED
    BY <1>t, <2>3 DEF Abstract!Next, Abstract!Step
<1>11. CASE Signal(t)
  BY <1>11, <1>r
     DEF Signal, SignalPush, SignalPop, SignalClear, ReturnSize, WakeOne
<1> QED
  BY <1>1, <1>2, <1>3, <1>4, <1>5, <1>6, <1>7, <1>8, <1>9, <1>10, <1>11
     DEF Step, Holder

(***************************************************************************)
(* The queue of tsqueue.hpp implements the atomic bounded deque: for any   *)
(* threads, items and capacity, each operation takes effect in one step    *)
(* between its call and its return, with the atomic deque's result.        *)
(***************************************************************************)
THEOREM QueueLinearizable == Spec => Linearizable
<1>1. Init => Abstract!Init
  BY DEF Init, Abstract!Init, Phase, Abstract!Threads, Threads
<1>2. Safe /\ [Next]_vars => [Abstract!Next]_(Abstract!vars)
  <2>1. UNCHANGED vars => UNCHANGED Abstract!vars
    BY DEF vars, Abstract!vars, Phase
  <2> QED
    BY <2>1, AbstractStep DEF Next
<1> QED
  BY SafeInit, SafeNext, <1>1, <1>2, PTL DEF Spec, Linearizable, Abstract!Spec
=============================================================================
