------------------------------ MODULE TsQueue ------------------------------
(***************************************************************************)
(* The bounded blocking queue of tsqueue.hpp, at the grain of its mutex    *)
(* and condition variables.  One action per step between two              *)
(* synchronisation calls: enter the mutex, sleep on a condition variable   *)
(* (which releases the mutex), touch the deque, leave the mutex, signal.   *)
(* The code signals AFTER it has left the mutex, so between the two        *)
(* another thread may run any number of operations.                        *)
(*                                                                         *)
(* SleepConditionVariableCS is pthread_cond_wait in the POSIX build        *)
(* (global.h:42): the 2000 ms limit is dropped there, so a thread that     *)
(* misses its signal sleeps for ever.  pthread_cond_wait may also return   *)
(* without a signal; so may the Windows call, when the limit expires.      *)
(***************************************************************************)
EXTENDS Naturals, Sequences, FiniteSets

CONSTANTS Pushers,   (* threads that call push_back and push_front          *)
          Poppers,   (* threads that call pop_front                         *)
          Clearers,  (* threads that call clear and size                    *)
          Items,     (* the items pushed                                    *)
          MaxSize,   (* template parameter maxSize                          *)
          None       (* the mutex is free                                   *)

Threads == Pushers \cup Poppers \cup Clearers

ASSUME SizeAssumption == MaxSize \in Nat \ {0}
ASSUME ThreadsAssumption == IsFiniteSet(Threads) /\ None \notin Threads

VARIABLES q,     (* _q, front first                                         *)
          lock,  (* the holder of _m                                        *)
          pc,    (* pc[t]: where thread t is in the method it runs          *)
          op,    (* op[t]: that method, "none" outside the queue            *)
          arg,   (* arg[t]: its argument, as a sequence of at most one item *)
          ret    (* ret[t]: its result, as a sequence of at most one value  *)

vars == <<q, lock, pc, op, arg, ret>>

PushOps == {"push_back", "push_front"}
Ops == PushOps \cup {"pop_front", "clear", "size"}
PCs == {"out",       (* not in a method of the queue                        *)
        "enter",     (* waits for _m, from the call or woken from a sleep   *)
        "held",      (* holds _m, at the condition of the while loop        *)
        "cv",        (* asleep on _cv                                       *)
        "cv_full",   (* asleep on _cv_full                                  *)
        "leave",     (* holds _m, has done its work on _q                   *)
        "signal"}    (* has left _m, has not signalled yet                  *)

At(p) == {t \in Threads : pc[t] = p}

TypeOK ==
  /\ q \in Seq(Items) /\ Len(q) <= MaxSize
  /\ lock \in Threads \cup {None}
  /\ pc \in [Threads -> PCs]
  /\ op \in [Threads -> Ops \cup {"none"}]
  /\ arg \in [Threads -> Seq(Items)]
  /\ ret \in [Threads -> Seq(Items \cup Nat)]

Init ==
  /\ q = <<>>
  /\ lock = None
  /\ pc = [t \in Threads |-> "out"]
  /\ op = [t \in Threads |-> "none"]
  /\ arg = [t \in Threads |-> <<>>]
  /\ ret = [t \in Threads |-> <<>>]

-----------------------------------------------------------------------------
(* Calls: any thread may use the methods of its role at any time. *)

Begin(t, o, a) ==
  /\ pc[t] = "out"
  /\ pc' = [pc EXCEPT ![t] = "enter"]
  /\ op' = [op EXCEPT ![t] = o]
  /\ arg' = [arg EXCEPT ![t] = a]
  /\ UNCHANGED <<q, lock, ret>>

Call(t) ==
  \/ t \in Pushers /\ \E o \in PushOps, i \in Items : Begin(t, o, <<i>>)
  \/ t \in Poppers /\ Begin(t, "pop_front", <<>>)
  \/ t \in Clearers /\ \E o \in {"clear", "size"} : Begin(t, o, <<>>)

(* EnterCriticalSection, and the return of a sleep to its while loop. *)
Enter(t) ==
  /\ pc[t] = "enter"
  /\ lock = None
  /\ lock' = t
  /\ pc' = [pc EXCEPT ![t] = "held"]
  /\ UNCHANGED <<q, op, arg, ret>>

(* SleepConditionVariableCS: releases the mutex and sleeps, atomically. *)
Sleep(t, cv) ==
  /\ lock' = None
  /\ pc' = [pc EXCEPT ![t] = cv]
  /\ UNCHANGED <<q, op, arg, ret>>

WaitFull(t) ==
  /\ pc[t] = "held" /\ op[t] \in PushOps
  /\ Len(q) >= MaxSize
  /\ Sleep(t, "cv_full")

WaitEmpty(t) ==
  /\ pc[t] = "held" /\ op[t] = "pop_front"
  /\ q = <<>>
  /\ Sleep(t, "cv")

(* A sleep ends without a signal: spuriously, or at the Windows time limit. *)
WakeUnsignalled(t) ==
  /\ pc[t] \in {"cv", "cv_full"}
  /\ pc' = [pc EXCEPT ![t] = "enter"]
  /\ UNCHANGED <<q, lock, op, arg, ret>>

(* The work on _q, under the mutex. *)
Work(t, next, r) ==
  /\ q' = next
  /\ ret' = [ret EXCEPT ![t] = r]
  /\ pc' = [pc EXCEPT ![t] = "leave"]
  /\ UNCHANGED <<lock, op, arg>>

(* The bound off by one. *)
StoreOneMore(t) ==
  /\ pc[t] = "held" /\ op[t] \in PushOps
  /\ Len(q) <= MaxSize
  /\ \/ op[t] = "push_back" /\ Work(t, q \o arg[t], <<>>)
     \/ op[t] = "push_front" /\ Work(t, arg[t] \o q, <<>>)

Store(t) ==
  /\ pc[t] = "held" /\ op[t] \in PushOps
  /\ Len(q) < MaxSize
  /\ \/ op[t] = "push_back" /\ Work(t, q \o arg[t], <<>>)
     \/ op[t] = "push_front" /\ Work(t, arg[t] \o q, <<>>)

Take(t) ==
  /\ pc[t] = "held" /\ op[t] = "pop_front"
  /\ q # <<>>
  /\ Work(t, Tail(q), <<Head(q)>>)

(* The size read after the clearing. *)
DropThenCount(t) ==
  /\ pc[t] = "held" /\ op[t] = "clear"
  /\ Work(t, <<>>, <<0>>)

Drop(t) ==
  /\ pc[t] = "held" /\ op[t] = "clear"
  /\ Work(t, <<>>, <<Len(q)>>)

Measure(t) ==
  /\ pc[t] = "held" /\ op[t] = "size"
  /\ Work(t, q, <<Len(q)>>)

Leave(t) ==
  /\ pc[t] = "leave"
  /\ lock' = None
  /\ pc' = [pc EXCEPT ![t] = "signal"]
  /\ UNCHANGED <<q, op, arg, ret>>

-----------------------------------------------------------------------------
(* After the mutex: wake the threads W and return. *)
Return(t, W) ==
  /\ pc' = [u \in Threads |-> IF u = t THEN "out"
                              ELSE IF u \in W THEN "enter" ELSE pc[u]]
  /\ op' = [op EXCEPT ![t] = "none"]
  /\ arg' = [arg EXCEPT ![t] = <<>>]
  /\ ret' = [ret EXCEPT ![t] = <<>>]
  /\ UNCHANGED <<q, lock>>

(* WakeConditionVariable wakes one sleeper, any one, if there is one. *)
WakeOne(S) == IF S = {} THEN {{}} ELSE {{u} : u \in S}

(* The wrong condition variable signalled. *)
SignalPushWrong(t) ==
  /\ pc[t] = "signal" /\ op[t] \in PushOps
  /\ \E W \in WakeOne(At("cv_full")) : Return(t, W)

SignalPush(t) ==
  /\ pc[t] = "signal" /\ op[t] \in PushOps
  /\ \E W \in WakeOne(At("cv")) : Return(t, W)

(* No signal after a pop. *)
SignalPopNone(t) ==
  /\ pc[t] = "signal" /\ op[t] = "pop_front"
  /\ Return(t, {})

SignalPop(t) ==
  /\ pc[t] = "signal" /\ op[t] = "pop_front"
  /\ \E W \in WakeOne(At("cv_full")) : Return(t, W)

(* WakeConditionVariable where clear needs WakeAllConditionVariable. *)
SignalClearOne(t) ==
  /\ pc[t] = "signal" /\ op[t] = "clear"
  /\ \E W \in WakeOne(At("cv_full")) : Return(t, W)

(* clear wakes every sleeping pusher; size wakes nobody. *)
SignalClear(t) ==
  /\ pc[t] = "signal" /\ op[t] = "clear"
  /\ Return(t, At("cv_full"))

ReturnSize(t) ==
  /\ pc[t] = "signal" /\ op[t] = "size"
  /\ Return(t, {})

-----------------------------------------------------------------------------
Holder(t) == \/ WaitFull(t) \/ WaitEmpty(t) \/ Store(t) \/ Take(t)
             \/ Drop(t) \/ Measure(t) \/ Leave(t)

Signal(t) == SignalPush(t) \/ SignalPop(t) \/ SignalClear(t) \/ ReturnSize(t)

Step(t) == Call(t) \/ Enter(t) \/ WakeUnsignalled(t) \/ Holder(t) \/ Signal(t)

Next == \E t \in Threads : Step(t)

Spec == Init /\ [][Next]_vars

(***************************************************************************)
(* The scheduler runs a thread that can run, and a thread that competes    *)
(* for the mutex for ever is let in.  Nothing makes a thread call a        *)
(* method, and nothing ends a sleep but a signal.                          *)
(***************************************************************************)
Fairness == \A t \in Threads : /\ WF_vars(Holder(t))
                               /\ WF_vars(Signal(t))
                               /\ SF_vars(Enter(t))

FairSpec == Spec /\ Fairness

-----------------------------------------------------------------------------
(* Threads that are about to signal _cv, and threads that will look for an *)
(* item or for room without being signalled again.                         *)
Owing(ops) == {t \in Threads : pc[t] \in {"leave", "signal"} /\ op[t] \in ops}
Awake(ops) == {t \in Threads : pc[t] \in {"enter", "held"} /\ op[t] \in ops}

(***************************************************************************)
(* No consumer sleeps on an item nobody will wake it for: while a thread   *)
(* sleeps on _cv, every item in the queue is matched by a push that still  *)
(* owes its signal or by a pop_front that is awake and will look again     *)
(* (tsqueue.hpp:36-37 signals outside the mutex, and only once per item).  *)
(***************************************************************************)
NoLostItem ==
  At("cv") # {} =>
     Len(q) <= Cardinality(Owing(PushOps)) + Cardinality(Awake({"pop_front"}))

(***************************************************************************)
(* No producer sleeps on room nobody will wake it for: while a thread      *)
(* sleeps on _cv_full, either a clear still owes its broadcast, or every   *)
(* free place is matched by a pop that owes its signal or by an awake push *)
(* (tsqueue.hpp:60-61 and 73-74).                                          *)
(***************************************************************************)
NoLostRoom ==
  At("cv_full") # {} =>
     \/ Owing({"clear"}) # {}
     \/ MaxSize - Len(q) <=
           Cardinality(Owing({"pop_front"})) + Cardinality(Awake(PushOps))

(* A call of o by thread t has not taken effect yet. *)
Calling(t, ops) == op[t] \in ops /\ pc[t] \in {"enter", "held", "cv", "cv_full"}

(***************************************************************************)
(* A pop_front called on a queue that holds an item gets one, or the queue *)
(* runs empty first: no consumer starves beside a queue that stays full    *)
(* of work, although only signals end its sleep (tsqueue.hpp:52-63).       *)
(***************************************************************************)
PopProgress ==
  \A t \in Poppers : (Calling(t, {"pop_front"}) /\ q # <<>>)
                        ~> (~Calling(t, {"pop_front"}) \/ q = <<>>)

(***************************************************************************)
(* A push called on a queue with room stores its item, or the queue fills  *)
(* up first (tsqueue.hpp:30-48), whether a pop or a clear made the room.   *)
(***************************************************************************)
PushProgress ==
  \A t \in Pushers : (Calling(t, PushOps) /\ Len(q) < MaxSize)
                        ~> (~Calling(t, PushOps) \/ Len(q) = MaxSize)

-----------------------------------------------------------------------------
(***************************************************************************)
(* The queue implements the atomic queue: every operation takes effect in  *)
(* the one step that touches _q, between its call and its return, and the  *)
(* values it returns are those of the atomic queue.                        *)
(***************************************************************************)
Phase == [t \in Threads |-> IF pc[t] = "out" THEN "out"
                            ELSE IF pc[t] \in {"leave", "signal"} THEN "done"
                            ELSE "called"]

Abstract == INSTANCE AtomicQueue WITH phase <- Phase

Linearizable == Abstract!Spec
=============================================================================
