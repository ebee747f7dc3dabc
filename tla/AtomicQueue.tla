---------------------------- MODULE AtomicQueue ----------------------------
(***************************************************************************)
(* What ts_queue (tsqueue.hpp) promises its callers: a bounded deque whose *)
(* operations take effect in one atomic step somewhere between their call  *)
(* and their return.  push_back and push_front take effect only while the  *)
(* queue holds fewer than MaxSize items, pop_front only while it holds     *)
(* one, clear and size at once.  TsQueue.tla implements this specification *)
(* with a mutex and two condition variables, and RiecoinMiner.tla uses the *)
(* queues at this level.                                                   *)
(***************************************************************************)
EXTENDS Naturals, Sequences

CONSTANTS Pushers,   (* threads that call push_back and push_front          *)
          Poppers,   (* threads that call pop_front                         *)
          Clearers,  (* threads that call clear and size                    *)
          Items,     (* the items pushed                                    *)
          MaxSize    (* template parameter maxSize                          *)

VARIABLES q,      (* the items, front first                                 *)
          phase,  (* phase[t]: "out", "called" or "done"                    *)
          op,     (* op[t]: the operation thread t is in, "none" outside    *)
          arg,    (* arg[t]: the sequence of items it was given             *)
          ret     (* ret[t]: the sequence of values it will return          *)

vars == <<q, phase, op, arg, ret>>

Threads == Pushers \cup Poppers \cup Clearers
PushOps == {"push_back", "push_front"}

Init ==
  /\ q = <<>>
  /\ phase = [t \in Threads |-> "out"]
  /\ op = [t \in Threads |-> "none"]
  /\ arg = [t \in Threads |-> <<>>]
  /\ ret = [t \in Threads |-> <<>>]

Begin(t, o, a) ==
  /\ phase[t] = "out"
  /\ phase' = [phase EXCEPT ![t] = "called"]
  /\ op' = [op EXCEPT ![t] = o]
  /\ arg' = [arg EXCEPT ![t] = a]
  /\ UNCHANGED <<q, ret>>

Call(t) ==
  \/ t \in Pushers /\ \E o \in PushOps, i \in Items : Begin(t, o, <<i>>)
  \/ t \in Poppers /\ Begin(t, "pop_front", <<>>)
  \/ t \in Clearers /\ \E o \in {"clear", "size"} : Begin(t, o, <<>>)

(* Thread t's operation o takes effect: the queue becomes next, r is returned. *)
Effect(t, o, next, r) ==
  /\ phase[t] = "called"
  /\ op[t] = o
  /\ q' = next
  /\ phase' = [phase EXCEPT ![t] = "done"]
  /\ ret' = [ret EXCEPT ![t] = r]
  /\ UNCHANGED <<op, arg>>

PushBack(t) == Len(q) < MaxSize /\ Effect(t, "push_back", q \o arg[t], <<>>)
PushFront(t) == Len(q) < MaxSize /\ Effect(t, "push_front", arg[t] \o q, <<>>)
PopFront(t) == q # <<>> /\ Effect(t, "pop_front", Tail(q), <<Head(q)>>)
Clear(t) == Effect(t, "clear", <<>>, <<Len(q)>>)
Size(t) == Effect(t, "size", q, <<Len(q)>>)

Return(t) ==
  /\ phase[t] = "done"
  /\ phase' = [phase EXCEPT ![t] = "out"]
  /\ op' = [op EXCEPT ![t] = "none"]
  /\ arg' = [arg EXCEPT ![t] = <<>>]
  /\ ret' = [ret EXCEPT ![t] = <<>>]
  /\ UNCHANGED q

Step(t) == \/ Call(t) \/ PushBack(t) \/ PushFront(t) \/ PopFront(t)
           \/ Clear(t) \/ Size(t) \/ Return(t)

Next == \E t \in Threads : Step(t)

Spec == Init /\ [][Next]_vars
=============================================================================
