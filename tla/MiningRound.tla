---------------------------- MODULE MiningRound ----------------------------
(***************************************************************************)
(* What riecoin_process promises its caller, in the abstract: it mines one *)
(* header at a time.  While it does, batches of candidates are posted for  *)
(* testing; every batch is answered, unless it is dropped after the height *)
(* was seen to have changed; and the call returns only when no batch is    *)
(* left.  RiecoinMiner.tla implements this with a master, its workers and  *)
(* three queues.                                                           *)
(***************************************************************************)
EXTENDS Naturals

CONSTANTS Headers,  (* the headers a call may be given                      *)
          Idle      (* no call is in progress                               *)

VARIABLES header,   (* the header being mined, or Idle                      *)
          height,   (* the current block height                             *)
          pending,  (* batches posted and neither answered nor dropped      *)
          noticed   (* the height has just been seen to differ              *)

vars == <<header, height, pending, noticed>>

Init == header = Idle /\ height = 0 /\ pending = 0 /\ noticed = FALSE

NewHeight ==
  /\ height' \in Nat
  /\ UNCHANGED <<header, pending, noticed>>

Begin ==
  /\ header = Idle /\ pending = 0
  /\ header' \in Headers
  /\ UNCHANGED <<height, pending, noticed>>

Post ==
  /\ header # Idle /\ ~noticed
  /\ pending' = pending + 1
  /\ UNCHANGED <<header, height, noticed>>

Answer ==
  /\ header # Idle
  /\ pending > 0
  /\ pending' = pending - 1
  /\ UNCHANGED <<header, height, noticed>>

Notice ==
  /\ header # Idle /\ ~noticed
  /\ header.height # height
  /\ noticed' = TRUE
  /\ UNCHANGED <<header, height, pending>>

(* Whatever no tester has taken yet is dropped. *)
Drop ==
  /\ noticed
  /\ noticed' = FALSE
  /\ pending' \in 0..pending
  /\ UNCHANGED <<header, height>>

End ==
  /\ header # Idle /\ ~noticed
  /\ pending = 0
  /\ header' = Idle
  /\ UNCHANGED <<height, pending, noticed>>

Next == NewHeight \/ Begin \/ Post \/ Answer \/ Notice \/ Drop \/ End

Spec == Init /\ [][Next]_vars
=============================================================================
