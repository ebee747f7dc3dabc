---------------------------- MODULE RiecoinMiner ----------------------------
(***************************************************************************)
(* The mining core: riecoinMiner.cpp, with the part of main.cpp that feeds *)
(* it.  The first miner thread that gets work elects itself master; every  *)
(* other one becomes a worker for ever.  The master splits a piece of work *)
(* into jobs on verifyWorkQueue and collects the workers' answers from     *)
(* workerDoneQueue (MOD and SIEVE jobs) and testDoneQueue (CHECK jobs).    *)
(* The main thread publishes new block data and the height that the master *)
(* polls to notice it (WorkFeed).                                          *)
(*                                                                         *)
(* The queues are the atomic queues of AtomicQueue.tla.  The done queues   *)
(* carry only the value 1, so each is the number of its items.  A prime is *)
(* its position in riecoin_primeTestTable; an index of the sieve, and what *)
(* is marked there, is abstracted to which prime was marked, for which     *)
(* header, at which pass over the sieve.                                   *)
(***************************************************************************)
EXTENDS Integers, Sequences, FiniteSets, WorkFeed

CONSTANTS
  MinerThreads,     (* the threads that run xptMiner_minerThread            *)
  VwqSize, WdqSize, TdqSize,  (* capacities of the three queues             *)
  MaxIter,          (* maxiter: passes of the sieve over one header         *)
  PrimorialNumber,  (* riecoin_primorialNumber: first prime sieved with     *)
  PrimeTestSize,    (* riecoin_primeTestSize: primes in the table           *)
  NDense, NSparse,  (* primes below riecoin_denseLimit, below max_increments *)
  ModParts,         (* 128: MOD jobs a table is cut into, about             *)
  NSieveWorkers,    (* N_SIEVE_WORKERS: sieves of the workers               *)
  SieveSlack,       (* 1000: a shorter last SIEVE job is merged             *)
  WorkIndexes,      (* WORK_INDEXES: candidates of a CHECK job              *)
  MaxCandidates,    (* bound: candidates one pass leaves in the sieve       *)
  SeedLimit         (* values of uniqueMerkleSeedGenerator (2^32)           *)

ASSUME ThreadAssumption == IsFiniteSet(MinerThreads) /\ None \notin MinerThreads
ASSUME TableAssumption ==
  /\ PrimorialNumber \in Nat /\ PrimeTestSize \in Nat
  /\ NDense \in Nat /\ NSparse \in Nat
  /\ PrimorialNumber + NDense + NSparse <= PrimeTestSize
  /\ PrimorialNumber < PrimeTestSize
  /\ ModParts \in Nat \ {0} /\ ModParts <= PrimeTestSize
  /\ NSieveWorkers \in Nat \ {0} /\ SieveSlack \in Nat \ {0}
ASSUME BoundAssumption ==
  /\ MaxIter \in Nat /\ WorkIndexes \in Nat \ {0} /\ MaxCandidates \in Nat
  /\ SeedLimit \in Nat \ {0}
  /\ Heights \subseteq Nat \ {0}
ModIncr == PrimeTestSize \div ModParts
(* 1024, 3096 and 3096 places; at most 129 threads, 255 MOD jobs, 8 SIEVE  *)
(* jobs.                                                                   *)
ASSUME QueueAssumption ==
  /\ VwqSize \in Nat \ {0} /\ WdqSize \in Nat \ {0} /\ TdqSize \in Nat
  /\ PrimeTestSize <= WdqSize * ModIncr /\ NSieveWorkers <= WdqSize
  /\ VwqSize + Cardinality(MinerThreads) <= TdqSize

VARIABLES
  seed,         (* uniqueMerkleSeedGenerator                                *)
  (* miner threads *)
  pc,           (* pc[t]: where miner thread t is                           *)
  block,        (* block[t]: its minerRiecoinBlock, on its stack            *)
  i_am_master,  (* thread-local                                             *)
  there_is_a_master,
  job, idx,     (* job[t], idx[t]: a worker's job and its loop index        *)
  (* shared by master and workers *)
  vwq, wdq, tdq,  (* verifyWorkQueue, workerDoneQueue, testDoneQueue        *)
  target,       (* z_verify_target, as the header it was computed from      *)
  verify_block, (* the thread whose block verify_block points at            *)
  offsets,      (* offsets[p]: header and pass its six offsets stand for    *)
  hits,         (* segment_hits: primes bucketed, with their header         *)
  sieves,       (* riecoin_sieves: marks in each worker's sieve             *)
  (* locals of the master *)
  sieve,        (* riecoin_sieve                                            *)
  loop, base, which_sieve,
  awaited,      (* n_workers, less what it has popped from workerDoneQueue  *)
  n_indexes,    (* w.testWork.n_indexes                                     *)
  to_scan,      (* candidates the scan has not reached                      *)
  outstandingTests

mainVars == <<work, mainpc, monitor>>
electVars == <<i_am_master, there_is_a_master>>
workerVars == <<job, idx>>
tableVars == <<target, verify_block, offsets, hits, sieves, sieve>>
masterVars == <<loop, base, which_sieve, awaited, n_indexes, to_scan,
                outstandingTests>>
queueVars == <<vwq, wdq, tdq>>

vars == <<mainVars, seed, pc, block, electVars, workerVars, queueVars,
          tableVars, masterVars>>

-----------------------------------------------------------------------------
Headers == [height : Heights, root : Roots, seed : 0..SeedLimit-1]
NoHeader == [height |-> 0, root |-> None, seed |-> 0]
ASSUME NoneAssumption == None \notin Headers

Primes == PrimorialNumber .. PrimeTestSize-1
Dense == PrimorialNumber .. PrimorialNumber+NDense-1
Sparse == PrimorialNumber+NDense .. PrimorialNumber+NDense+NSparse-1
OnceOnly == Primes \ (Dense \cup Sparse)

(* A job of the master, of riecoinPrimeTestWork.  A CHECK job does not     *)
(* carry the header it was made for: the field is a history of the model,  *)
(* read by properties only.                                                *)
ModJobs == [type : {"MOD"}, start : Nat, end : Nat]
SieveJobs == [type : {"SIEVE"}, start : Nat, end : Nat,
              sieveId : 0..NSieveWorkers-1]
CheckJobs == [type : {"CHECK"}, n_indexes : 1..WorkIndexes, header : Headers]
Jobs == ModJobs \cup SieveJobs \cup CheckJobs
NoJob == [type |-> "NONE"]

(* What one marked position of a sieve stands for. *)
Mark(p) == <<p, offsets[p].header, offsets[p].pass>>

WorkerPCs == {"pop", "mod", "sieve", "wdqpush", "check", "submit"}
(* The master between riecoin_process's set-up and its return. *)
RoundPCs == {"pushmod", "waitmod", "looptop", "pushsieve", "dense",
             "waitsieve", "scan", "pushbatch", "scanclear", "scancheck",
             "reset", "flush", "endclear", "drain", "draincheck",
             "drainreset", "aborted"}
PCs == {"getwork", "gotwork", "elect", "electlock", "joined", "prepare"}
          \cup WorkerPCs \cup RoundPCs

Init ==
  /\ FeedInit
  /\ seed = 0
  /\ pc = [t \in MinerThreads |-> "getwork"]
  /\ block = [t \in MinerThreads |-> NoHeader]
  /\ i_am_master = [t \in MinerThreads |-> FALSE]
  /\ there_is_a_master = FALSE
  /\ job = [t \in MinerThreads |-> NoJob]
  /\ idx = [t \in MinerThreads |-> 0]
  /\ vwq = <<>> /\ wdq = 0 /\ tdq = 0
  /\ target = NoHeader /\ verify_block = None
  /\ offsets = [p \in Dense \cup Sparse |-> [header |-> NoHeader, pass |-> 0]]
  /\ hits = {}
  /\ sieves = [s \in 0..NSieveWorkers-1 |-> {}]
  /\ sieve = {}
  /\ loop = 0 /\ base = 0 /\ which_sieve = 0 /\ awaited = 0
  /\ n_indexes = 0 /\ to_scan = 0 /\ outstandingTests = 0

Goto(t, label) == pc' = [pc EXCEPT ![t] = label]

-----------------------------------------------------------------------------
(* The main thread publishes work, or that there is none. *)
MainStep ==
  /\ FeedStep
  /\ UNCHANGED <<seed, pc, block, electVars, workerVars, queueVars, tableVars,
                 masterVars>>

-----------------------------------------------------------------------------
(* Every miner thread: take work, then elect a master. *)

(* A header of its own for thread t, under cs_work. *)
TakeWork(t) ==
  /\ pc[t] = "getwork"
  /\ work.height > 0 /\ work.algorithm = "riecoin"
  /\ seed' = (seed + 1) % SeedLimit
  /\ block' = [block EXCEPT ![t] =
                 [height |-> work.height, root |-> work.root, seed |-> seed']]
  /\ Goto(t, "gotwork")
  /\ UNCHANGED <<mainVars, electVars, workerVars, queueVars, tableVars, masterVars>>

(* The algorithm is read again outside cs_work; another one drops the work. *)
CheckAlgorithm(t) ==
  /\ pc[t] = "gotwork"
  /\ Goto(t, IF work.algorithm = "riecoin" THEN "elect" ELSE "getwork")
  /\ UNCHANGED <<mainVars, seed, block, electVars, workerVars, queueVars,
                 tableVars, masterVars>>

(* The unlocked test of the double-checked election. *)
Elect(t) ==
  /\ pc[t] = "elect"
  /\ Goto(t, IF there_is_a_master THEN "joined" ELSE "electlock")
  /\ UNCHANGED <<mainVars, seed, block, electVars, workerVars, queueVars,
                 tableVars, masterVars>>

(* The second test forgotten. *)
ElectLockedUntested(t) ==
  /\ pc[t] = "electlock"
  /\ there_is_a_master' = TRUE
  /\ i_am_master' = [i_am_master EXCEPT ![t] = TRUE]
  /\ Goto(t, "joined")
  /\ UNCHANGED <<mainVars, seed, block, workerVars, queueVars, tableVars, masterVars>>

(* The second test and the assignments, under master_lock. *)
ElectLocked(t) ==
  /\ pc[t] = "electlock"
  /\ there_is_a_master' = TRUE
  /\ i_am_master' = IF there_is_a_master THEN i_am_master
                    ELSE [i_am_master EXCEPT ![t] = TRUE]
  /\ Goto(t, "joined")
  /\ UNCHANGED <<mainVars, seed, block, workerVars, queueVars, tableVars, masterVars>>

(* A worker never looks at its own block again. *)
Join(t) ==
  /\ pc[t] = "joined"
  /\ IF i_am_master[t]
     THEN Goto(t, "prepare") /\ UNCHANGED block
     ELSE Goto(t, "pop") /\ block' = [block EXCEPT ![t] = NoHeader]
  /\ UNCHANGED <<mainVars, seed, electVars, workerVars, queueVars, tableVars, masterVars>>

-----------------------------------------------------------------------------
(* The master: MOD jobs. *)

(* z_verify_target, verify_block and empty buckets; start of the MOD loop. *)
Prepare(t) ==
  /\ pc[t] = "prepare"
  /\ target' = block[t]
  /\ verify_block' = t
  /\ hits' = {}
  /\ base' = PrimorialNumber
  /\ awaited' = 0
  /\ Goto(t, "pushmod")
  /\ UNCHANGED <<mainVars, seed, block, electVars, workerVars, queueVars,
                 offsets, sieves, sieve, loop, which_sieve, n_indexes, to_scan,
                 outstandingTests>>

Least(a, b) == IF a < b THEN a ELSE b

PushMod(t) ==
  /\ pc[t] = "pushmod"
  /\ Len(vwq) < VwqSize
  /\ vwq' = Append(vwq, [type |-> "MOD", start |-> base,
                         end |-> Least(PrimeTestSize, base + ModIncr)])
  /\ awaited' = awaited + 1
  /\ base' = base + ModIncr
  /\ Goto(t, IF base' < PrimeTestSize THEN "pushmod" ELSE "waitmod")
  /\ UNCHANGED <<mainVars, seed, block, electVars, workerVars, wdq, tdq, tableVars,
                 loop, which_sieve, n_indexes, to_scan, outstandingTests>>

(* workerDoneQueue.pop_front, while a job is awaited. *)
PopDone(t) ==
  /\ pc[t] \in {"waitmod", "waitsieve"}
  /\ awaited > 0 /\ wdq > 0
  /\ wdq' = wdq - 1
  /\ awaited' = awaited - 1
  /\ UNCHANGED <<mainVars, seed, pc, block, electVars, workerVars, vwq, tdq, tableVars,
                 loop, base, which_sieve, n_indexes, to_scan, outstandingTests>>

EndMod(t) ==
  /\ pc[t] = "waitmod"
  /\ awaited = 0
  /\ outstandingTests' = 0
  /\ loop' = 0
  /\ Goto(t, "looptop")
  /\ UNCHANGED <<mainVars, seed, block, electVars, workerVars, queueVars, tableVars,
                 base, which_sieve, awaited, n_indexes, to_scan>>

-----------------------------------------------------------------------------
(* The master: one pass over the sieve. *)

(* All passes done, another height, or 195 seconds gone. *)
LeaveLoop(t) ==
  /\ pc[t] = "looptop"
  /\ Goto(t, "endclear")
  /\ UNCHANGED <<mainVars, seed, block, electVars, workerVars, queueVars, tableVars,
                 masterVars>>

(* The workers' sieves not zeroed. *)
StartPassDirty(t) ==
  /\ pc[t] = "looptop"
  /\ loop < MaxIter
  /\ block[t].height = monitor
  /\ awaited' = 0
  /\ base' = NDense
  /\ which_sieve' = 0
  /\ Goto(t, IF NSparse > 0 THEN "pushsieve" ELSE "dense")
  /\ UNCHANGED <<mainVars, seed, block, electVars, workerVars, queueVars,
                 tableVars, loop, n_indexes, to_scan, outstandingTests>>

StartPass(t) ==
  /\ pc[t] = "looptop"
  /\ loop < MaxIter
  /\ block[t].height = monitor
  /\ sieves' = [s \in 0..NSieveWorkers-1 |-> {}]
  /\ awaited' = 0
  /\ base' = NDense
  /\ which_sieve' = 0
  /\ Goto(t, IF NSparse > 0 THEN "pushsieve" ELSE "dense")
  /\ UNCHANGED <<mainVars, seed, block, electVars, workerVars, queueVars,
                 target, verify_block, offsets, hits, sieve, loop, n_indexes,
                 to_scan, outstandingTests>>

(* The rounding up of n_sparse / N_SIEVE_WORKERS forgotten. *)
SieveIncrRoundedDown == NSparse \div NSieveWorkers
SieveIncr == (NSparse \div NSieveWorkers) + 1
(* The end of the SIEVE job that starts at b. *)
SieveEnd(b) ==
  LET lim == Least(NDense + NSparse, b + SieveIncr)
  IN  IF lim + SieveSlack > NDense + NSparse THEN NDense + NSparse ELSE lim

(* The last job breaks out of the loop before n_workers++. *)
PushSieveUncounted(t) ==
  LET lim == SieveEnd(base)
      last == lim + SieveSlack > NDense + NSparse IN
  /\ pc[t] = "pushsieve"
  /\ Len(vwq) < VwqSize
  /\ vwq' = <<[type |-> "SIEVE", start |-> base, end |-> lim,
               sieveId |-> which_sieve]>> \o vwq
  /\ which_sieve' = (which_sieve + 1) % NSieveWorkers
  /\ awaited' = IF last THEN awaited ELSE awaited + 1
  /\ base' = base + SieveIncr
  /\ Goto(t, IF last THEN "dense" ELSE "pushsieve")
  /\ UNCHANGED <<mainVars, seed, block, electVars, workerVars, wdq, tdq, tableVars,
                 loop, n_indexes, to_scan, outstandingTests>>

PushSieve(t) ==
  LET lim == SieveEnd(base) IN
  /\ pc[t] = "pushsieve"
  /\ Len(vwq) < VwqSize
  /\ vwq' = <<[type |-> "SIEVE", start |-> base, end |-> lim,
               sieveId |-> which_sieve]>> \o vwq
  /\ which_sieve' = (which_sieve + 1) % NSieveWorkers
  /\ awaited' = awaited + 1
  /\ base' = base + SieveIncr
  /\ Goto(t, IF lim + SieveSlack > NDense + NSparse THEN "dense" ELSE "pushsieve")
  /\ UNCHANGED <<mainVars, seed, block, electVars, workerVars, wdq, tdq, tableVars,
                 loop, n_indexes, to_scan, outstandingTests>>

(* Mark and advance the offsets of the primes S, as process_sieve does. *)
Advance(S) == [p \in DOMAIN offsets |->
                 IF p \in S THEN [offsets[p] EXCEPT !.pass = @ + 1] ELSE offsets[p]]

(* testDoneQueue never emptied. *)
ClearDoneNever == UNCHANGED <<outstandingTests, tdq>>

(* outstandingTests -= testDoneQueue.clear() *)
ClearDone == outstandingTests' = outstandingTests - tdq /\ tdq' = 0

SieveDense(t) ==
  /\ pc[t] = "dense"
  /\ sieve' = {Mark(p) : p \in Dense}
  /\ offsets' = Advance(Dense)
  /\ ClearDone
  /\ Goto(t, "waitsieve")
  /\ UNCHANGED <<mainVars, seed, block, electVars, workerVars, vwq, wdq,
                 target, verify_block, hits, sieves, loop, base, which_sieve,
                 awaited, n_indexes, to_scan>>

(* All answers popped: the program exits if workerDoneQueue holds another; *)
(* workers' sieves and buckets are merged, and some candidates are left.   *)
Merge(t) ==
  /\ pc[t] = "waitsieve"
  /\ awaited = 0
  /\ sieve' = sieve \cup (UNION {sieves[s] : s \in 0..NSieveWorkers-1})
                    \cup {<<h[1], h[2], loop>> : h \in hits}
  /\ n_indexes' = 0
  /\ \E n \in 0..MaxCandidates : to_scan' = n
  /\ Goto(t, IF wdq = 0 THEN "scan" ELSE "aborted")
  /\ UNCHANGED <<mainVars, seed, block, electVars, workerVars, queueVars,
                 target, verify_block, offsets, hits, sieves, loop, base,
                 which_sieve, awaited, outstandingTests>>

-----------------------------------------------------------------------------
(* The master: the scan for candidates. *)

ScanNext(t) ==
  /\ pc[t] = "scan"
  /\ to_scan > 0
  /\ to_scan' = to_scan - 1
  /\ n_indexes' = n_indexes + 1
  /\ ClearDone
  /\ Goto(t, IF n_indexes' = WorkIndexes THEN "pushbatch" ELSE "scanclear")
  /\ UNCHANGED <<mainVars, seed, block, electVars, workerVars, vwq, wdq, tableVars,
                 loop, base, which_sieve, awaited>>

(* The batch not emptied after it was pushed. *)
PushTestsKept ==
  /\ Len(vwq) < VwqSize
  /\ vwq' = Append(vwq, [type |-> "CHECK", n_indexes |-> n_indexes, header |-> target])
  /\ n_indexes' = n_indexes
  /\ outstandingTests' = outstandingTests + 1

(* The batch w goes to the back of verifyWorkQueue and is counted. *)
PushTests ==
  /\ Len(vwq) < VwqSize
  /\ vwq' = Append(vwq, [type |-> "CHECK", n_indexes |-> n_indexes, header |-> target])
  /\ n_indexes' = 0
  /\ outstandingTests' = outstandingTests + 1

PushBatch(t) ==
  /\ pc[t] = "pushbatch"
  /\ PushTests
  /\ Goto(t, "scanclear")
  /\ UNCHANGED <<mainVars, seed, block, electVars, workerVars, wdq, tdq, tableVars,
                 loop, base, which_sieve, awaited, to_scan>>

ScanClear(t) ==
  /\ pc[t] = "scanclear"
  /\ ClearDone
  /\ Goto(t, "scancheck")
  /\ UNCHANGED <<mainVars, seed, block, electVars, workerVars, vwq, wdq, tableVars,
                 loop, base, which_sieve, awaited, n_indexes, to_scan>>

(* Height polled after every candidate of the scan and test of the drain. *)
PollHeight(t, same, other) ==
  /\ Goto(t, IF block[t].height = monitor THEN same ELSE other)
  /\ UNCHANGED <<mainVars, seed, block, electVars, workerVars, queueVars, tableVars,
                 masterVars>>

ScanCheck(t) == pc[t] = "scancheck" /\ PollHeight(t, "scan", "reset")

(* The result of clear() not subtracted; everything taken for dropped. *)
ClearTestsUncounted == outstandingTests' = outstandingTests /\ vwq' = <<>>
ClearTestsAll == outstandingTests' = 0 /\ vwq' = <<>>

(* outstandingTests -= verifyWorkQueue.clear() *)
ClearTests == outstandingTests' = outstandingTests - Len(vwq) /\ vwq' = <<>>

Reset(t) ==
  /\ pc[t] = "reset"
  /\ ClearTests
  /\ to_scan' = 0
  /\ Goto(t, "flush")
  /\ UNCHANGED <<mainVars, seed, block, electVars, workerVars, wdq, tdq, tableVars,
                 loop, base, which_sieve, awaited, n_indexes>>

ScanEnd(t) ==
  /\ pc[t] = "scan"
  /\ to_scan = 0
  /\ Goto(t, "flush")
  /\ UNCHANGED <<mainVars, seed, block, electVars, workerVars, queueVars, tableVars,
                 masterVars>>

(* What is left of the batch is pushed, after a reset too. *)
Flush(t) ==
  /\ pc[t] = "flush"
  /\ IF n_indexes > 0 THEN PushTests ELSE UNCHANGED <<vwq, n_indexes, outstandingTests>>
  /\ loop' = loop + 1
  /\ Goto(t, "looptop")
  /\ UNCHANGED <<mainVars, seed, block, electVars, workerVars, wdq, tdq, tableVars,
                 base, which_sieve, awaited, to_scan>>

-----------------------------------------------------------------------------
(* The master: waiting for the tests before it returns. *)

EndClear(t) ==
  /\ pc[t] = "endclear"
  /\ ClearDone
  /\ Goto(t, "drain")
  /\ UNCHANGED <<mainVars, seed, block, electVars, workerVars, vwq, wdq, tableVars,
                 loop, base, which_sieve, awaited, n_indexes, to_scan>>

DrainPop(t) ==
  /\ pc[t] = "drain"
  /\ outstandingTests > 0 /\ tdq > 0
  /\ tdq' = tdq - 1
  /\ outstandingTests' = outstandingTests - 1
  /\ Goto(t, "draincheck")
  /\ UNCHANGED <<mainVars, seed, block, electVars, workerVars, vwq, wdq, tableVars,
                 loop, base, which_sieve, awaited, n_indexes, to_scan>>

(* The queue cleared without a look at the height. *)
DrainCheckBlind(t) == pc[t] = "draincheck" /\ PollHeight(t, "drainreset", "drainreset")

DrainCheck(t) == pc[t] = "draincheck" /\ PollHeight(t, "drain", "drainreset")

DrainReset(t) ==
  /\ pc[t] = "drainreset"
  /\ ClearTests
  /\ Goto(t, "drain")
  /\ UNCHANGED <<mainVars, seed, block, electVars, workerVars, wdq, tdq, tableVars,
                 loop, base, which_sieve, awaited, n_indexes, to_scan>>

(* One answer too few waited for. *)
FinishEarly(t) ==
  /\ pc[t] = "drain"
  /\ outstandingTests <= 1
  /\ Goto(t, "getwork")
  /\ UNCHANGED <<mainVars, seed, block, electVars, workerVars, queueVars, tableVars,
                 masterVars>>

Finish(t) ==
  /\ pc[t] = "drain"
  /\ outstandingTests = 0
  /\ Goto(t, "getwork")
  /\ UNCHANGED <<mainVars, seed, block, electVars, workerVars, queueVars, tableVars,
                 masterVars>>

-----------------------------------------------------------------------------
(* verify_thread. *)

WorkPC(type) == CASE type = "MOD" -> "mod" [] type = "SIEVE" -> "sieve"
                  [] type = "CHECK" -> "check"

Pop(t) ==
  /\ pc[t] = "pop"
  /\ vwq # <<>>
  /\ job' = [job EXCEPT ![t] = Head(vwq)]
  /\ vwq' = Tail(vwq)
  /\ idx' = [idx EXCEPT ![t] = 0]
  /\ Goto(t, WorkPC(Head(vwq).type))
  /\ UNCHANGED <<mainVars, seed, block, electVars, wdq, tdq, tableVars, masterVars>>

(* update_remainders: offsets of this header, or buckets under bucket_lock. *)
UpdateRemainders(t) ==
  LET S == job[t].start .. job[t].end-1 IN
  /\ pc[t] = "mod"
  /\ offsets' = [p \in DOMAIN offsets |->
                   IF p \in S THEN [header |-> target, pass |-> 0] ELSE offsets[p]]
  /\ hits' = hits \cup {<<p, target>> : p \in S \cap OnceOnly}
  /\ Goto(t, "wdqpush")
  /\ UNCHANGED <<mainVars, seed, block, electVars, workerVars, queueVars,
                 target, verify_block, sieves, sieve, masterVars>>

ProcessSieve(t) ==
  LET S == PrimorialNumber + job[t].start .. PrimorialNumber + job[t].end - 1 IN
  /\ pc[t] = "sieve"
  /\ sieves' = [sieves EXCEPT ![job[t].sieveId] = @ \cup {Mark(p) : p \in S}]
  /\ offsets' = Advance(S)
  /\ Goto(t, "wdqpush")
  /\ UNCHANGED <<mainVars, seed, block, electVars, workerVars, queueVars,
                 target, verify_block, hits, sieve, masterVars>>

(* The worker's job is done: the next pop overwrites it. *)
JobDone(t) ==
  /\ job' = [job EXCEPT ![t] = NoJob]
  /\ Goto(t, "pop")
  /\ UNCHANGED <<mainVars, seed, block, electVars, vwq, tableVars, masterVars>>

PushWorkerDone(t) ==
  /\ pc[t] = "wdqpush"
  /\ wdq < WdqSize
  /\ wdq' = wdq + 1
  /\ JobDone(t)
  /\ UNCHANGED <<idx, tdq>>

(* A candidate with four primes is submitted, any other is passed over. *)
TestIndex(t) ==
  /\ pc[t] = "check"
  /\ idx[t] < job[t].n_indexes
  /\ \/ Goto(t, "submit") /\ UNCHANGED idx
     \/ UNCHANGED pc /\ idx' = [idx EXCEPT ![t] = @ + 1]
  /\ UNCHANGED <<mainVars, seed, block, electVars, job, queueVars, tableVars, masterVars>>

(* xptMiner_submitShare(verify_block, nOffset) *)
SubmitShare(t) ==
  /\ pc[t] = "submit"
  /\ idx' = [idx EXCEPT ![t] = @ + 1]
  /\ Goto(t, "check")
  /\ UNCHANGED <<mainVars, seed, block, electVars, job, queueVars, tableVars, masterVars>>

PushTestDone(t) ==
  /\ pc[t] = "check"
  /\ idx[t] = job[t].n_indexes
  /\ tdq < TdqSize
  /\ tdq' = tdq + 1
  /\ idx' = [idx EXCEPT ![t] = 0]
  /\ JobDone(t)
  /\ UNCHANGED wdq

-----------------------------------------------------------------------------
StartStep(t) == TakeWork(t) \/ CheckAlgorithm(t) \/ Elect(t) \/ ElectLocked(t) \/ Join(t)

MasterStep(t) ==
  \/ Prepare(t) \/ PushMod(t) \/ PopDone(t) \/ EndMod(t)
  \/ LeaveLoop(t) \/ StartPass(t) \/ PushSieve(t) \/ SieveDense(t)
  \/ Merge(t)
  \/ ScanNext(t) \/ PushBatch(t) \/ ScanClear(t) \/ ScanCheck(t) \/ Reset(t)
  \/ ScanEnd(t) \/ Flush(t)
  \/ EndClear(t) \/ DrainPop(t) \/ DrainCheck(t) \/ DrainReset(t) \/ Finish(t)

WorkerStep(t) ==
  \/ Pop(t) \/ UpdateRemainders(t) \/ ProcessSieve(t) \/ PushWorkerDone(t)
  \/ TestIndex(t) \/ SubmitShare(t) \/ PushTestDone(t)

ThreadStep(t) == StartStep(t) \/ MasterStep(t) \/ WorkerStep(t)

Next == MainStep \/ \E t \in MinerThreads : ThreadStep(t)

Spec == Init /\ [][Next]_vars

(* The scheduler runs every miner thread that can run.  Nothing makes the  *)
(* server send work or keeps the connection up.                            *)
FairSpec == Spec /\ \A t \in MinerThreads : WF_vars(ThreadStep(t))

-----------------------------------------------------------------------------
Marks == Primes \X (Headers \cup {NoHeader}) \X Nat

TypeOK ==
  /\ work \in Works
  /\ mainpc \in {"idle", "publish"}
  /\ monitor \in Heights \cup {0}
  /\ seed \in 0..SeedLimit-1
  /\ pc \in [MinerThreads -> PCs]
  /\ block \in [MinerThreads -> Headers \cup {NoHeader}]
  /\ i_am_master \in [MinerThreads -> BOOLEAN]
  /\ there_is_a_master \in BOOLEAN
  /\ job \in [MinerThreads -> Jobs \cup {NoJob}]
  /\ idx \in [MinerThreads -> 0..WorkIndexes]
  /\ vwq \in Seq(Jobs) /\ Len(vwq) <= VwqSize
  /\ wdq \in 0..WdqSize /\ tdq \in 0..TdqSize
  /\ target \in Headers \cup {NoHeader}
  /\ verify_block \in MinerThreads \cup {None}
  /\ offsets \in [Dense \cup Sparse ->
                    [header : Headers \cup {NoHeader}, pass : Nat]]
  /\ hits \subseteq OnceOnly \X Headers
  /\ sieves \in [0..NSieveWorkers-1 -> SUBSET Marks]
  /\ sieve \subseteq Marks
  /\ loop \in Nat /\ base \in Nat /\ which_sieve \in 0..NSieveWorkers-1
  /\ awaited \in Int /\ n_indexes \in 0..WorkIndexes
  /\ to_scan \in 0..MaxCandidates /\ outstandingTests \in Int

(***************************************************************************)
(* The double-checked election of lines 516-524 makes one thread master:   *)
(* it alone is ever in the master's code, and a thread that has become a   *)
(* worker knows that a master exists.                                      *)
(***************************************************************************)
OneMaster ==
  /\ \A t, u \in MinerThreads : i_am_master[t] /\ i_am_master[u] => t = u
  /\ \A t \in MinerThreads :
       /\ pc[t] \in RoundPCs \cup {"prepare"} => i_am_master[t]
       /\ pc[t] \in WorkerPCs => there_is_a_master /\ ~i_am_master[t]

(* Jobs of the kinds T: places in verifyWorkQueue, workers that hold one.  *)
Queued(T) == {i \in DOMAIN vwq : vwq[i].type \in T}
Holding(T) == {t \in MinerThreads : job[t].type \in T}
InFlight(T) == Cardinality(Queued(T)) + Cardinality(Holding(T))

(***************************************************************************)
(* outstandingTests is exact at every step: the CHECK jobs in the queue,   *)
(* those a worker is testing, and the answers in testDoneQueue.  So no     *)
(* subtraction of lines 750-859 wraps the uint32, and the drain neither    *)
(* returns early nor waits for an answer that will never come, although    *)
(* verifyWorkQueue is cleared under the workers' feet.                     *)
(***************************************************************************)
TestsAccounted == outstandingTests = InFlight({"CHECK"}) + tdq

(***************************************************************************)
(* The master waits for exactly the MOD and SIEVE jobs that still owe it   *)
(* an answer: clearing verifyWorkQueue never drops one of them, and a      *)
(* CHECK job never answers in workerDoneQueue (lines 635-655, 705-758).    *)
(***************************************************************************)
JobsAccounted == awaited = InFlight({"MOD", "SIEVE"}) + wdq

(***************************************************************************)
(* Between two pieces of work nothing is in flight: when the master takes  *)
(* its next header and overwrites its block, z_verify_target, the buckets  *)
(* and the offsets, no queue holds a job and no worker is using them.      *)
(***************************************************************************)
RestBetweenRounds ==
  (\A t \in MinerThreads : pc[t] \notin RoundPCs) =>
     /\ vwq = <<>> /\ wdq = 0 /\ tdq = 0
     /\ \A t \in MinerThreads : job[t] = NoJob

(***************************************************************************)
(* A candidate is tested, and a share is submitted, for the header it was  *)
(* sieved for: CHECK jobs carry no header, they read z_verify_target and   *)
(* *verify_block when they run (lines 420-427, 501), and the master        *)
(* rewrites both for each piece of work.                                   *)
(***************************************************************************)
InUse == {vwq[i] : i \in DOMAIN vwq} \cup {job[t] : t \in MinerThreads}
TestsMatchHeader ==
  \A j \in InUse : j.type = "CHECK" =>
     /\ j.header = target
     /\ verify_block # None /\ block[verify_block] = target

(***************************************************************************)
(* No two jobs that may run at once write the same memory: MOD jobs have   *)
(* disjoint ranges of the table, SIEVE jobs have disjoint ranges and       *)
(* different sieves (the bytes of a sieve are updated without a lock), and *)
(* SIEVE jobs stay off the dense primes the master sieves meanwhile.       *)
(***************************************************************************)
Clash(j, k) ==
  /\ j.type = k.type /\ j.type \in {"MOD", "SIEVE"}
  /\ \/ j.start < k.end /\ k.start < j.end
     \/ j.type = "SIEVE" /\ j.sieveId = k.sieveId

NoSharedWrites ==
  /\ \A i, k \in DOMAIN vwq : i # k => ~Clash(vwq[i], vwq[k])
  /\ \A t, u \in MinerThreads : t # u => ~Clash(job[t], job[u])
  /\ \A i \in DOMAIN vwq, t \in MinerThreads : ~Clash(vwq[i], job[t])
  /\ \A j \in InUse : /\ j.type = "SIEVE" => j.start >= NDense
                      /\ j.type = "MOD" => j.start >= PrimorialNumber

(***************************************************************************)
(* The sieve the master scans is complete and current: every prime of the  *)
(* table is marked in it, for the header being mined and at this pass, and *)
(* nothing of an earlier header or pass is left in it, although the marks  *)
(* were made by different threads in private sieves and buckets.           *)
(***************************************************************************)
SieveComplete ==
  \A t \in MinerThreads :
     pc[t] \in {"scan", "pushbatch", "scanclear", "scancheck", "reset", "flush"} =>
        sieve = {<<p, block[t], loop>> : p \in Primes}

(***************************************************************************)
(* A worker with an answer always finds room for it.  The master clears    *)
(* testDoneQueue while it pushes tests and waits for sieves; if it did not *)
(* do so often enough the workers would fill that queue, stop, and leave   *)
(* the master waiting for SIEVE jobs none of them takes.                   *)
(***************************************************************************)
AnswersNeverBlock ==
  \A t \in MinerThreads :
     /\ pc[t] = "wdqpush" => wdq < WdqSize
     /\ pc[t] = "check" => tdq < TdqSize

(***************************************************************************)
(* Every piece of work comes to an end, and the master asks for the next,  *)
(* once one worker has joined it; whatever the server and the connection   *)
(* do meanwhile, and however often the height changes.                     *)
(***************************************************************************)
HasWorker == \E t \in MinerThreads : pc[t] \in WorkerPCs
RoundEnds ==
  \A t \in MinerThreads : (pc[t] \in RoundPCs /\ HasWorker) ~> (pc[t] = "getwork")

(***************************************************************************)
(* "used to notify worker threads of new block data" (main.cpp:16): when   *)
(* the work has been replaced and its height published, a master that is   *)
(* still on other data sees a different height the next time it polls.     *)
(***************************************************************************)
NewDataNotified ==
  \A t \in MinerThreads :
     (mainpc = "idle" /\ pc[t] \in RoundPCs /\ work.height > 0
        /\ [height |-> work.height, root |-> work.root]
             # [height |-> block[t].height, root |-> block[t].root])
     => monitor # block[t].height

-----------------------------------------------------------------------------
(***************************************************************************)
(* The master and its workers implement MiningRound: one header at a time, *)
(* no batch of candidates lost or answered twice, none dropped unless the  *)
(* height was seen to differ, and the return of riecoin_process only when  *)
(* every batch is accounted for.                                           *)
(***************************************************************************)
InRound == {t \in MinerThreads : pc[t] \in RoundPCs}
MinedHeader == IF InRound = {} THEN None ELSE block[CHOOSE t \in InRound : TRUE]
Noticed == \E t \in MinerThreads : pc[t] \in {"reset", "drainreset"}

Round == INSTANCE MiningRound WITH Idle <- None, header <- MinedHeader,
           pending <- InFlight({"CHECK"}), height <- monitor, noticed <- Noticed

ImplementsRound == Round!Spec
=============================================================================
