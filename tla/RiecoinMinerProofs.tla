------------------------- MODULE RiecoinMinerProofs -------------------------
(***************************************************************************)
(* Proofs about RiecoinMiner, for any number of miner threads, any table   *)
(* of primes and any capacities that the assumptions permit: its types,    *)
(* the election of one master, the counts the master keeps of its jobs and *)
(* tests, that every test runs for the header it was made for, and the     *)
(* refinement of MiningRound.                                              *)
(***************************************************************************)
EXTENDS RiecoinMiner, FiniteSetTheorems, FunctionTheorems, SequenceTheorems, TLAPS

-----------------------------------------------------------------------------
(* Where thread t is tells what it has: its role, a header of its own, a   *)
(* job of the right kind, a place within its job or its batch.             *)
Role(t) ==
  /\ i_am_master[t] => there_is_a_master
  /\ pc[t] \in RoundPCs \cup {"prepare"} => i_am_master[t]
  /\ pc[t] = "joined" => there_is_a_master
  /\ pc[t] \in WorkerPCs => there_is_a_master /\ ~i_am_master[t]

OwnHeader(t) == pc[t] \notin WorkerPCs \cup {"getwork"} => block[t] \in Headers

OwnJob(t) ==
  /\ pc[t] \in {"mod", "sieve", "check", "submit", "wdqpush"} \/ job[t] = NoJob
  /\ pc[t] = "mod" => job[t] \in ModJobs
  /\ pc[t] = "sieve" => job[t] \in SieveJobs
  /\ pc[t] \in {"check", "submit"} =>
       job[t] \in CheckJobs /\ idx[t] <= job[t].n_indexes
  /\ pc[t] = "submit" => idx[t] < job[t].n_indexes
  /\ pc[t] = "wdqpush" => job[t] \in ModJobs \cup SieveJobs

BatchSize(t) ==
  /\ pc[t] \in {"scan", "scanclear", "scancheck", "reset", "flush"} =>
       n_indexes < WorkIndexes
  /\ pc[t] = "pushbatch" => n_indexes = WorkIndexes

(* A job was made for some header, and SIEVE jobs end with the sparse primes. *)
Sound(j) ==
  /\ target \in Headers
  /\ j.type = "SIEVE" => j.end <= NDense + NSparse

Place(t) ==
  /\ Role(t) /\ OwnHeader(t) /\ OwnJob(t) /\ BatchSize(t)
  /\ pc[t] \in RoundPCs => target = block[t] /\ verify_block = t
  /\ job[t] # NoJob => Sound(job[t])

Control ==
  /\ \A t, u \in MinerThreads : i_am_master[t] /\ i_am_master[u] => t = u
  /\ \A t \in MinerThreads : Place(t)
  /\ \A i \in DOMAIN vwq : Sound(vwq[i])
  /\ work.height # 0 => work.root \in Roots

Safe == TypeOK /\ Control

-----------------------------------------------------------------------------
LEMMA ModRange ==
  ASSUME NEW a \in Nat, NEW n \in Nat \ {0}
  PROVE  a % n \in 0..n-1
OBVIOUS

LEMMA Division ==
  ASSUME NEW a \in Nat, NEW n \in Nat \ {0}
  PROVE  a \div n \in Nat
OBVIOUS

LEMMA PlaceInBatch == 0..WorkIndexes \subseteq Nat /\ 1..WorkIndexes \subseteq Nat
BY BoundAssumption

(* A queue of jobs stays one when a job is added at an end or taken off. *)
LEMMA QueueOps ==
  ASSUME NEW s \in Seq(Jobs), NEW j \in Jobs
  PROVE  /\ Append(s, j) \in Seq(Jobs) /\ Len(Append(s, j)) = Len(s) + 1
         /\ <<j>> \o s \in Seq(Jobs) /\ Len(<<j>> \o s) = Len(s) + 1
         /\ s # <<>> => /\ Head(s) \in Jobs /\ Tail(s) \in Seq(Jobs)
                        /\ Len(Tail(s)) = Len(s) - 1
<1>1. Append(s, j) \in Seq(Jobs) /\ Len(Append(s, j)) = Len(s) + 1
  BY AppendProperties
<1>2. <<j>> \in Seq(Jobs) /\ Len(<<j>>) = 1
  OBVIOUS
<1>3. <<j>> \o s \in Seq(Jobs) /\ Len(<<j>> \o s) = Len(s) + 1
  BY <1>2, ConcatProperties
<1>4. s # <<>> => /\ Head(s) \in Jobs /\ Tail(s) \in Seq(Jobs)
                  /\ Len(Tail(s)) = Len(s) - 1
  BY HeadTailProperties
<1> QED
  BY <1>1, <1>3, <1>4

LEMMA NoJobs == <<>> \in Seq(Jobs) /\ Len(<<>>) = 0 /\ DOMAIN <<>> = {}
OBVIOUS

LEMMA NotAHeader == NoHeader \notin Headers
BY BoundAssumption DEF NoHeader, Headers

LEMMA TableParts ==
  /\ Dense \subseteq Primes /\ Sparse \subseteq Primes /\ OnceOnly \subseteq Primes
  /\ \A n, m \in Nat : n >= 0 /\ m <= NDense + NSparse =>
       PrimorialNumber + n .. PrimorialNumber + m - 1 \subseteq Dense \cup Sparse
BY TableAssumption DEF Dense, Sparse, OnceOnly, Primes

LEMMA SieveIncrNat == SieveIncr \in Nat
BY TableAssumption, Division DEF SieveIncr

LEMMA SieveEndBound ==
  ASSUME NEW b \in Nat
  PROVE  SieveEnd(b) \in Nat /\ SieveEnd(b) <= NDense + NSparse
BY TableAssumption, SieveIncrNat DEF SieveEnd, Least

LEMMA AdvanceType ==
  ASSUME NEW S,
         offsets \in [Dense \cup Sparse -> [header : Headers \cup {NoHeader}, pass : Nat]]
  PROVE  Advance(S) \in [Dense \cup Sparse -> [header : Headers \cup {NoHeader}, pass : Nat]]
<1>1. \A p \in Dense \cup Sparse :
        /\ offsets[p] \in [header : Headers \cup {NoHeader}, pass : Nat]
        /\ [offsets[p] EXCEPT !.pass = @ + 1] \in [header : Headers \cup {NoHeader}, pass : Nat]
  OBVIOUS
<1> QED
  BY <1>1 DEF Advance

LEMMA TypeInit == Init => TypeOK
<1> SUFFICES ASSUME Init PROVE TypeOK
  OBVIOUS
<1>1. /\ pc \in [MinerThreads -> PCs] /\ i_am_master \in [MinerThreads -> BOOLEAN]
      /\ block \in [MinerThreads -> Headers \cup {NoHeader}]
      /\ job \in [MinerThreads -> Jobs \cup {NoJob}]
      /\ idx \in [MinerThreads -> 0..WorkIndexes]
  BY BoundAssumption DEF Init, PCs
<1>2. vwq \in Seq(Jobs) /\ Len(vwq) <= VwqSize /\ wdq \in 0..WdqSize /\ tdq \in 0..TdqSize
  BY QueueAssumption, NoJobs DEF Init
<1>3. offsets \in [Dense \cup Sparse -> [header : Headers \cup {NoHeader}, pass : Nat]]
  BY DEF Init
<1>4. /\ sieves \in [0..NSieveWorkers-1 -> SUBSET Marks]
      /\ which_sieve \in 0..NSieveWorkers-1
  BY TableAssumption DEF Init
<1>5. /\ n_indexes \in 0..WorkIndexes /\ to_scan \in 0..MaxCandidates
      /\ seed \in 0..SeedLimit-1
  BY BoundAssumption DEF Init
<1>6. /\ target \in Headers \cup {NoHeader}
      /\ hits \subseteq OnceOnly \X Headers /\ sieve \subseteq Marks
  BY DEF Init
<1>7. /\ work \in Works
      /\ mainpc \in {"idle", "publish"} /\ monitor \in Heights \cup {0}
      /\ there_is_a_master \in BOOLEAN
      /\ verify_block \in MinerThreads \cup {None}
  BY DEF Init, FeedInit, Works, Algorithms
<1>8. /\ loop \in Nat /\ base \in Nat /\ awaited \in Int /\ outstandingTests \in Int
  BY DEF Init
<1> QED
  BY <1>1, <1>2, <1>3, <1>4, <1>5, <1>6, <1>7, <1>8 DEF TypeOK

LEMMA TypeMain ==
  ASSUME TypeOK, MainStep
  PROVE  TypeOK'
<1>1. /\ UNCHANGED <<seed, pc, block, electVars, workerVars, queueVars, tableVars,
                     masterVars>>
      /\ FeedStep
  BY DEF MainStep
<1>2. work' \in Works /\ mainpc' \in {"idle", "publish"} /\ monitor' \in Heights \cup {0}
  <2>1. CASE GetWorkFromConnection
    BY <2>1 DEF GetWorkFromConnection, TypeOK
  <2>2. CASE PublishHeight
    BY <2>2 DEF PublishHeight, TypeOK, Works
  <2>3. CASE LoseConnection
    BY <2>3 DEF LoseConnection, TypeOK, Works, Algorithms
  <2> QED
    BY <1>1, <2>1, <2>2, <2>3 DEF FeedStep
<1> QED
  BY <1>1, <1>2 DEF TypeOK, electVars, workerVars, queueVars, tableVars, masterVars

LEMMA TypeStart ==
  ASSUME Safe, NEW t \in MinerThreads, StartStep(t)
  PROVE  TypeOK'
<1> USE DEF Safe, TypeOK, Goto, PCs, mainVars, electVars, workerVars, queueVars,
            tableVars, masterVars
<1>1. CASE TakeWork(t)
  <2>1. seed' \in 0..SeedLimit-1
    BY <1>1, BoundAssumption, ModRange DEF TakeWork
  <2>2. block'[t] \in Headers
    <3>1. work.height \in Heights /\ work.root \in Roots
      BY <1>1, BoundAssumption DEF TakeWork, Control, Works
    <3>2. block'[t] = [height |-> work.height, root |-> work.root, seed |-> seed']
      BY <1>1 DEF TakeWork
    <3> QED
      BY <2>1, <3>1, <3>2 DEF Headers
  <2>3. block' \in [MinerThreads -> Headers \cup {NoHeader}]
    BY <1>1, <2>2 DEF TakeWork
  <2> QED
    BY <1>1, <2>1, <2>3 DEF TakeWork
<1>2. CASE CheckAlgorithm(t)
  BY <1>2 DEF CheckAlgorithm
<1>3. CASE Elect(t)
  BY <1>3 DEF Elect
<1>4. CASE ElectLocked(t)
  BY <1>4 DEF ElectLocked
<1>5. CASE Join(t)
  BY <1>5 DEF Join, WorkerPCs
<1> QED
  BY <1>1, <1>2, <1>3, <1>4, <1>5 DEF StartStep

LEMMA TypeMaster ==
  ASSUME Safe, NEW t \in MinerThreads, MasterStep(t)
  PROVE  TypeOK'
<1> USE DEF Safe, TypeOK, Goto, PCs, RoundPCs, mainVars, electVars, workerVars, queueVars,
            tableVars, masterVars
<1>1. CASE Prepare(t)
  BY <1>1, TableAssumption DEF Prepare
<1>2. CASE PushMod(t)
  <2>1. ModIncr \in Nat
    BY TableAssumption, Division DEF ModIncr
  <2>2. [type |-> "MOD", start |-> base, end |-> Least(PrimeTestSize, base + ModIncr)] \in Jobs
    BY <2>1, TableAssumption DEF Least, Jobs, ModJobs
  <2>3. vwq' \in Seq(Jobs) /\ Len(vwq') <= VwqSize
    BY <1>2, <2>2, QueueOps, QueueAssumption DEF PushMod
  <2>4. pc' \in [MinerThreads -> PCs]
    BY <1>2 DEF PushMod
  <2>5. base' \in Nat /\ awaited' \in Int
    BY <1>2, <2>1 DEF PushMod
  <2>6. UNCHANGED <<mainVars, seed, block, electVars, workerVars, wdq, tdq, tableVars,
                    loop, which_sieve, n_indexes, to_scan, outstandingTests>>
    BY <1>2 DEF PushMod
  <2> QED
    BY <2>3, <2>4, <2>5, <2>6
<1>3. CASE PopDone(t)
  BY <1>3, QueueAssumption DEF PopDone
<1>4. CASE EndMod(t)
  BY <1>4 DEF EndMod
<1>5. CASE LeaveLoop(t)
  BY <1>5 DEF LeaveLoop
<1>6. CASE StartPass(t)
  BY <1>6, TableAssumption DEF StartPass
<1>7. CASE PushSieve(t)
  <2>1. SieveIncr \in Nat /\ SieveEnd(base) \in Nat
    BY SieveIncrNat, SieveEndBound
  <2>2. [type |-> "SIEVE", start |-> base, end |-> SieveEnd(base),
         sieveId |-> which_sieve] \in Jobs
    BY <2>1 DEF Jobs, SieveJobs
  <2>3. vwq' \in Seq(Jobs) /\ Len(vwq') <= VwqSize
    BY <1>7, <2>2, QueueOps, QueueAssumption DEF PushSieve
  <2>4. which_sieve' \in 0..NSieveWorkers-1
    BY <1>7, ModRange, TableAssumption DEF PushSieve
  <2>5. pc' \in [MinerThreads -> PCs]
    BY <1>7 DEF PushSieve
  <2>6. base' \in Nat /\ awaited' \in Int
    BY <1>7, <2>1 DEF PushSieve
  <2> QED
    BY <1>7, <2>3, <2>4, <2>5, <2>6 DEF PushSieve
<1>8. CASE SieveDense(t)
  <2>1. sieve' \subseteq Marks
    BY <1>8, TableParts DEF SieveDense, Mark, Marks
  <2>2. offsets' \in [Dense \cup Sparse -> [header : Headers \cup {NoHeader}, pass : Nat]]
    BY <1>8, AdvanceType DEF SieveDense
  <2> QED
    BY <1>8, <2>1, <2>2, QueueAssumption DEF SieveDense, ClearDone
<1>9. CASE Merge(t)
  <2>1. \A h \in hits : <<h[1], h[2], loop>> \in Marks
    BY TableParts DEF Marks
  <2>2. sieve' \subseteq Marks
    <3>1. (UNION {sieves[s] : s \in 0..NSieveWorkers-1}) \subseteq Marks
      OBVIOUS
    <3>2. {<<h[1], h[2], loop>> : h \in hits} \subseteq Marks
      BY <2>1
    <3> QED
      BY <1>9, <3>1, <3>2 DEF Merge
  <2> QED
    BY <1>9, <2>2, BoundAssumption DEF Merge
<1>10. CASE ScanNext(t)
  <2>1. n_indexes' \in 0..WorkIndexes /\ to_scan' \in 0..MaxCandidates
    BY <1>10, BoundAssumption DEF ScanNext, Control, Place, BatchSize
  <2> QED
    BY <1>10, <2>1, QueueAssumption DEF ScanNext, ClearDone
<1>a. ASSUME PushTests, n_indexes > 0, pc[t] \in RoundPCs
      PROVE  /\ vwq' \in Seq(Jobs) /\ Len(vwq') <= VwqSize
             /\ n_indexes' \in 0..WorkIndexes /\ outstandingTests' \in Int
  <2>1. target \in Headers
    BY <1>a DEF Control, Place, OwnHeader, WorkerPCs
  <2>2. [type |-> "CHECK", n_indexes |-> n_indexes, header |-> target] \in Jobs
    BY <1>a, <2>1, BoundAssumption DEF Jobs, CheckJobs
  <2> QED
    BY <1>a, <2>2, QueueOps, QueueAssumption, BoundAssumption DEF PushTests
<1>11. CASE PushBatch(t)
  <2>1. n_indexes > 0
    BY <1>11, BoundAssumption DEF PushBatch, Control, Place, BatchSize
  <2> QED
    BY <1>11, <1>a, <2>1 DEF PushBatch
<1>12. CASE ScanClear(t)
  BY <1>12, QueueAssumption DEF ScanClear, ClearDone
<1>13. CASE ScanCheck(t)
  BY <1>13 DEF ScanCheck, PollHeight
<1>b. ASSUME ClearTests
      PROVE  vwq' \in Seq(Jobs) /\ Len(vwq') <= VwqSize /\ outstandingTests' \in Int
  BY <1>b, NoJobs, QueueAssumption DEF ClearTests
<1>14. CASE Reset(t)
  BY <1>14, <1>b, BoundAssumption DEF Reset
<1>15. CASE ScanEnd(t)
  BY <1>15 DEF ScanEnd
<1>16. CASE Flush(t)
  <2>1. /\ vwq' \in Seq(Jobs) /\ Len(vwq') <= VwqSize
        /\ n_indexes' \in 0..WorkIndexes /\ outstandingTests' \in Int
    BY <1>16, <1>a DEF Flush
  <2> QED
    BY <1>16, <2>1 DEF Flush
<1>17. CASE EndClear(t)
  BY <1>17, QueueAssumption DEF EndClear, ClearDone
<1>18. CASE DrainPop(t)
  BY <1>18, QueueAssumption DEF DrainPop
<1>19. CASE DrainCheck(t)
  BY <1>19 DEF DrainCheck, PollHeight
<1>20. CASE DrainReset(t)
  BY <1>20, <1>b DEF DrainReset
<1>21. CASE Finish(t)
  BY <1>21 DEF Finish
<1> QED
  BY <1>1, <1>2, <1>3, <1>4, <1>5, <1>6, <1>7, <1>8, <1>9, <1>10, <1>11, <1>12,
     <1>13, <1>14, <1>15, <1>16, <1>17, <1>18, <1>19, <1>20, <1>21 DEF MasterStep

LEMMA TypeWorker ==
  ASSUME Safe, NEW t \in MinerThreads, WorkerStep(t)
  PROVE  TypeOK'
<1> USE DEF Safe, TypeOK, Goto, PCs, WorkerPCs, mainVars, electVars, workerVars, queueVars,
            tableVars, masterVars
<1>1. CASE Pop(t)
  <2>1. Head(vwq) \in Jobs /\ vwq' \in Seq(Jobs) /\ Len(vwq') <= VwqSize
    BY <1>1, QueueOps, HeadTailProperties, QueueAssumption DEF Pop
  <2>2. WorkPC(Head(vwq).type) \in WorkerPCs
    BY <2>1 DEF WorkPC, Jobs, ModJobs, SieveJobs, CheckJobs
  <2>3. pc' \in [MinerThreads -> PCs]
    BY <1>1, <2>2 DEF Pop
  <2>4. idx' \in [MinerThreads -> 0..WorkIndexes]
    BY <1>1, BoundAssumption DEF Pop
  <2>5. job' \in [MinerThreads -> Jobs \cup {NoJob}]
    BY <1>1, <2>1 DEF Pop
  <2> QED
    BY <1>1, <2>1, <2>3, <2>4, <2>5 DEF Pop
<1>2. CASE UpdateRemainders(t)
  <2>1. target \in Headers
    BY <1>2 DEF UpdateRemainders, Control, Place, OwnJob, Sound, ModJobs, NoJob
  <2>2. hits' \subseteq OnceOnly \X Headers
    BY <1>2, <2>1 DEF UpdateRemainders
  <2>3. offsets' \in [Dense \cup Sparse -> [header : Headers \cup {NoHeader}, pass : Nat]]
    BY <1>2 DEF UpdateRemainders
  <2> QED
    BY <1>2, <2>2, <2>3 DEF UpdateRemainders
<1>3. CASE ProcessSieve(t)
  <2>1. job[t] \in SieveJobs /\ job[t].end <= NDense + NSparse
    <3>1. job[t] \in SieveJobs
      BY <1>3 DEF ProcessSieve, Control, Place, OwnJob
    <3>2. job[t] # NoJob /\ job[t].type = "SIEVE"
      BY <3>1 DEF SieveJobs, NoJob
    <3> QED
      BY <3>1, <3>2 DEF Control, Place, Sound
  <2> DEFINE S == PrimorialNumber + job[t].start .. PrimorialNumber + job[t].end - 1
  <2>2. S \subseteq Dense \cup Sparse
    BY <2>1, TableParts DEF SieveJobs
  <2>3. \A p \in S : Mark(p) \in Marks
    BY <2>2, TableParts DEF Mark, Marks
  <2>4. sieves' \in [0..NSieveWorkers-1 -> SUBSET Marks]
    <3>1. {Mark(p) : p \in S} \subseteq Marks
      BY <2>3
    <3>2. sieves' = [sieves EXCEPT ![job[t].sieveId] = @ \cup {Mark(p) : p \in S}]
      BY <1>3 DEF ProcessSieve
    <3> HIDE DEF S
    <3> QED
      BY <3>1, <3>2
  <2>5. offsets' \in [Dense \cup Sparse -> [header : Headers \cup {NoHeader}, pass : Nat]]
    BY <1>3, AdvanceType DEF ProcessSieve
  <2> QED
    BY <1>3, <2>4, <2>5 DEF ProcessSieve
<1>4. CASE PushWorkerDone(t)
  BY <1>4, QueueAssumption DEF PushWorkerDone, JobDone
<1>5. CASE TestIndex(t)
  <2>1. idx' \in [MinerThreads -> 0..WorkIndexes]
    <3>1. job[t] \in CheckJobs
      BY <1>5 DEF TestIndex, Control, Place, OwnJob
    <3>2. job[t].n_indexes \in 1..WorkIndexes /\ idx[t] < job[t].n_indexes
      BY <1>5, <3>1 DEF TestIndex, CheckJobs
    <3>3. idx[t] + 1 \in 0..WorkIndexes
      BY <3>2, BoundAssumption
    <3> QED
      BY <1>5, <3>3 DEF TestIndex
  <2>2. pc' \in [MinerThreads -> PCs]
    BY <1>5 DEF TestIndex
  <2> QED
    BY <1>5, <2>1, <2>2 DEF TestIndex
<1>6. CASE SubmitShare(t)
  <2>1. idx' \in [MinerThreads -> 0..WorkIndexes]
    <3>1. job[t] \in CheckJobs /\ idx[t] < job[t].n_indexes
      BY <1>6 DEF SubmitShare, Control, Place, OwnJob
    <3>2. job[t].n_indexes \in 1..WorkIndexes
      BY <3>1 DEF CheckJobs
    <3>3. idx[t] + 1 \in 0..WorkIndexes
      BY <3>1, <3>2, BoundAssumption
    <3> QED
      BY <1>6, <3>3 DEF SubmitShare
  <2> QED
    BY <1>6, <2>1 DEF SubmitShare
<1>7. CASE PushTestDone(t)
  <2>1. idx' \in [MinerThreads -> 0..WorkIndexes]
    BY <1>7, BoundAssumption DEF PushTestDone
  <2> QED
    BY <1>7, <2>1, QueueAssumption DEF PushTestDone, JobDone
<1> QED
  BY <1>1, <1>2, <1>3, <1>4, <1>5, <1>6, <1>7 DEF WorkerStep

-----------------------------------------------------------------------------
LEMMA ControlInit == Init => Control
BY NoJobs, NotAHeader DEF Init, FeedInit, Control, Place, Role, OwnHeader, OwnJob, BatchSize, Sound, RoundPCs, WorkerPCs, NoJob

LEMMA ControlMain ==
  ASSUME Safe, MainStep
  PROVE  Control'
<1>1. work'.height # 0 => work'.root \in Roots
  BY TypeMain DEF Safe, TypeOK, Works
<1>2. UNCHANGED <<pc, block, job, idx, vwq, i_am_master, there_is_a_master, target,
                  verify_block, n_indexes>>
  BY DEF MainStep, electVars, workerVars, queueVars, tableVars, masterVars
<1> QED
  BY <1>1, <1>2 DEF Safe, Control, Place, Role, OwnHeader, OwnJob, BatchSize, Sound

(* The queue holds sound jobs as long as sound jobs are added. *)
LEMMA SoundQueue ==
  ASSUME NEW s \in Seq(Jobs), NEW j \in Jobs,
         \A i \in DOMAIN s : Sound(s[i])
  PROVE  /\ Sound(j) => /\ \A i \in DOMAIN Append(s, j) : Sound(Append(s, j)[i])
                        /\ \A i \in DOMAIN (<<j>> \o s) : Sound((<<j>> \o s)[i])
         /\ s # <<>> => /\ Sound(Head(s))
                        /\ \A i \in DOMAIN Tail(s) : Sound(Tail(s)[i])
<1>1. ASSUME Sound(j), NEW i \in DOMAIN Append(s, j)
      PROVE  Sound(Append(s, j)[i])
  BY <1>1, AppendProperties
<1>2. ASSUME Sound(j), NEW i \in DOMAIN (<<j>> \o s)
      PROVE  Sound((<<j>> \o s)[i])
  <2>1. <<j>> \in Seq(Jobs) /\ Len(<<j>>) = 1 /\ <<j>>[1] = j
    OBVIOUS
  <2>2. i \in 1..Len(s) + 1
    BY <2>1, ConcatProperties
  <2>3. (<<j>> \o s)[i] = IF i = 1 THEN j ELSE s[i - 1]
    BY <2>1, <2>2, ConcatProperties
  <2> QED
    BY <1>2, <2>2, <2>3
<1>3. ASSUME s # <<>>
      PROVE  Sound(Head(s)) /\ \A i \in DOMAIN Tail(s) : Sound(Tail(s)[i])
  BY <1>3, HeadTailProperties
<1> QED
  BY <1>1, <1>2, <1>3

(* A step of one thread leaves the others where they are, and only the     *)
(* master fills the batch.                                                 *)
LEMMA Others ==
  ASSUME Safe, NEW t \in MinerThreads, NEW u \in MinerThreads, u # t,
         pc'[u] = pc[u], block'[u] = block[u], i_am_master'[u] = i_am_master[u],
         job'[u] = job[u], idx'[u] = idx[u],
         there_is_a_master' = there_is_a_master,
         target' = target, verify_block' = verify_block,
         n_indexes' = n_indexes \/ pc[t] \in RoundPCs
  PROVE  Place(u)'
<1>1. Place(u) /\ Place(t) /\ ~(i_am_master[t] /\ i_am_master[u])
  BY DEF Safe, Control
<1>2. Role(u)' /\ OwnHeader(u)' /\ OwnJob(u)'
  BY <1>1 DEF Place, Role, OwnHeader, OwnJob
<1>3. BatchSize(u)'
  BY <1>1 DEF Place, Role, BatchSize, RoundPCs
<1>4. job[u] # NoJob => Sound(job[u])'
  BY <1>1 DEF Place, Sound
<1> QED
  BY <1>1, <1>2, <1>3, <1>4 DEF Place

(* A step that moves thread t alone keeps Control if it is fine for t. *)
Moved(t) ==
  /\ \A u \in MinerThreads \ {t} :
       pc'[u] = pc[u] /\ job'[u] = job[u] /\ idx'[u] = idx[u]
  /\ UNCHANGED <<work, block, electVars, target, verify_block>>
  /\ n_indexes' = n_indexes \/ pc[t] \in RoundPCs

LEMMA OneMoves ==
  ASSUME Safe, NEW t \in MinerThreads, Moved(t),
         Place(t)', (\A i \in DOMAIN vwq : Sound(vwq[i]))'
  PROVE  Control'
<1>1. \A u \in MinerThreads \ {t} : Place(u)'
  BY Others DEF electVars, Moved
<1> QED
  BY <1>1 DEF Safe, Control, electVars, Moved

LEMMA ControlStart ==
  ASSUME Safe, NEW t \in MinerThreads, StartStep(t), TypeOK'
  PROVE  Control'
<1> USE DEF Safe, TypeOK, Control, Place, Goto, Role, OwnHeader, OwnJob, BatchSize,
        Sound, RoundPCs, WorkerPCs, mainVars, electVars, workerVars, queueVars,
        tableVars, masterVars
<1>1. CASE TakeWork(t)
  <2>1. seed' \in 0..SeedLimit-1
    BY <1>1, BoundAssumption, ModRange DEF TakeWork
  <2>2. block'[t] \in Headers
    <3>1. work.height \in Heights /\ work.root \in Roots
      BY <1>1, BoundAssumption DEF TakeWork, Works
    <3>2. block'[t] = [height |-> work.height, root |-> work.root, seed |-> seed']
      BY <1>1 DEF TakeWork
    <3> QED
      BY <2>1, <3>1, <3>2 DEF Headers
  <2> QED
    BY <1>1, <2>2 DEF TakeWork
<1>2. CASE CheckAlgorithm(t)
  BY <1>2 DEF CheckAlgorithm
<1>3. CASE Elect(t)
  BY <1>3 DEF Elect
<1>4. CASE ElectLocked(t)
  BY <1>4 DEF ElectLocked
<1>5. CASE Join(t)
  BY <1>5 DEF Join
<1> QED
  BY <1>1, <1>2, <1>3, <1>4, <1>5 DEF StartStep

LEMMA ControlMaster ==
  ASSUME Safe, NEW t \in MinerThreads, MasterStep(t), TypeOK'
  PROVE  Control'
<1> USE DEF Safe, TypeOK, Control, Place, Goto, Role, OwnHeader, OwnJob, BatchSize, Sound,
        RoundPCs, WorkerPCs, mainVars, electVars, workerVars, queueVars,
        tableVars, masterVars
<1>1. CASE Prepare(t)
  BY <1>1 DEF Prepare
<1>2. CASE PushMod(t)
  BY <1>2 DEF PushMod
<1>3. CASE PopDone(t)
  BY <1>3 DEF PopDone
<1>4. CASE EndMod(t)
  BY <1>4 DEF EndMod
<1>5. CASE LeaveLoop(t)
  BY <1>5 DEF LeaveLoop
<1>6. CASE StartPass(t)
  BY <1>6 DEF StartPass
<1>7. CASE PushSieve(t)
  <2> DEFINE j == [type |-> "SIEVE", start |-> base, end |-> SieveEnd(base),
                   sieveId |-> which_sieve]
  <2>1. SieveEnd(base) \in Nat /\ SieveEnd(base) <= NDense + NSparse
    BY SieveEndBound
  <2>2. j \in Jobs /\ Sound(j)
    <3>1. j \in SieveJobs
      BY <2>1 DEF SieveJobs
    <3>2. target \in Headers
      BY <1>7 DEF PushSieve
    <3> QED
      BY ONLY <2>1, <3>1, <3>2 DEF Sound, Jobs
  <2>3. vwq' = <<j>> \o vwq
    BY <1>7 DEF PushSieve
  <2> HIDE DEF j
  <2>4. \A i \in DOMAIN vwq' : Sound(vwq'[i])
    BY <2>2, <2>3, SoundQueue
  <2>5. Place(t)'
    BY <1>7 DEF PushSieve
  <2>6. Moved(t)
    BY <1>7 DEF PushSieve, Moved
  <2>7. (\A i \in DOMAIN vwq : Sound(vwq[i]))'
    BY <1>7, <2>4 DEF PushSieve
  <2> QED
    BY ONLY Safe, t \in MinerThreads, <2>5, <2>6, <2>7, OneMoves
<1>8. CASE SieveDense(t)
  BY <1>8 DEF SieveDense
<1>9. CASE Merge(t)
  BY <1>9, BoundAssumption DEF Merge
<1>10. CASE ScanNext(t)
  <2>1. n_indexes + 1 < WorkIndexes \/ n_indexes + 1 = WorkIndexes
    BY <1>10, BoundAssumption DEF ScanNext
  <2>2. Place(t)'
    BY <1>10, <2>1 DEF ScanNext
  <2>3. Moved(t)
    BY <1>10 DEF ScanNext, Moved
  <2>4. (\A i \in DOMAIN vwq : Sound(vwq[i]))'
    BY <1>10 DEF ScanNext
  <2> QED
    BY ONLY Safe, t \in MinerThreads, <2>2, <2>3, <2>4, OneMoves
<1>a. ASSUME PushTests, n_indexes > 0, pc[t] \in RoundPCs, target' = target
      PROVE  /\ (\A i \in DOMAIN vwq : Sound(vwq[i]))'
             /\ n_indexes' < WorkIndexes
  <2> DEFINE j == [type |-> "CHECK", n_indexes |-> n_indexes, header |-> target]
  <2>1. j \in Jobs /\ Sound(j)
    <3>1. target \in Headers
      BY <1>a
    <3>2. n_indexes \in 1..WorkIndexes
      BY <1>a, BoundAssumption
    <3> QED
      BY <3>1, <3>2 DEF Jobs, CheckJobs
  <2>2. vwq' = Append(vwq, j)
    BY <1>a DEF PushTests
  <2> HIDE DEF j
  <2>3. \A i \in DOMAIN vwq' : Sound(vwq'[i])
    BY <2>1, <2>2, SoundQueue
  <2> QED
    <3>1. n_indexes' < WorkIndexes
      BY <1>a, BoundAssumption DEF PushTests
    <3>2. \A k \in Jobs : Sound(k) => Sound(k)'
      BY <1>a
    <3> QED
      BY <1>a, <2>3, <3>1, <3>2
<1>11. CASE PushBatch(t)
  <2>1. /\ (\A i \in DOMAIN vwq : Sound(vwq[i]))'
        /\ n_indexes' < WorkIndexes
    BY <1>11, <1>a, BoundAssumption DEF PushBatch
  <2>2. Place(t)'
    BY <1>11, <2>1 DEF PushBatch
  <2>3. Moved(t)
    BY <1>11 DEF PushBatch, Moved
  <2>4. (\A i \in DOMAIN vwq : Sound(vwq[i]))'
    BY <1>11, <2>1 DEF PushBatch
  <2> QED
    BY ONLY Safe, t \in MinerThreads, <2>2, <2>3, <2>4, OneMoves
<1>12. CASE ScanClear(t)
  BY <1>12 DEF ScanClear
<1>13. CASE ScanCheck(t)
  BY <1>13 DEF ScanCheck, PollHeight
<1>14. CASE Reset(t)
  BY <1>14, NoJobs DEF Reset, ClearTests
<1>15. CASE ScanEnd(t)
  BY <1>15 DEF ScanEnd
<1>16. CASE Flush(t)
  <2>1. /\ (\A i \in DOMAIN vwq : Sound(vwq[i]))'
        /\ n_indexes' < WorkIndexes
    BY <1>16, <1>a DEF Flush
  <2>2. Place(t)'
    BY <1>16, <2>1 DEF Flush
  <2>3. Moved(t)
    BY <1>16 DEF Flush, Moved
  <2>4. (\A i \in DOMAIN vwq : Sound(vwq[i]))'
    BY <1>16, <2>1 DEF Flush
  <2> QED
    BY ONLY Safe, t \in MinerThreads, <2>2, <2>3, <2>4, OneMoves
<1>17. CASE EndClear(t)
  BY <1>17 DEF EndClear
<1>18. CASE DrainPop(t)
  BY <1>18 DEF DrainPop
<1>19. CASE DrainCheck(t)
  BY <1>19 DEF DrainCheck, PollHeight
<1>20. CASE DrainReset(t)
  BY <1>20, NoJobs DEF DrainReset, ClearTests
<1>21. CASE Finish(t)
  BY <1>21 DEF Finish
<1> QED
  BY <1>1, <1>2, <1>3, <1>4, <1>5, <1>6, <1>7, <1>8, <1>9, <1>10, <1>11, <1>12, <1>13, <1>14, <1>15, <1>16, <1>17, <1>18, <1>19, <1>20, <1>21 DEF MasterStep

LEMMA ControlWorker ==
  ASSUME Safe, NEW t \in MinerThreads, WorkerStep(t), TypeOK'
  PROVE  Control'
<1> USE DEF Safe, TypeOK, Control, Place, Goto, Role, OwnHeader, OwnJob, BatchSize, Sound,
        RoundPCs, WorkerPCs, mainVars, electVars, workerVars, queueVars,
        tableVars, masterVars
<1>1. CASE Pop(t)
  <2>1. /\ Head(vwq) \in Jobs /\ Sound(Head(vwq))
        /\ \A i \in DOMAIN vwq' : Sound(vwq'[i])
    BY <1>1, SoundQueue, QueueOps, HeadTailProperties DEF Pop
  <2>2. OwnJob(t)'
    <3>1. pc'[t] = WorkPC(job'[t].type) /\ job'[t] \in Jobs /\ idx'[t] = 0
      BY <1>1, <2>1 DEF Pop
    <3>2. \/ job'[t] \in ModJobs /\ pc'[t] = "mod"
          \/ job'[t] \in SieveJobs /\ pc'[t] = "sieve"
          \/ job'[t] \in CheckJobs /\ pc'[t] = "check" /\ 0 <= job'[t].n_indexes
      BY ONLY <3>1, PlaceInBatch DEF WorkPC, Jobs, ModJobs, SieveJobs, CheckJobs
    <3> QED
      BY ONLY <3>1, <3>2 DEF OwnJob
  <2>3. Place(t)'
    <3>1. pc'[t] \in {"mod", "sieve", "check"}
      <4>1. pc'[t] = WorkPC(Head(vwq).type)
        BY <1>1 DEF Pop
      <4> QED
        BY ONLY <2>1, <4>1 DEF WorkPC, Jobs, ModJobs, SieveJobs, CheckJobs
    <3>2. Role(t)' /\ OwnHeader(t)' /\ BatchSize(t)' /\ pc'[t] \notin RoundPCs
      BY <1>1, <3>1 DEF Pop
    <3>3. Sound(job[t])'
      BY <1>1, <2>1 DEF Pop
    <3> QED
      BY <2>2, <3>2, <3>3
  <2>4. Moved(t)
    BY <1>1 DEF Pop, Moved
  <2>5. (\A i \in DOMAIN vwq : Sound(vwq[i]))'
    BY <1>1, <2>1 DEF Pop
  <2> QED
    BY ONLY Safe, t \in MinerThreads, <2>3, <2>4, <2>5, OneMoves
<1>2. CASE UpdateRemainders(t)
  BY <1>2 DEF UpdateRemainders
<1>3. CASE ProcessSieve(t)
  BY <1>3 DEF ProcessSieve
<1>4. CASE PushWorkerDone(t)
  BY <1>4 DEF PushWorkerDone, JobDone
<1>5. CASE TestIndex(t)
  <2>1. job[t] \in CheckJobs /\ idx[t] < job[t].n_indexes
    BY <1>5 DEF TestIndex
  <2>2. idx[t] \in Nat /\ job[t].n_indexes \in Nat
    <3>1. job[t].n_indexes \in 1..WorkIndexes
      BY <2>1 DEF CheckJobs
    <3>2. idx[t] \in 0..WorkIndexes
      OBVIOUS
    <3> QED
      BY <3>1, <3>2, PlaceInBatch
  <2>3. Place(t)'
    <3>1. pc'[t] \in {"check", "submit"} /\ idx'[t] <= job[t].n_indexes
      BY <1>5, <2>1, <2>2 DEF TestIndex
    <3>2. pc'[t] = "submit" => idx'[t] < job[t].n_indexes
      BY <1>5, <2>1, <2>2 DEF TestIndex
    <3>3. UNCHANGED <<job, block, electVars, target>>
      BY <1>5 DEF TestIndex
    <3> QED
      BY <1>5, <2>1, <3>1, <3>2, <3>3 DEF TestIndex
  <2>4. Moved(t)
    BY <1>5 DEF TestIndex, Moved
  <2>5. (\A i \in DOMAIN vwq : Sound(vwq[i]))'
    BY <1>5 DEF TestIndex
  <2> QED
    BY ONLY Safe, t \in MinerThreads, <2>3, <2>4, <2>5, OneMoves
<1>6. CASE SubmitShare(t)
  <2>1. job[t] \in CheckJobs /\ idx[t] < job[t].n_indexes
    BY <1>6 DEF SubmitShare
  <2>2. idx[t] \in Nat /\ job[t].n_indexes \in Nat
    <3>1. job[t].n_indexes \in 1..WorkIndexes
      BY <2>1 DEF CheckJobs
    <3>2. idx[t] \in 0..WorkIndexes
      OBVIOUS
    <3> QED
      BY <3>1, <3>2, PlaceInBatch
  <2>3. Place(t)'
    BY <1>6, <2>1, <2>2 DEF SubmitShare
  <2>4. Moved(t)
    BY <1>6 DEF SubmitShare, Moved
  <2>5. (\A i \in DOMAIN vwq : Sound(vwq[i]))'
    BY <1>6 DEF SubmitShare
  <2> QED
    BY ONLY Safe, t \in MinerThreads, <2>3, <2>4, <2>5, OneMoves
<1>7. CASE PushTestDone(t)
  BY <1>7 DEF PushTestDone, JobDone
<1> QED
  BY <1>1, <1>2, <1>3, <1>4, <1>5, <1>6, <1>7 DEF WorkerStep

LEMMA SafeStutter ==
  ASSUME Safe, UNCHANGED vars
  PROVE  Safe'
BY DEF Safe, TypeOK, Control, Place, Role, OwnHeader, OwnJob, BatchSize, Sound,
       vars, mainVars, electVars, workerVars, queueVars, tableVars, masterVars

LEMMA SafeNext == Safe /\ [Next]_vars => Safe'
<1> SUFFICES ASSUME Safe, [Next]_vars PROVE Safe'
  OBVIOUS
<1>1. CASE MainStep
  BY <1>1, TypeMain, ControlMain DEF Safe
<1>2. ASSUME NEW t \in MinerThreads, ThreadStep(t)
      PROVE  Safe'
  BY <1>2, TypeStart, TypeMaster, TypeWorker, ControlStart, ControlMaster,
     ControlWorker DEF Safe, ThreadStep
<1>3. CASE UNCHANGED vars
  BY <1>3, SafeStutter
<1> QED
  BY <1>1, <1>2, <1>3 DEF Next

LEMMA SafeAlways == Spec => []Safe
<1>1. Init => Safe
  BY TypeInit, ControlInit DEF Safe
<1> QED
  BY <1>1, SafeNext, PTL DEF Spec

(***************************************************************************)
(* The miner is type correct: the queues of lines 81-83 stay within their  *)
(* capacities, a job's loop index within its batch, every place of a       *)
(* worker's sieve within the table.                                        *)
(***************************************************************************)
THEOREM TypeCorrect == Spec => []TypeOK
<1>1. Safe => TypeOK
  BY DEF Safe
<1> QED
  BY <1>1, SafeAlways, PTL

(***************************************************************************)
(* The double-checked election of lines 516-524 elects one master, however *)
(* many threads race for it, and no thread works before there is one.      *)
(***************************************************************************)
THEOREM MasterElected == Spec => []OneMaster
<1>1. Safe => OneMaster
  BY DEF Safe, Control, Place, Role, OneMaster
<1> QED
  BY <1>1, SafeAlways, PTL

-----------------------------------------------------------------------------
(* Counting jobs: Places(s, T) are the places of s that hold a job of the  *)
(* kinds T, so that Queued(T) = Places(vwq, T).                            *)
Places(s, T) == {i \in DOMAIN s : s[i].type \in T}
One(j, T) == IF j.type \in T THEN 1 ELSE 0

LEMMA CardInterval ==
  ASSUME NEW n \in Nat
  PROVE  IsFiniteSet(1..n) /\ Cardinality(1..n) = n
<1>1. 1 \in Int /\ n \in Int
  OBVIOUS
<1>2. IsFiniteSet(1..n) /\ Cardinality(1..n) = IF 1 > n THEN 0 ELSE n - 1 + 1
  BY ONLY <1>1, FS_Interval
<1> QED
  BY ONLY <1>2, n \in Nat

LEMMA PlacesFinite ==
  ASSUME NEW s \in Seq(Jobs), NEW T
  PROVE  /\ IsFiniteSet(Places(s, T)) /\ Cardinality(Places(s, T)) \in Nat
         /\ Cardinality(Places(s, T)) <= Len(s)
<1>1. IsFiniteSet(1..Len(s)) /\ Cardinality(1..Len(s)) = Len(s)
  <2>1. Len(s) \in Nat
    OBVIOUS
  <2> QED
    BY <2>1, CardInterval
<1>2. Places(s, T) \in SUBSET (1..Len(s))
  BY DEF Places
<1> QED
  BY <1>1, <1>2, FS_Subset, FS_CardinalityType

LEMMA HoldersFinite ==
  ASSUME NEW T
  PROVE  IsFiniteSet(Holding(T)) /\ Cardinality(Holding(T)) \in Nat
<1>1. Holding(T) \in SUBSET MinerThreads
  BY DEF Holding
<1> QED
  BY <1>1, ThreadAssumption, FS_Subset, FS_CardinalityType

LEMMA Shift ==
  ASSUME NEW A \in SUBSET Nat, IsFiniteSet(A)
  PROVE  /\ IsFiniteSet({i + 1 : i \in A})
         /\ Cardinality({i + 1 : i \in A}) = Cardinality(A)
<1> DEFINE B == {i + 1 : i \in A}
           f == [i \in A |-> i + 1]
<1>1. f \in [A -> B] /\ \A b \in B : \E a \in A : f[a] = b
  OBVIOUS
<1>2. \A a, b \in A : f[a] = f[b] => a = b
  OBVIOUS
<1>3. f \in Bijection(A, B)
  BY <1>1, <1>2, Fun_IsBij
<1>4. ExistsBijection(A, B)
  BY <1>3 DEF ExistsBijection
<1> QED
  BY <1>4, FS_Bijection

LEMMA PlacesAppend ==
  ASSUME NEW s \in Seq(Jobs), NEW j \in Jobs, NEW T
  PROVE  Cardinality(Places(Append(s, j), T)) = Cardinality(Places(s, T)) + One(j, T)
<1>1. /\ Len(Append(s, j)) = Len(s) + 1
      /\ DOMAIN Append(s, j) = 1..Len(s) + 1
      /\ \A i \in 1..Len(s) : Append(s, j)[i] = s[i]
      /\ Append(s, j)[Len(s) + 1] = j
  BY AppendProperties
<1>2. Len(s) + 1 \notin Places(s, T)
  BY DEF Places
<1>3. CASE j.type \in T
  <2>1. Places(Append(s, j), T) = Places(s, T) \cup {Len(s) + 1}
    BY <1>1, <1>3 DEF Places
  <2> QED
    BY <1>2, <1>3, <2>1, PlacesFinite, FS_AddElement DEF One
<1>4. CASE j.type \notin T
  <2>1. Places(Append(s, j), T) = Places(s, T)
    BY <1>1, <1>4 DEF Places
  <2> QED
    BY <1>4, <2>1, PlacesFinite DEF One
<1> QED
  BY <1>3, <1>4

LEMMA PlacesPrepend ==
  ASSUME NEW s \in Seq(Jobs), NEW j \in Jobs, NEW T
  PROVE  Cardinality(Places(<<j>> \o s, T)) = Cardinality(Places(s, T)) + One(j, T)
<1> DEFINE B == {i + 1 : i \in Places(s, T)}
<1>1. <<j>> \in Seq(Jobs) /\ Len(<<j>>) = 1 /\ <<j>>[1] = j
  OBVIOUS
<1>2. /\ DOMAIN (<<j>> \o s) = 1..Len(s) + 1
      /\ (<<j>> \o s)[1] = j
      /\ \A i \in 1..Len(s) : (<<j>> \o s)[i + 1] = s[i]
  BY <1>1, ConcatProperties
<1>3. IsFiniteSet(B) /\ Cardinality(B) = Cardinality(Places(s, T))
  <2>1. Places(s, T) \in SUBSET Nat
    BY DEF Places
  <2> QED
    BY <2>1, Shift, PlacesFinite
<1>4. \A k \in 1..Len(s) + 1 : k = 1 \/ \E i \in 1..Len(s) : k = i + 1
  <2>1. \A k \in 1..Len(s) + 1 : k = 1 \/ (k - 1 \in 1..Len(s) /\ k = (k - 1) + 1)
    OBVIOUS
  <2> QED
    BY <2>1
<1>5. 1 \notin B
  BY DEF Places
<1>6. CASE j.type \in T
  <2>1. Places(<<j>> \o s, T) = B \cup {1}
    BY <1>2, <1>4, <1>6 DEF Places
  <2> QED
    BY <1>3, <1>5, <1>6, <2>1, PlacesFinite, FS_AddElement DEF One
<1>7. CASE j.type \notin T
  <2>1. Places(<<j>> \o s, T) = B
    BY <1>2, <1>4, <1>7 DEF Places
  <2> QED
    <3>1. Cardinality(Places(s, T)) \in Nat /\ One(j, T) = 0
      BY <1>7, PlacesFinite DEF One
    <3> HIDE DEF B
    <3> QED
      BY <1>3, <2>1, <3>1
<1> QED
  BY <1>6, <1>7

LEMMA PlacesTail ==
  ASSUME NEW s \in Seq(Jobs), s # <<>>, NEW T
  PROVE  Cardinality(Places(s, T)) = Cardinality(Places(Tail(s), T)) + One(Head(s), T)
<1>1. Head(s) \in Jobs /\ Tail(s) \in Seq(Jobs)
  BY HeadTailProperties
<1>2. s = <<Head(s)>> \o Tail(s)
  OBVIOUS
<1>3. Cardinality(Places(<<Head(s)>> \o Tail(s), T))
        = Cardinality(Places(Tail(s), T)) + One(Head(s), T)
  BY ONLY <1>1, PlacesPrepend
<1> QED
  BY <1>2, <1>3

LEMMA PlacesNone == ASSUME NEW T PROVE Places(<<>>, T) = {} /\ Cardinality(Places(<<>>, T)) = 0
BY FS_EmptySet DEF Places

(* A worker takes up a job, or is done with it. *)
LEMMA HoldersAdd ==
  ASSUME NEW t \in MinerThreads, NEW j, NEW T, "NONE" \notin T, job[t] = NoJob,
         job \in [MinerThreads -> Jobs \cup {NoJob}], job' = [job EXCEPT ![t] = j]
  PROVE  Cardinality(Holding(T)') = Cardinality(Holding(T)) + One(j, T)
<1>1. t \notin Holding(T)
  BY DEF Holding, NoJob
<1>2. CASE j.type \in T
  <2>1. Holding(T)' = Holding(T) \cup {t}
    BY <1>2 DEF Holding
  <2> QED
    BY <1>1, <1>2, <2>1, HoldersFinite, FS_AddElement DEF One
<1>3. CASE j.type \notin T
  <2>1. Holding(T)' = Holding(T)
    BY <1>1, <1>3 DEF Holding
  <2> QED
    BY <1>3, <2>1, HoldersFinite DEF One
<1> QED
  BY <1>2, <1>3

LEMMA HoldersRemove ==
  ASSUME NEW t \in MinerThreads, NEW T, "NONE" \notin T,
         job \in [MinerThreads -> Jobs \cup {NoJob}], job' = [job EXCEPT ![t] = NoJob]
  PROVE  Cardinality(Holding(T)') = Cardinality(Holding(T)) - One(job[t], T)
<1>1. CASE job[t].type \in T
  <2>1. Holding(T)' = Holding(T) \ {t} /\ t \in Holding(T)
    BY <1>1 DEF Holding, NoJob
  <2> QED
    BY <1>1, <2>1, HoldersFinite, FS_RemoveElement DEF One
<1>2. CASE job[t].type \notin T
  <2>1. Holding(T)' = Holding(T)
    BY <1>2 DEF Holding, NoJob
  <2> QED
    BY <1>2, <2>1, HoldersFinite DEF One
<1> QED
  BY <1>1, <1>2

LEMMA InFlightNat ==
  ASSUME TypeOK, NEW T
  PROVE  /\ InFlight(T) \in Nat
         /\ Cardinality(Queued(T)) \in Nat /\ Cardinality(Holding(T)) \in Nat
         /\ Queued(T) = Places(vwq, T)
         /\ IsFiniteSet(Queued(T)) /\ IsFiniteSet(Holding(T))
<1>1. vwq \in Seq(Jobs)
  BY DEF TypeOK
<1>2. Queued(T) = Places(vwq, T)
  BY DEF Queued, Places
<1>3. IsFiniteSet(Queued(T)) /\ Cardinality(Queued(T)) \in Nat
  BY <1>1, <1>2, PlacesFinite
<1>4. IsFiniteSet(Holding(T)) /\ Cardinality(Holding(T)) \in Nat
  BY HoldersFinite
<1>5. InFlight(T) \in Nat
  BY <1>3, <1>4 DEF InFlight
<1> QED
  BY <1>2, <1>3, <1>4, <1>5

LEMMA InFlightSame ==
  ASSUME NEW T, vwq' = vwq, job' = job
  PROVE  InFlight(T)' = InFlight(T)
BY DEF InFlight, Queued, Holding

LEMMA InFlightPush ==
  ASSUME TypeOK, NEW T, NEW j \in Jobs, job' = job,
         vwq' = Append(vwq, j) \/ vwq' = <<j>> \o vwq
  PROVE  InFlight(T)' = InFlight(T) + One(j, T)
<1>1. Cardinality(Places(vwq', T)) = Cardinality(Places(vwq, T)) + One(j, T)
  <2>1. vwq \in Seq(Jobs)
    BY DEF TypeOK
  <2>2. CASE vwq' = Append(vwq, j)
    BY <2>1, <2>2, PlacesAppend
  <2>3. CASE vwq' = <<j>> \o vwq
    BY <2>1, <2>3, PlacesPrepend
  <2> QED
    BY <2>2, <2>3
<1>2. Queued(T)' = Places(vwq', T) /\ Holding(T)' = Holding(T)
  BY DEF Queued, Places, Holding
<1>3. One(j, T) \in Nat
  BY DEF One
<1> QED
  BY <1>1, <1>2, <1>3, InFlightNat DEF InFlight

LEMMA InFlightPop ==
  ASSUME TypeOK, NEW T, "NONE" \notin T, NEW t \in MinerThreads, job[t] = NoJob,
         vwq # <<>>, vwq' = Tail(vwq), job' = [job EXCEPT ![t] = Head(vwq)]
  PROVE  InFlight(T)' = InFlight(T)
<1>1. Cardinality(Places(vwq, T)) = Cardinality(Places(vwq', T)) + One(Head(vwq), T)
  BY PlacesTail DEF TypeOK
<1>2. Cardinality(Holding(T)') = Cardinality(Holding(T)) + One(Head(vwq), T)
  BY HoldersAdd DEF TypeOK
<1>3. Queued(T)' = Places(vwq', T)
  BY DEF Queued, Places
<1>4. One(Head(vwq), T) \in Nat
  BY DEF One
<1>5. Cardinality(Places(vwq', T)) \in Nat
  BY PlacesFinite, HeadTailProperties DEF TypeOK
<1> QED
  BY <1>1, <1>2, <1>3, <1>4, <1>5, InFlightNat DEF InFlight

LEMMA InFlightDone ==
  ASSUME TypeOK, NEW T, "NONE" \notin T, NEW t \in MinerThreads,
         vwq' = vwq, job' = [job EXCEPT ![t] = NoJob]
  PROVE  InFlight(T)' = InFlight(T) - One(job[t], T)
<1>1. Cardinality(Holding(T)') = Cardinality(Holding(T)) - One(job[t], T)
  BY HoldersRemove DEF TypeOK
<1>2. Queued(T)' = Queued(T)
  BY DEF Queued
<1>3. One(job[t], T) \in Nat
  BY DEF One
<1> QED
  BY <1>1, <1>2, <1>3, InFlightNat DEF InFlight

(* When no answer is owed to workerDoneQueue, the queue holds tests only,  *)
(* and clearing it drops as many tests as it was long.                     *)
LEMMA InFlightClear ==
  ASSUME TypeOK, InFlight({"MOD", "SIEVE"}) = 0, job' = job, vwq' = <<>>
  PROVE  /\ InFlight({"CHECK"})' = InFlight({"CHECK"}) - Len(vwq)
         /\ InFlight({"MOD", "SIEVE"})' = 0
<1> DEFINE A == {"MOD", "SIEVE"}
           C == {"CHECK"}
<1>1. Cardinality(Queued(A)) = 0 /\ Cardinality(Holding(A)) = 0
  BY InFlightNat DEF InFlight
<1>2. Queued(A) = {}
  BY <1>1, InFlightNat, FS_EmptySet
<1>3. Queued(C) = 1..Len(vwq)
  <2>1. DOMAIN vwq = 1..Len(vwq) /\ \A i \in DOMAIN vwq : vwq[i] \in Jobs
    BY DEF TypeOK
  <2>2. \A j \in Jobs : j.type \in A \cup C
    BY DEF Jobs, ModJobs, SieveJobs, CheckJobs
  <2> QED
    BY <1>2, <2>1, <2>2 DEF Queued
<1>4. Len(vwq) \in Nat
  BY DEF TypeOK
<1>5. Cardinality(Queued(C)) = Len(vwq)
  <2>1. Cardinality(1..Len(vwq)) = Len(vwq)
    BY ONLY <1>4, CardInterval
  <2> HIDE DEF C
  <2> QED
    BY <1>3, <2>1
<1>6. \A T : Queued(T)' = {} /\ Holding(T)' = Holding(T)
  BY DEF Queued, Holding
<1>7. InFlight(C)' = Cardinality(Holding(C)) /\ InFlight(A)' = Cardinality(Holding(A))
  <2>1. /\ InFlight(C)' = Cardinality(Queued(C)') + Cardinality(Holding(C)')
        /\ InFlight(A)' = Cardinality(Queued(A)') + Cardinality(Holding(A)')
    BY DEF InFlight
  <2>2. /\ Queued(C)' = {} /\ Holding(C)' = Holding(C)
        /\ Queued(A)' = {} /\ Holding(A)' = Holding(A)
    BY <1>6
  <2>3. Cardinality(Holding(C)) \in Nat /\ Cardinality(Holding(A)) \in Nat
    BY InFlightNat
  <2> HIDE DEF A, C
  <2> QED
    BY <2>1, <2>2, <2>3, FS_EmptySet
<1> QED
  BY <1>1, <1>4, <1>5, <1>7, InFlightNat DEF InFlight

-----------------------------------------------------------------------------
(* The places of the master where it waits for no MOD or SIEVE job. *)
Settled == {"looptop", "scan", "pushbatch", "scanclear", "scancheck", "reset",
            "flush", "endclear", "drain", "draincheck", "drainreset"}

(* The master finds workerDoneQueue empty where it looks (lines 758-761). *)
NoAbort == \A t \in MinerThreads : pc[t] # "aborted"

(***************************************************************************)
(* The counts are exact, and where they start again from 0 (lines 641,     *)
(* 689 and 705) they are 0 already: nothing is owed once the master has    *)
(* its answers, and nothing is left when riecoin_process returns.          *)
(***************************************************************************)
Counted ==
  /\ TestsAccounted /\ JobsAccounted /\ NoAbort
  /\ \A t \in MinerThreads :
       /\ pc[t] \in Settled => awaited = 0
       /\ pc[t] \in {"pushmod", "waitmod"} => outstandingTests = 0
  /\ (\A t \in MinerThreads : pc[t] \notin RoundPCs) => awaited = 0 /\ outstandingTests = 0

LEMMA CountedInit == Init => Counted
<1> SUFFICES ASSUME Init PROVE Counted
  OBVIOUS
<1>1. \A T : "NONE" \notin T => Queued(T) = {} /\ Holding(T) = {}
  BY DEF Init, Queued, Holding, NoJob
<1>2. InFlight({"CHECK"}) = 0 /\ InFlight({"MOD", "SIEVE"}) = 0
  BY <1>1, FS_EmptySet DEF InFlight
<1> QED
  BY <1>2 DEF Init, Counted, TestsAccounted, JobsAccounted, NoAbort, Settled, RoundPCs

(* The master moves; no other thread is in its code. *)
LEMMA CountedMasterMove ==
  ASSUME Safe, NEW t \in MinerThreads, i_am_master[t],
         \A u \in MinerThreads \ {t} : pc'[u] = pc[u],
         TestsAccounted', JobsAccounted', pc'[t] # "aborted",
         pc'[t] \in Settled => awaited' = 0,
         pc'[t] \in {"pushmod", "waitmod"} => outstandingTests' = 0,
         pc'[t] \notin RoundPCs => awaited' = 0 /\ outstandingTests' = 0
  PROVE  Counted'
<1>1. \A u \in MinerThreads \ {t} : pc'[u] \notin RoundPCs
  BY DEF Safe, Control, Place, Role
<1> QED
  BY <1>1 DEF Counted, NoAbort, Settled, RoundPCs

(* Anyone else moves: the master's counts stay. *)
LEMMA CountedOtherMove ==
  ASSUME Counted, TestsAccounted', JobsAccounted',
         awaited' = awaited, outstandingTests' = outstandingTests,
         \A u \in MinerThreads : pc'[u] = pc[u] \/ (pc[u] \notin RoundPCs /\ pc'[u] \notin RoundPCs)
  PROVE  Counted'
BY DEF Counted, NoAbort, Settled, RoundPCs

LEMMA CountedMain ==
  ASSUME Safe, Counted, MainStep
  PROVE  Counted'
<1>1. UNCHANGED <<pc, vwq, wdq, tdq, job, awaited, outstandingTests>>
  BY DEF MainStep, workerVars, queueVars, masterVars
<1>2. TestsAccounted' /\ JobsAccounted'
  BY <1>1, InFlightSame DEF Counted, TestsAccounted, JobsAccounted
<1> QED
  BY <1>1, <1>2, CountedOtherMove

LEMMA CountedStart ==
  ASSUME Safe, Counted, NEW t \in MinerThreads, StartStep(t)
  PROVE  Counted'
<1>1. UNCHANGED <<vwq, wdq, tdq, job, awaited, outstandingTests>>
  BY DEF StartStep, TakeWork, CheckAlgorithm, Elect, ElectLocked, Join,
         workerVars, queueVars, masterVars
<1>2. TestsAccounted' /\ JobsAccounted'
  BY <1>1, InFlightSame DEF Counted, TestsAccounted, JobsAccounted
<1>3. \A u \in MinerThreads :
        pc'[u] = pc[u] \/ (pc[u] \notin RoundPCs /\ pc'[u] \notin RoundPCs)
  <2>1. pc \in [MinerThreads -> PCs]
    BY DEF Safe, TypeOK
  <2>2. CASE TakeWork(t) \/ CheckAlgorithm(t) \/ Elect(t)
    BY <2>1, <2>2 DEF TakeWork, CheckAlgorithm, Elect, Goto, RoundPCs
  <2>3. CASE ElectLocked(t) \/ Join(t)
    BY <2>1, <2>3 DEF ElectLocked, Join, Goto, RoundPCs
  <2> QED
    BY <2>2, <2>3 DEF StartStep
<1> QED
  BY <1>1, <1>2, <1>3, CountedOtherMove

LEMMA WorkerMoves ==
  ASSUME Safe, NEW t \in MinerThreads, WorkerStep(t)
  PROVE  /\ pc[t] \in WorkerPCs /\ pc'[t] \in WorkerPCs
         /\ \A u \in MinerThreads \ {t} : pc'[u] = pc[u]
<1>1. pc \in [MinerThreads -> PCs] /\ vwq \in Seq(Jobs)
  BY DEF Safe, TypeOK
<1>2. \A j \in Jobs : WorkPC(j.type) \in {"mod", "sieve", "check"}
  BY DEF Jobs, ModJobs, SieveJobs, CheckJobs, WorkPC
<1>3. CASE Pop(t)
  <2>1. Head(vwq) \in Jobs
    BY <1>1, <1>3, HeadTailProperties DEF Pop
  <2> QED
    BY <1>1, <1>2, <1>3, <2>1 DEF Pop, Goto, WorkerPCs
<1>4. CASE UpdateRemainders(t) \/ ProcessSieve(t) \/ PushWorkerDone(t)
  BY <1>1, <1>4 DEF UpdateRemainders, ProcessSieve, PushWorkerDone, JobDone, Goto, WorkerPCs
<1>5. CASE TestIndex(t) \/ SubmitShare(t) \/ PushTestDone(t)
  BY <1>1, <1>5 DEF TestIndex, SubmitShare, PushTestDone, JobDone, Goto, WorkerPCs
<1> QED
  BY <1>3, <1>4, <1>5 DEF WorkerStep

LEMMA CountedWorker ==
  ASSUME Safe, Counted, NEW t \in MinerThreads, WorkerStep(t)
  PROVE  Counted'
<1>a. TypeOK /\ Place(t) /\ OwnJob(t)
  BY DEF Safe, Control, Place
<1>b. /\ TestsAccounted /\ JobsAccounted
      /\ awaited \in Int /\ outstandingTests \in Int /\ wdq \in Nat /\ tdq \in Nat
  BY <1>a, QueueAssumption DEF Counted, TypeOK
<1>1. awaited' = awaited /\ outstandingTests' = outstandingTests
  BY DEF WorkerStep, Pop, UpdateRemainders, ProcessSieve, PushWorkerDone, TestIndex,
         SubmitShare, PushTestDone, JobDone, masterVars
<1>2. \A u \in MinerThreads :
        pc'[u] = pc[u] \/ (pc[u] \notin RoundPCs /\ pc'[u] \notin RoundPCs)
  BY WorkerMoves DEF WorkerPCs, RoundPCs
<1>3. TestsAccounted' /\ JobsAccounted'
  <2>1. CASE Pop(t)
    <3>1. /\ vwq # <<>> /\ vwq' = Tail(vwq) /\ job' = [job EXCEPT ![t] = Head(vwq)]
          /\ job[t] = NoJob /\ wdq' = wdq /\ tdq' = tdq
      BY <1>a, <2>1 DEF Pop, OwnJob
    <3>2. /\ InFlight({"CHECK"})' = InFlight({"CHECK"})
          /\ InFlight({"MOD", "SIEVE"})' = InFlight({"MOD", "SIEVE"})
      BY <1>a, <3>1, InFlightPop
    <3> QED
      BY <1>1, <1>b, <3>1, <3>2 DEF TestsAccounted, JobsAccounted
  <2>2. CASE UpdateRemainders(t) \/ ProcessSieve(t) \/ TestIndex(t) \/ SubmitShare(t)
    <3>1. UNCHANGED <<vwq, wdq, tdq, job>>
      BY <2>2 DEF UpdateRemainders, ProcessSieve, TestIndex, SubmitShare,
                  workerVars, queueVars
    <3> QED
      BY <1>1, <1>b, <3>1, InFlightSame DEF TestsAccounted, JobsAccounted
  <2>3. CASE PushWorkerDone(t)
    <3>1. /\ job[t] \in ModJobs \cup SieveJobs /\ wdq' = wdq + 1 /\ tdq' = tdq
          /\ vwq' = vwq /\ job' = [job EXCEPT ![t] = NoJob]
      BY <1>a, <2>3 DEF PushWorkerDone, JobDone, OwnJob
    <3>2. One(job[t], {"CHECK"}) = 0 /\ One(job[t], {"MOD", "SIEVE"}) = 1
      BY <3>1 DEF One, ModJobs, SieveJobs
    <3>3. /\ InFlight({"CHECK"})' = InFlight({"CHECK"}) - One(job[t], {"CHECK"})
          /\ InFlight({"MOD", "SIEVE"})' =
               InFlight({"MOD", "SIEVE"}) - One(job[t], {"MOD", "SIEVE"})
      BY <1>a, <3>1, InFlightDone
    <3>4. InFlight({"CHECK"}) \in Nat /\ InFlight({"MOD", "SIEVE"}) \in Nat
      BY <1>a, InFlightNat
    <3> QED
      BY <1>1, <1>b, <3>1, <3>2, <3>3, <3>4 DEF TestsAccounted, JobsAccounted
  <2>4. CASE PushTestDone(t)
    <3>1. /\ job[t] \in CheckJobs /\ tdq' = tdq + 1 /\ wdq' = wdq
          /\ vwq' = vwq /\ job' = [job EXCEPT ![t] = NoJob]
      BY <1>a, <2>4 DEF PushTestDone, JobDone, OwnJob
    <3>2. One(job[t], {"CHECK"}) = 1 /\ One(job[t], {"MOD", "SIEVE"}) = 0
      BY <3>1 DEF One, CheckJobs
    <3>3. /\ InFlight({"CHECK"})' = InFlight({"CHECK"}) - One(job[t], {"CHECK"})
          /\ InFlight({"MOD", "SIEVE"})' =
               InFlight({"MOD", "SIEVE"}) - One(job[t], {"MOD", "SIEVE"})
      BY <1>a, <3>1, InFlightDone
    <3>4. InFlight({"CHECK"}) \in Nat /\ InFlight({"MOD", "SIEVE"}) \in Nat
      BY <1>a, InFlightNat
    <3> QED
      BY <1>1, <1>b, <3>1, <3>2, <3>3, <3>4 DEF TestsAccounted, JobsAccounted
  <2> QED
    BY <2>1, <2>2, <2>3, <2>4 DEF WorkerStep
<1> QED
  BY <1>1, <1>2, <1>3, CountedOtherMove

LEMMA CountedMaster ==
  ASSUME Safe, Counted, NEW t \in MinerThreads, MasterStep(t)
  PROVE  Counted'
<1> DEFINE tests == InFlight({"CHECK"})
           jobs == InFlight({"MOD", "SIEVE"})
<1>a. TypeOK /\ Role(t) /\ pc \in [MinerThreads -> PCs]
  BY DEF Safe, Control, Place, TypeOK
<1>b. /\ outstandingTests = tests + tdq /\ awaited = jobs + wdq
      /\ tests \in Nat /\ jobs \in Nat /\ wdq \in Nat /\ tdq \in Nat
      /\ pc[t] \in Settled => awaited = 0
      /\ pc[t] \in {"pushmod", "waitmod"} => outstandingTests = 0
  <2>1. tests \in Nat /\ jobs \in Nat
    BY <1>a, InFlightNat
  <2>2. wdq \in Nat /\ tdq \in Nat
    BY <1>a, QueueAssumption DEF TypeOK
  <2> QED
    BY <2>1, <2>2 DEF Counted, TestsAccounted, JobsAccounted
<1>m. i_am_master[t]
  BY <1>a DEF Role, RoundPCs, MasterStep, Prepare, PushMod, PopDone, EndMod, LeaveLoop,
         StartPass, PushSieve, SieveDense, Merge, ScanNext, PushBatch, ScanClear,
         ScanCheck, Reset, ScanEnd, Flush, EndClear, DrainPop, DrainCheck, DrainReset,
         Finish
(* A move of the master is fine if its counts are, and if it arrives where *)
(* they allow.                                                             *)
<1>c. ASSUME NEW l \in PCs, pc' = [pc EXCEPT ![t] = l],
             outstandingTests' = tests' + tdq', awaited' = jobs' + wdq',
             l # "aborted", l \in Settled => awaited' = 0,
             l \in {"pushmod", "waitmod"} => outstandingTests' = 0,
             l \notin RoundPCs => awaited' = 0 /\ outstandingTests' = 0
      PROVE  Counted'
  <2>1. pc'[t] = l /\ \A u \in MinerThreads \ {t} : pc'[u] = pc[u]
    BY <1>a, <1>c
  <2>2. TestsAccounted' /\ JobsAccounted'
    BY <1>c DEF TestsAccounted, JobsAccounted
  <2> QED
    BY <1>c, <1>m, <2>1, <2>2, CountedMasterMove
<1>d. vwq' = vwq /\ job' = job => tests' = tests /\ jobs' = jobs
  BY InFlightSame
(* testDoneQueue cleared; verifyWorkQueue cleared; a test pushed. *)
<1>e. ASSUME ClearDone, vwq' = vwq, job' = job
      PROVE  outstandingTests' = tests' + tdq' /\ tests' = tests /\ jobs' = jobs
  BY <1>b, <1>d, <1>e DEF ClearDone
<1>f. ASSUME ClearTests, pc[t] \in Settled, job' = job, tdq' = tdq
      PROVE  outstandingTests' = tests' + tdq' /\ jobs' = 0 /\ wdq = 0
  <2>1. jobs = 0 /\ wdq = 0
    BY <1>b, <1>f
  <2>2. tests' = tests - Len(vwq) /\ jobs' = 0
    BY <1>a, <1>f, <2>1, InFlightClear DEF ClearTests
  <2>3. Len(vwq) \in Nat
    BY <1>a DEF TypeOK
  <2> QED
    BY <1>b, <1>f, <2>1, <2>2, <2>3 DEF ClearTests
<1>g. ASSUME PushTests, n_indexes > 0, target \in Headers, job' = job, tdq' = tdq
      PROVE  outstandingTests' = tests' + tdq' /\ jobs' = jobs
  <2> DEFINE j == [type |-> "CHECK", n_indexes |-> n_indexes, header |-> target]
  <2>1. n_indexes \in 1..WorkIndexes
    BY <1>a, <1>g, BoundAssumption DEF TypeOK
  <2>2. j \in Jobs /\ One(j, {"CHECK"}) = 1 /\ One(j, {"MOD", "SIEVE"}) = 0
    BY <1>g, <2>1 DEF Jobs, CheckJobs, One
  <2>3. vwq' = Append(vwq, j)
    BY <1>g DEF PushTests
  <2> HIDE DEF j
  <2>4. tests' = tests + One(j, {"CHECK"}) /\ jobs' = jobs + One(j, {"MOD", "SIEVE"})
    BY <1>a, <1>g, <2>2, <2>3, InFlightPush
  <2> QED
    BY <1>b, <1>g, <2>2, <2>4 DEF PushTests
<1>h. pc[t] \in RoundPCs => target \in Headers
  BY DEF Safe, Control, Place, OwnHeader, RoundPCs, WorkerPCs
<1> HIDE DEF tests, jobs
<1> USE DEF Goto, mainVars, electVars, workerVars, queueVars, tableVars, masterVars,
            Settled, PCs, RoundPCs
<1>1. CASE Prepare(t)
  <2>1. \A u \in MinerThreads : pc[u] \notin RoundPCs
    BY <1>1, <1>m DEF Prepare, Safe, Control, Place, Role
  <2>2. awaited = 0 /\ outstandingTests = 0
    BY <2>1 DEF Counted
  <2> QED
    BY <1>1, <1>b, <1>c, <1>d, <2>2 DEF Prepare
<1>2. CASE PushMod(t)
  <2> DEFINE j == [type |-> "MOD", start |-> base,
                   end |-> Least(PrimeTestSize, base + ModIncr)]
  <2>1. ModIncr \in Nat
    BY TableAssumption, Division DEF ModIncr
  <2>2. j \in Jobs /\ One(j, {"CHECK"}) = 0 /\ One(j, {"MOD", "SIEVE"}) = 1
    BY <1>a, <2>1, TableAssumption DEF Least, Jobs, ModJobs, TypeOK, One
  <2>3. vwq' = Append(vwq, j) /\ job' = job
    BY <1>2 DEF PushMod
  <2> HIDE DEF j
  <2>4. tests' = tests + One(j, {"CHECK"}) /\ jobs' = jobs + One(j, {"MOD", "SIEVE"})
    BY <1>a, <2>2, <2>3, InFlightPush DEF tests, jobs
  <2>5. outstandingTests' = tests' + tdq' /\ awaited' = jobs' + wdq'
    BY <1>2, <1>b, <2>2, <2>4 DEF PushMod
  <2>6. pc[t] # "pushmod" \/ outstandingTests' = 0
    BY <1>2, <1>b DEF PushMod
  <2> QED
    BY <1>2, <1>c, <2>5, <2>6 DEF PushMod
<1>3. CASE PopDone(t)
  BY <1>3, <1>a, <1>b, <1>c, <1>d DEF PopDone
<1>4. CASE EndMod(t)
  BY <1>4, <1>b, <1>c, <1>d DEF EndMod
<1>5. CASE LeaveLoop(t)
  BY <1>5, <1>b, <1>c, <1>d DEF LeaveLoop
<1>6. CASE StartPass(t)
  BY <1>6, <1>b, <1>c, <1>d DEF StartPass
<1>7. CASE PushSieve(t)
  <2> DEFINE j == [type |-> "SIEVE", start |-> base, end |-> SieveEnd(base),
                   sieveId |-> which_sieve]
  <2>1. SieveEnd(base) \in Nat /\ base \in Nat /\ which_sieve \in 0..NSieveWorkers-1
    BY <1>a, SieveEndBound DEF TypeOK
  <2>2. j \in Jobs /\ One(j, {"CHECK"}) = 0 /\ One(j, {"MOD", "SIEVE"}) = 1
    BY <2>1 DEF Jobs, SieveJobs, One
  <2>3. vwq' = <<j>> \o vwq /\ job' = job
    BY <1>7 DEF PushSieve
  <2> HIDE DEF j
  <2>4. tests' = tests + One(j, {"CHECK"}) /\ jobs' = jobs + One(j, {"MOD", "SIEVE"})
    BY <1>a, <2>2, <2>3, InFlightPush DEF tests, jobs
  <2>5. outstandingTests' = tests' + tdq' /\ awaited' = jobs' + wdq'
    BY <1>7, <1>b, <2>2, <2>4 DEF PushSieve
  <2>6. pc[t] # "pushmod" \/ outstandingTests' = 0
    BY <1>7, <1>b DEF PushSieve
  <2> QED
    BY <1>7, <1>c, <2>5, <2>6 DEF PushSieve
<1>8. CASE SieveDense(t)
  BY <1>8, <1>b, <1>c, <1>e DEF SieveDense
<1>9. CASE Merge(t)
  <2>1. wdq = 0 /\ awaited = 0
    BY <1>9, <1>b DEF Merge
  <2> QED
    BY <1>9, <1>b, <1>c, <1>d, <2>1 DEF Merge
<1>10. CASE ScanNext(t)
  BY <1>10, <1>b, <1>c, <1>e DEF ScanNext
<1>11. CASE PushBatch(t)
  <2>1. n_indexes > 0 /\ target \in Headers
    BY <1>11, <1>h, BoundAssumption DEF PushBatch, Safe, Control, Place, BatchSize
  <2>2. /\ PushTests /\ job' = job /\ tdq' = tdq /\ wdq' = wdq /\ awaited' = awaited
        /\ pc' = [pc EXCEPT ![t] = "scanclear"]
    BY <1>11 DEF PushBatch
  <2>3. outstandingTests' = tests' + tdq' /\ awaited' = jobs' + wdq' /\ awaited' = 0
    BY <1>11, <1>b, <1>g, <2>1, <2>2 DEF PushBatch
  <2> QED
    BY <1>c, <2>2, <2>3
<1>12. CASE ScanClear(t)
  BY <1>12, <1>b, <1>c, <1>e DEF ScanClear
<1>13. CASE ScanCheck(t)
  BY <1>13, <1>b, <1>c, <1>d DEF ScanCheck, PollHeight
<1>14. CASE Reset(t)
  <2>1. /\ ClearTests /\ job' = job /\ tdq' = tdq /\ wdq' = wdq /\ awaited' = awaited
        /\ pc' = [pc EXCEPT ![t] = "flush"] /\ pc[t] \in Settled
    BY <1>14 DEF Reset
  <2>2. outstandingTests' = tests' + tdq' /\ awaited' = jobs' + wdq' /\ awaited' = 0
    BY <1>b, <1>f, <2>1
  <2> QED
    BY <1>c, <2>1, <2>2
<1>15. CASE ScanEnd(t)
  BY <1>15, <1>b, <1>c, <1>d DEF ScanEnd
<1>16. CASE Flush(t)
  BY <1>16, <1>b, <1>c, <1>d, <1>g, <1>h DEF Flush
<1>17. CASE EndClear(t)
  BY <1>17, <1>b, <1>c, <1>e DEF EndClear
<1>18. CASE DrainPop(t)
  <2>1. outstandingTests' = tests' + tdq' /\ awaited' = jobs' + wdq' /\ awaited' = 0
    BY <1>18, <1>b, <1>d DEF DrainPop
  <2> QED
    BY <1>18, <1>c, <2>1 DEF DrainPop
<1>19. CASE DrainCheck(t)
  BY <1>19, <1>b, <1>c, <1>d DEF DrainCheck, PollHeight
<1>20. CASE DrainReset(t)
  <2>1. /\ ClearTests /\ job' = job /\ tdq' = tdq /\ wdq' = wdq /\ awaited' = awaited
        /\ pc' = [pc EXCEPT ![t] = "drain"] /\ pc[t] \in Settled
    BY <1>20 DEF DrainReset
  <2>2. outstandingTests' = tests' + tdq' /\ awaited' = jobs' + wdq' /\ awaited' = 0
    BY <1>b, <1>f, <2>1
  <2> QED
    BY <1>c, <2>1, <2>2
<1>21. CASE Finish(t)
  BY <1>21, <1>b, <1>c, <1>d DEF Finish
<1> QED
  BY <1>1, <1>2, <1>3, <1>4, <1>5, <1>6, <1>7, <1>8, <1>9, <1>10, <1>11, <1>12,
     <1>13, <1>14, <1>15, <1>16, <1>17, <1>18, <1>19, <1>20, <1>21 DEF MasterStep

LEMMA CountedNext == Safe /\ Counted /\ [Next]_vars => Counted'
<1> SUFFICES ASSUME Safe, Counted, [Next]_vars PROVE Counted'
  OBVIOUS
<1>1. CASE MainStep
  BY <1>1, CountedMain
<1>2. ASSUME NEW t \in MinerThreads, ThreadStep(t)
      PROVE  Counted'
  BY <1>2, CountedStart, CountedMaster, CountedWorker DEF ThreadStep
<1>3. CASE UNCHANGED vars
  <2>1. UNCHANGED <<pc, vwq, wdq, tdq, job, awaited, outstandingTests>>
    BY <1>3 DEF vars, workerVars, queueVars, masterVars
  <2>2. TestsAccounted' /\ JobsAccounted'
    BY <2>1, InFlightSame DEF Counted, TestsAccounted, JobsAccounted
  <2> QED
    BY <2>1, <2>2, CountedOtherMove
<1> QED
  BY <1>1, <1>2, <1>3 DEF Next

LEMMA CountedAlways == Spec => []Counted
BY CountedInit, SafeAlways, CountedNext, PTL DEF Spec

(***************************************************************************)
(* outstandingTests is exact at every step (lines 750-859): it never wraps *)
(* and the drain waits for precisely the answers that will come, however   *)
(* the three queues are cleared while workers take jobs and answer them.   *)
(***************************************************************************)
THEOREM OutstandingTestsExact == Spec => []TestsAccounted
<1>1. Counted => TestsAccounted
  BY DEF Counted
<1> QED
  BY <1>1, CountedAlways, PTL

(***************************************************************************)
(* The master waits for exactly the MOD and SIEVE jobs that owe an answer  *)
(* (lines 635-655 and 705-758).                                            *)
(***************************************************************************)
THEOREM AwaitedJobsExact == Spec => []JobsAccounted
<1>1. Counted => JobsAccounted
  BY DEF Counted
<1> QED
  BY <1>1, CountedAlways, PTL

LEMMA Rest ==
  ASSUME Safe, Counted
  PROVE  RestBetweenRounds
<1> SUFFICES ASSUME \A t \in MinerThreads : pc[t] \notin RoundPCs
             PROVE  /\ vwq = <<>> /\ wdq = 0 /\ tdq = 0
                    /\ \A t \in MinerThreads : job[t] = NoJob
  BY DEF RestBetweenRounds
<1> DEFINE A == {"MOD", "SIEVE"}
           C == {"CHECK"}
<1>1. TypeOK /\ awaited = 0 /\ outstandingTests = 0
  BY DEF Safe, Counted
<1>2. /\ InFlight(A) = 0 /\ InFlight(C) = 0 /\ wdq = 0 /\ tdq = 0
  <2>1. InFlight(A) \in Nat /\ InFlight(C) \in Nat /\ wdq \in Nat /\ tdq \in Nat
    BY <1>1, InFlightNat, QueueAssumption DEF TypeOK
  <2> QED
    BY <1>1, <2>1 DEF Counted, TestsAccounted, JobsAccounted
<1>3. Queued(A) = {} /\ Queued(C) = {} /\ Holding(A) = {} /\ Holding(C) = {}
  <2>1. /\ Cardinality(Queued(A)) = 0 /\ Cardinality(Queued(C)) = 0
        /\ Cardinality(Holding(A)) = 0 /\ Cardinality(Holding(C)) = 0
    BY <1>1, <1>2, InFlightNat DEF InFlight
  <2> QED
    BY <1>1, <2>1, InFlightNat, FS_EmptySet
<1>4. \A j \in Jobs : j.type \in A \cup C
  BY DEF Jobs, ModJobs, SieveJobs, CheckJobs
<1>5. vwq = <<>>
  <2>1. vwq \in Seq(Jobs) /\ \A i \in DOMAIN vwq : vwq[i] \in Jobs
    BY <1>1 DEF TypeOK
  <2>2. DOMAIN vwq = {}
    BY <1>3, <1>4, <2>1 DEF Queued
  <2> QED
    BY <2>1, <2>2
<1>6. \A t \in MinerThreads : job[t] = NoJob
  BY <1>1, <1>3, <1>4 DEF TypeOK, Holding
<1> QED
  BY <1>2, <1>5, <1>6

(***************************************************************************)
(* Between two pieces of work nothing is in flight, so the master may      *)
(* rewrite what the workers read (lines 533-633).                          *)
(***************************************************************************)
THEOREM NothingInFlightAtRest == Spec => []RestBetweenRounds
<1>1. Safe /\ Counted => RestBetweenRounds
  BY Rest
<1> QED
  BY <1>1, SafeAlways, CountedAlways, PTL

-----------------------------------------------------------------------------
(* Which jobs are in use after a step. *)
LEMMA InUsePush ==
  ASSUME TypeOK, NEW j \in Jobs, job' = job,
         vwq' = Append(vwq, j) \/ vwq' = <<j>> \o vwq
  PROVE  \A k \in InUse' : k = j \/ k \in InUse
<1>1. vwq \in Seq(Jobs)
  BY DEF TypeOK
<1>2. CASE vwq' = Append(vwq, j)
  <2>1. \A i \in DOMAIN vwq' : vwq'[i] = j \/ (i \in DOMAIN vwq /\ vwq'[i] = vwq[i])
    BY <1>1, <1>2, AppendProperties
  <2> QED
    BY <2>1 DEF InUse
<1>3. CASE vwq' = <<j>> \o vwq
  <2>1. <<j>> \in Seq(Jobs) /\ Len(<<j>>) = 1 /\ <<j>>[1] = j
    OBVIOUS
  <2>2. \A i \in DOMAIN vwq' :
          vwq'[i] = j \/ (i - 1 \in DOMAIN vwq /\ vwq'[i] = vwq[i - 1])
    BY <1>1, <1>3, <2>1, ConcatProperties
  <2> QED
    BY <2>2 DEF InUse
<1> QED
  BY <1>2, <1>3

LEMMA InUsePop ==
  ASSUME TypeOK, NEW t \in MinerThreads, vwq # <<>>, vwq' = Tail(vwq),
         job' = [job EXCEPT ![t] = Head(vwq)]
  PROVE  InUse' \subseteq InUse
<1>1. \A i \in DOMAIN vwq' : i + 1 \in DOMAIN vwq /\ vwq'[i] = vwq[i + 1]
  BY HeadTailProperties DEF TypeOK
<1>2. 1 \in DOMAIN vwq /\ Head(vwq) = vwq[1]
  BY DEF TypeOK
<1> QED
  BY <1>1, <1>2 DEF InUse, TypeOK

(* Nothing new is in use, and the header stays. *)
LEMMA StillCurrent ==
  ASSUME TestsMatchHeader, \A k \in InUse' : k \in InUse \/ k.type # "CHECK",
         target' = target, verify_block' = verify_block,
         verify_block # None => block'[verify_block] = block[verify_block]
  PROVE  TestsMatchHeader'
BY DEF TestsMatchHeader

(* A thread outside the master's code that verify_block points at may      *)
(* change its block: then nobody tests.                                    *)
LEMMA NothingToMatch ==
  ASSUME Safe, Counted, vwq' = vwq, job' = job,
         \A u \in MinerThreads : pc[u] \notin RoundPCs
  PROVE  TestsMatchHeader'
<1>1. vwq = <<>> /\ \A t \in MinerThreads : job[t] = NoJob
  BY Rest DEF RestBetweenRounds
<1>2. \A k \in InUse' : k = NoJob
  BY <1>1 DEF InUse
<1>3. NoJob.type # "CHECK"
  BY DEF NoJob
<1> QED
  BY <1>2, <1>3 DEF TestsMatchHeader

LEMMA MatchStart ==
  ASSUME Safe, Counted, TestsMatchHeader, NEW t \in MinerThreads, StartStep(t)
  PROVE  TestsMatchHeader'
<1>1. /\ vwq' = vwq /\ job' = job /\ target' = target /\ verify_block' = verify_block
      /\ \A u \in MinerThreads \ {t} : block'[u] = block[u]
      /\ pc[t] \notin RoundPCs
  BY DEF Safe, TypeOK, StartStep, TakeWork, CheckAlgorithm, Elect, ElectLocked, Join,
         RoundPCs, workerVars, queueVars, tableVars
<1>2. CASE verify_block \in MinerThreads \ {t} \/ verify_block = None
  BY <1>1, <1>2, StillCurrent DEF InUse
<1>3. CASE verify_block = t
  <2>1. \A u \in MinerThreads : pc[u] \notin RoundPCs
    BY <1>1, <1>3 DEF Safe, Control, Place
  <2> QED
    BY <1>1, <2>1, NothingToMatch
<1> QED
  BY <1>2, <1>3 DEF Safe, TypeOK

LEMMA MatchMaster ==
  ASSUME Safe, Counted, TestsMatchHeader, NEW t \in MinerThreads, MasterStep(t)
  PROVE  TestsMatchHeader'
<1>a. /\ TypeOK /\ Place(t)
      /\ block' = block /\ job' = job
  BY DEF Safe, Control, MasterStep, Prepare, PushMod, PopDone, EndMod, LeaveLoop,
         StartPass, PushSieve, SieveDense, Merge, ScanNext, PushBatch, ScanClear,
         ScanCheck, PollHeight, Reset, ScanEnd, Flush, EndClear, DrainPop, DrainCheck,
         DrainReset, Finish, workerVars
<1>1. CASE Prepare(t)
  <2>1. \A u \in MinerThreads : pc[u] \notin RoundPCs
    BY <1>1, <1>a DEF Prepare, Safe, Control, Place, Role, RoundPCs
  <2> QED
    BY <1>1, <2>1, NothingToMatch DEF Prepare, workerVars, queueVars
<1>2. CASE ~Prepare(t)
  <2>1. target' = target /\ verify_block' = verify_block
    BY <1>2 DEF MasterStep, PushMod, PopDone, EndMod, LeaveLoop,
       StartPass, PushSieve, SieveDense, Merge, ScanNext, PushBatch, ScanClear,
       ScanCheck, PollHeight, Reset, ScanEnd, Flush, EndClear, DrainPop, DrainCheck,
       DrainReset, Finish, tableVars
  (* What is added to the queue is no test, or a test of this header. *)
  <2>2. ASSUME NEW j \in Jobs, vwq' = Append(vwq, j) \/ vwq' = <<j>> \o vwq,
               \/ j.type # "CHECK"
               \/ j.header = target /\ verify_block = t /\ block[t] = target
        PROVE  TestsMatchHeader'
    <3>1. \A k \in InUse' : k = j \/ k \in InUse
      BY <1>a, <2>2, InUsePush
    <3>2. t # None
      BY ThreadAssumption
    <3> QED
      BY <1>a, <2>1, <2>2, <3>1, <3>2 DEF TestsMatchHeader
  <2>3. ASSUME PushTests, n_indexes > 0, pc[t] \in RoundPCs
        PROVE  TestsMatchHeader'
    <3> DEFINE j == [type |-> "CHECK", n_indexes |-> n_indexes, header |-> target]
    <3>1. target \in Headers /\ verify_block = t /\ block[t] = target
      BY <1>a, <2>3 DEF Place, OwnHeader, RoundPCs, WorkerPCs
    <3>2. n_indexes \in 1..WorkIndexes
      BY <1>a, <2>3, BoundAssumption DEF TypeOK
    <3>3. j \in Jobs /\ j.header = target
      BY <3>1, <3>2 DEF Jobs, CheckJobs
    <3>4. vwq' = Append(vwq, j)
      BY <2>3 DEF PushTests
    <3> HIDE DEF j
    <3> QED
      BY <2>2, <3>1, <3>3, <3>4
  <2>4. CASE vwq' = vwq \/ vwq' = <<>>
    <3>1. \A k \in InUse' : k \in InUse
      BY <1>a, <2>4 DEF InUse
    <3> QED
      BY <1>a, <2>1, <3>1, StillCurrent
  <2>5. CASE PushMod(t)
    <3> DEFINE j == [type |-> "MOD", start |-> base,
                     end |-> Least(PrimeTestSize, base + ModIncr)]
    <3>1. ModIncr \in Nat
      BY TableAssumption, Division DEF ModIncr
    <3>2. j \in Jobs /\ j.type # "CHECK"
      BY <1>a, <3>1, TableAssumption DEF Least, Jobs, ModJobs, TypeOK
    <3>3. vwq' = Append(vwq, j)
      BY <2>5 DEF PushMod
    <3> HIDE DEF j
    <3> QED
      BY <2>2, <3>2, <3>3
  <2>6. CASE PushSieve(t)
    <3> DEFINE j == [type |-> "SIEVE", start |-> base, end |-> SieveEnd(base),
                     sieveId |-> which_sieve]
    <3>1. SieveEnd(base) \in Nat /\ base \in Nat /\ which_sieve \in 0..NSieveWorkers-1
      BY <1>a, SieveEndBound DEF TypeOK
    <3>2. j \in Jobs /\ j.type # "CHECK"
      BY <3>1 DEF Jobs, SieveJobs
    <3>3. vwq' = <<j>> \o vwq
      BY <2>6 DEF PushSieve
    <3> HIDE DEF j
    <3> QED
      BY <2>2, <3>2, <3>3
  <2>7. CASE PushBatch(t)
    <3>1. PushTests /\ n_indexes > 0 /\ pc[t] \in RoundPCs
      BY <1>a, <2>7, BoundAssumption DEF PushBatch, Place, BatchSize, RoundPCs
    <3> QED
      BY <2>3, <3>1
  <2>8. CASE Flush(t)
    BY <2>3, <2>4, <2>8 DEF Flush, RoundPCs
  <2>9. CASE ~(PushMod(t) \/ PushSieve(t) \/ PushBatch(t) \/ Flush(t))
    <3>1. vwq' = vwq \/ vwq' = <<>>
      BY <1>2, <2>9 DEF MasterStep, PopDone, EndMod, LeaveLoop, StartPass, SieveDense,
         Merge, ScanNext, ScanClear, ScanCheck, PollHeight, Reset, ClearTests, ScanEnd,
         EndClear, DrainPop, DrainCheck, DrainReset, Finish, queueVars
    <3> QED
      BY <2>4, <3>1
  <2> QED
    BY <2>5, <2>6, <2>7, <2>8, <2>9
<1> QED
  BY <1>1, <1>2

LEMMA MatchWorker ==
  ASSUME Safe, TestsMatchHeader, NEW t \in MinerThreads, WorkerStep(t)
  PROVE  TestsMatchHeader'
<1>1. target' = target /\ verify_block' = verify_block /\ block' = block
  BY DEF WorkerStep, Pop, UpdateRemainders, ProcessSieve, PushWorkerDone, TestIndex,
         SubmitShare, PushTestDone, JobDone, tableVars
<1>2. \A k \in InUse' : k \in InUse \/ k.type # "CHECK"
  <2>1. CASE Pop(t)
    BY <2>1, InUsePop DEF Pop, Safe
  <2>2. CASE job' = job /\ vwq' = vwq
    BY <2>2 DEF InUse
  <2>3. CASE job' = [job EXCEPT ![t] = NoJob] /\ vwq' = vwq
    <3>1. NoJob.type # "CHECK"
      BY DEF NoJob
    <3> QED
      BY <2>3, <3>1 DEF InUse, Safe, TypeOK
  <2> QED
    BY <2>1, <2>2, <2>3 DEF WorkerStep, UpdateRemainders, ProcessSieve, PushWorkerDone,
       TestIndex, SubmitShare, PushTestDone, JobDone, workerVars, queueVars
<1> QED
  BY <1>1, <1>2, StillCurrent

LEMMA MatchNext == Safe /\ Counted /\ TestsMatchHeader /\ [Next]_vars => TestsMatchHeader'
<1> SUFFICES ASSUME Safe, Counted, TestsMatchHeader, [Next]_vars PROVE TestsMatchHeader'
  OBVIOUS
<1>1. CASE MainStep \/ UNCHANGED vars
  BY <1>1, StillCurrent DEF MainStep, vars, workerVars, queueVars, tableVars, InUse
<1>2. ASSUME NEW t \in MinerThreads, ThreadStep(t)
      PROVE  TestsMatchHeader'
  BY <1>2, MatchStart, MatchMaster, MatchWorker DEF ThreadStep
<1> QED
  BY <1>1, <1>2 DEF Next

LEMMA MatchInit == Init => TestsMatchHeader
BY DEF Init, TestsMatchHeader, InUse, NoJob

(***************************************************************************)
(* Every test, and every share it submits, is for the header it was sieved *)
(* for, although CHECK jobs read z_verify_target and *verify_block only    *)
(* when they run (lines 420-427 and 501).                                  *)
(***************************************************************************)
THEOREM TestsRunForTheirHeader == Spec => []TestsMatchHeader
BY MatchInit, SafeAlways, CountedAlways, MatchNext, PTL DEF Spec

-----------------------------------------------------------------------------
(* The refinement.  What MiningRound sees of a state, in and out of a      *)
(* round; the tests pending are those counted and not yet answered.        *)
Seen == {"reset", "drainreset"}

LEMMA Mined ==
  ASSUME Safe, NEW t \in MinerThreads, pc[t] \in RoundPCs
  PROVE  /\ MinedHeader = block[t] /\ block[t] \in Headers /\ block[t] # None
         /\ Noticed <=> pc[t] \in Seen
<1>1. \A u \in MinerThreads : pc[u] \in RoundPCs => u = t
  BY DEF Safe, Control, Place, Role
<1>2. InRound = {t}
  BY <1>1 DEF InRound
<1>3. MinedHeader = block[t]
  BY <1>2 DEF MinedHeader
<1>4. block[t] \in Headers
  BY DEF Safe, Control, Place, OwnHeader, RoundPCs, WorkerPCs
<1>5. Noticed <=> pc[t] \in Seen
  BY <1>1 DEF Noticed, Seen, RoundPCs
<1> QED
  BY <1>3, <1>4, <1>5, NoneAssumption

LEMMA NotMined ==
  ASSUME \A t \in MinerThreads : pc[t] \notin RoundPCs
  PROVE  MinedHeader = None /\ ~Noticed
BY DEF MinedHeader, InRound, Noticed, RoundPCs

(* The same of the next state. *)
LEMMA MinedNext ==
  ASSUME Safe', NEW t \in MinerThreads, pc'[t] \in RoundPCs
  PROVE  MinedHeader' = block'[t] /\ (Noticed' <=> pc'[t] \in Seen)
<1>1. \A u \in MinerThreads : pc'[u] \in RoundPCs => u = t
  BY DEF Safe, Control, Place, Role
<1>2. InRound' = {t}
  BY <1>1 DEF InRound
<1>3. MinedHeader' = block'[t]
  BY <1>2 DEF MinedHeader
<1>4. Noticed' <=> pc'[t] \in Seen
  BY <1>1 DEF Noticed, Seen, RoundPCs
<1> QED
  BY <1>3, <1>4

LEMMA Pending ==
  ASSUME Safe, Counted
  PROVE  InFlight({"CHECK"}) \in Nat /\ InFlight({"CHECK"}) = outstandingTests - tdq
<1>1. InFlight({"CHECK"}) \in Nat /\ tdq \in Nat
  BY InFlightNat, QueueAssumption DEF Safe, TypeOK
<1> QED
  BY <1>1 DEF Counted, TestsAccounted

LEMMA PendingNext ==
  ASSUME Safe', Counted'
  PROVE  InFlight({"CHECK"})' \in Nat /\ InFlight({"CHECK"})' = outstandingTests' - tdq'
<1>1. vwq' \in Seq(Jobs) /\ tdq' \in Nat
  BY QueueAssumption DEF Safe, TypeOK
<1>2. Cardinality(Places(vwq', {"CHECK"})) \in Nat
  BY <1>1, PlacesFinite
<1>3. Queued({"CHECK"})' = Places(vwq', {"CHECK"})
  BY DEF Queued, Places
<1>4. Holding({"CHECK"})' \in SUBSET MinerThreads
  BY DEF Holding
<1>5. Cardinality(Holding({"CHECK"})') \in Nat
  BY <1>4, ThreadAssumption, FS_Subset, FS_CardinalityType
<1>6. InFlight({"CHECK"})' \in Nat
  BY <1>2, <1>3, <1>5 DEF InFlight
<1> QED
  BY <1>1, <1>6 DEF Counted, TestsAccounted

(* A step that changes nothing MiningRound sees. *)
LEMMA RoundStutter ==
  ASSUME Safe, Safe', Counted, Counted',
         \A u \in MinerThreads :
            /\ pc'[u] = pc[u] \/ {pc[u], pc'[u]} \cap RoundPCs = {}
            /\ pc[u] \in RoundPCs => block'[u] = block[u],
         monitor' = monitor,
         outstandingTests' - tdq' = outstandingTests - tdq
  PROVE  UNCHANGED Round!vars
<1>1. InFlight({"CHECK"})' = InFlight({"CHECK"})
  BY Pending, PendingNext
<1>2. InRound' = InRound /\ Noticed' = Noticed
  BY DEF InRound, Noticed, RoundPCs
<1>3. MinedHeader' = MinedHeader
  BY <1>2 DEF MinedHeader, InRound
<1> QED
  BY <1>1, <1>2, <1>3 DEF Round!vars

LEMMA RoundMain ==
  ASSUME Safe, Safe', Counted, Counted', MainStep
  PROVE  [Round!Next]_(Round!vars)
<1>1. UNCHANGED <<pc, block, outstandingTests, tdq>>
  BY DEF MainStep, queueVars, masterVars
<1>2. CASE monitor' = monitor
  BY <1>1, <1>2, RoundStutter
<1>3. CASE monitor' # monitor
  <2>1. monitor' \in Nat
    <3>1. monitor' \in Heights \cup {0}
      BY DEF Safe, TypeOK
    <3> QED
      BY <3>1, BoundAssumption
  <2>2. InFlight({"CHECK"})' = InFlight({"CHECK"})
    BY <1>1, Pending, PendingNext
  <2>3. MinedHeader' = MinedHeader /\ Noticed' = Noticed
    BY <1>1 DEF MinedHeader, InRound, Noticed
  <2> QED
    BY <2>1, <2>2, <2>3 DEF Round!Next, Round!NewHeight
<1> QED
  BY <1>2, <1>3

LEMMA RoundStart ==
  ASSUME Safe, Safe', Counted, Counted', NEW t \in MinerThreads, StartStep(t)
  PROVE  [Round!Next]_(Round!vars)
<1>1. /\ outstandingTests' = outstandingTests /\ tdq' = tdq /\ monitor' = monitor
      /\ \A u \in MinerThreads \ {t} : pc'[u] = pc[u] /\ block'[u] = block[u]
  BY DEF Safe, TypeOK, StartStep, TakeWork, CheckAlgorithm, Elect, ElectLocked, Join,
         Goto, mainVars, queueVars, masterVars
<1>2. /\ pc[t] \in {"getwork", "gotwork", "elect", "electlock", "joined"}
      /\ pc'[t] \in {"getwork", "gotwork", "elect", "electlock", "joined", "prepare", "pop"}
  BY DEF Safe, TypeOK, StartStep, TakeWork, CheckAlgorithm, Elect, ElectLocked, Join,
         Goto
<1>3. {pc[t], pc'[t]} \cap RoundPCs = {} /\ pc[t] \notin RoundPCs
  BY <1>2 DEF RoundPCs
<1> QED
  BY <1>1, <1>3, RoundStutter

LEMMA RoundWorker ==
  ASSUME Safe, Safe', Counted, Counted', NEW t \in MinerThreads, WorkerStep(t)
  PROVE  [Round!Next]_(Round!vars)
<1>1. /\ outstandingTests' = outstandingTests /\ block' = block /\ monitor' = monitor
  BY DEF WorkerStep, Pop, UpdateRemainders, ProcessSieve, PushWorkerDone, TestIndex,
         SubmitShare, PushTestDone, JobDone, mainVars, masterVars
<1>2. /\ pc[t] \in WorkerPCs /\ pc'[t] \in WorkerPCs
      /\ \A u \in MinerThreads \ {t} : pc'[u] = pc[u]
  BY WorkerMoves
<1>3. \A u \in MinerThreads : pc'[u] = pc[u] \/ {pc[u], pc'[u]} \cap RoundPCs = {}
  BY <1>1, <1>2 DEF WorkerPCs, RoundPCs
<1>4. CASE ~PushTestDone(t)
  <2>1. tdq' = tdq
    BY <1>4 DEF WorkerStep, Pop, UpdateRemainders, ProcessSieve, PushWorkerDone, TestIndex,
       SubmitShare, JobDone, queueVars
  <2> QED
    BY <1>1, <1>3, <2>1, RoundStutter
<1>5. CASE PushTestDone(t)
  <2>1. /\ tdq' = tdq + 1 /\ tdq \in Nat /\ outstandingTests \in Int
        /\ job[t] # NoJob
    <3>1. tdq \in Nat /\ outstandingTests \in Int
      BY QueueAssumption DEF Safe, TypeOK
    <3>2. job[t] \in CheckJobs
      BY <1>5 DEF PushTestDone, Safe, Control, Place, OwnJob
    <3> QED
      BY <1>5, <3>1, <3>2 DEF PushTestDone, CheckJobs, NoJob
  <2>2. PICK m \in MinerThreads : pc[m] \in RoundPCs
    BY <2>1, Rest DEF RestBetweenRounds
  <2>3. MinedHeader # None
    BY <2>2, Mined
  <2>4. /\ InFlight({"CHECK"}) \in Nat /\ InFlight({"CHECK"})' \in Nat
        /\ InFlight({"CHECK"})' = InFlight({"CHECK"}) - 1
    BY <1>1, <2>1, Pending, PendingNext
  <2>5. MinedHeader' = MinedHeader /\ Noticed' = Noticed
    <3>1. InRound' = InRound /\ Noticed' = Noticed
      BY <1>3 DEF InRound, Noticed, RoundPCs
    <3> QED
      BY <1>1, <3>1 DEF MinedHeader
  <2> QED
    BY <1>1, <2>3, <2>4, <2>5 DEF Round!Next, Round!Answer
<1> QED
  BY <1>4, <1>5

LEMMA RoundMaster ==
  ASSUME Safe, Safe', Counted, Counted', NEW t \in MinerThreads, MasterStep(t)
  PROVE  [Round!Next]_(Round!vars)
<1> DEFINE tests == InFlight({"CHECK"})
<1>a. /\ tests \in Nat /\ tests = outstandingTests - tdq
      /\ tests' \in Nat /\ tests' = outstandingTests' - tdq'
      /\ outstandingTests \in Int /\ tdq \in Nat
  <2>1. outstandingTests \in Int /\ tdq \in Nat
    BY QueueAssumption DEF Safe, TypeOK
  <2> QED
    BY <2>1, Pending, PendingNext
<1>b. /\ block' = block /\ monitor' = monitor
      /\ pc \in [MinerThreads -> PCs]
      /\ \A u \in MinerThreads \ {t} : pc'[u] = pc[u]
  <2>1. pc \in [MinerThreads -> PCs]
    BY DEF Safe, TypeOK
  <2>2. block' = block /\ monitor' = monitor
    BY DEF MasterStep, Prepare, PushMod, PopDone, EndMod, LeaveLoop, StartPass,
       PushSieve, SieveDense, Merge, ScanNext, PushBatch, ScanClear, ScanCheck,
       PollHeight, Reset, ScanEnd, Flush, EndClear, DrainPop, DrainCheck, DrainReset,
       Finish, mainVars
  <2>3. \A u \in MinerThreads \ {t} : pc'[u] = pc[u]
    <3>1. CASE Prepare(t) \/ PushMod(t) \/ PopDone(t)
      BY <2>1, <3>1 DEF Prepare, PushMod, PopDone, Goto
    <3>2. CASE EndMod(t) \/ LeaveLoop(t) \/ StartPass(t) \/ PushSieve(t)
      BY <2>1, <3>2 DEF EndMod, LeaveLoop, StartPass, PushSieve, Goto
    <3>3. CASE \/ SieveDense(t) \/ Merge(t) \/ ScanNext(t) \/ PushBatch(t)
             \/ ScanClear(t) \/ ScanCheck(t) \/ Reset(t)
      BY <2>1, <3>3 DEF SieveDense, Merge, ScanNext, PushBatch, ScanClear, ScanCheck, Reset,
         PollHeight, Goto
    <3>4. CASE \/ ScanEnd(t) \/ Flush(t) \/ EndClear(t) \/ DrainPop(t)
             \/ DrainCheck(t) \/ DrainReset(t) \/ Finish(t)
      BY <2>1, <3>4 DEF ScanEnd, Flush, EndClear, DrainPop, DrainCheck, DrainReset, Finish,
         PollHeight, Goto
    <3> QED
      BY <3>1, <3>2, <3>3, <3>4 DEF MasterStep
  <2> QED
    BY <2>1, <2>2, <2>3
<1> HIDE DEF tests
(* The master stays in its round: what MiningRound sees of it. *)
<1>c. ASSUME pc[t] \in RoundPCs, pc'[t] \in RoundPCs
      PROVE  /\ MinedHeader = block[t] /\ MinedHeader # None /\ MinedHeader' = MinedHeader
             /\ Noticed <=> pc[t] \in Seen
             /\ Noticed' <=> pc'[t] \in Seen
  BY <1>b, <1>c, Mined, MinedNext
<1>d. ASSUME pc[t] \in RoundPCs, pc'[t] \in RoundPCs, pc[t] \notin Seen,
             pc'[t] \notin Seen, tests' = tests
      PROVE  UNCHANGED Round!vars
  <2>1. InFlight({"CHECK"})' = InFlight({"CHECK"})
    BY <1>d DEF tests
  <2>2. Noticed' = Noticed
    BY <1>b, <1>d DEF Noticed, Seen
  <2>3. MinedHeader' = MinedHeader
    BY <1>c, <1>d
  <2> QED
    BY <1>b, <2>1, <2>2, <2>3 DEF Round!vars
<1>e. ASSUME pc[t] \in RoundPCs, pc'[t] \in RoundPCs, pc[t] \notin Seen,
             pc'[t] \notin Seen, tests' = tests + 1
      PROVE  Round!Post
  <2>1. InFlight({"CHECK"})' = InFlight({"CHECK"}) + 1
    BY <1>e DEF tests
  <2>2. Noticed' = Noticed
    BY <1>b, <1>e DEF Noticed, Seen
  <2>3. MinedHeader' = MinedHeader /\ MinedHeader # None /\ ~Noticed
    BY <1>c, <1>e
  <2> QED
    BY <1>b, <2>1, <2>2, <2>3 DEF Round!Post
<1>f. ASSUME pc[t] \in RoundPCs, pc'[t] \in Seen, pc[t] \notin Seen,
             tests' = tests, block[t].height # monitor
      PROVE  Round!Notice
  <2>1. pc'[t] \in RoundPCs
    BY <1>f DEF Seen, RoundPCs
  <2> QED
    BY <1>b, <1>c, <1>f, <2>1 DEF Round!Notice, tests
<1>g. ASSUME pc[t] \in Seen, pc'[t] \in RoundPCs, pc'[t] \notin Seen,
             tests' <= tests
      PROVE  Round!Drop
  <2>1. pc[t] \in RoundPCs
    BY <1>g DEF Seen, RoundPCs
  <2>2. tests' \in 0..tests
    BY <1>a, <1>g
  <2> QED
    BY <1>b, <1>c, <1>g, <2>1, <2>2 DEF Round!Drop, tests
<1> USE DEF Goto, Seen, RoundPCs
<1>1. CASE Prepare(t)
  <2>1. \A u \in MinerThreads : pc[u] \notin RoundPCs
    BY <1>1 DEF Prepare, Safe, Control, Place, Role
  <2>2. MinedHeader = None /\ ~Noticed /\ tests = 0
    BY <1>a, <2>1, NotMined DEF Counted
  <2>3. block[t] \in Headers
    BY <1>1 DEF Prepare, Safe, Control, Place, OwnHeader, WorkerPCs
  <2>4. pc'[t] = "pushmod"
    BY <1>1, <1>b DEF Prepare
  <2>5. MinedHeader' = block[t] /\ ~Noticed'
    BY <1>b, <2>4, MinedNext
  <2>6. tests' = tests
    BY <1>1, <1>a DEF Prepare, queueVars
  <2>7. InFlight({"CHECK"}) = 0 /\ InFlight({"CHECK"})' = InFlight({"CHECK"})
    BY <2>2, <2>6 DEF tests
  <2>8. MinedHeader' \in Headers
    BY <2>3, <2>5
  <2>9. Noticed' = Noticed
    BY <1>b, <1>1, <2>1, <2>4 DEF Noticed, Seen
  <2>10. Round!Begin
    BY <1>b, <2>2, <2>7, <2>8, <2>9 DEF Round!Begin
  <2> QED
    BY <2>10 DEF Round!Next
<1>2. CASE \/ PushMod(t) \/ PopDone(t) \/ EndMod(t) \/ LeaveLoop(t) \/ StartPass(t)
           \/ PushSieve(t) \/ SieveDense(t) \/ Merge(t) \/ ScanNext(t) \/ ScanClear(t)
           \/ ScanEnd(t) \/ EndClear(t) \/ DrainPop(t)
  <2>1. /\ pc[t] \in RoundPCs \ Seen
        /\ pc'[t] \in RoundPCs \ Seen
    BY <1>2, <1>b DEF PushMod, PopDone, EndMod, LeaveLoop, StartPass, PushSieve,
       SieveDense, Merge, ScanNext, ScanClear, ScanEnd, EndClear, DrainPop
  <2>2. pc[t] = "waitmod" => outstandingTests = 0
    BY DEF Counted
  <2>3. outstandingTests' - tdq' = outstandingTests - tdq
    BY <1>2, <1>a, <2>2 DEF PushMod, PopDone, EndMod, LeaveLoop, StartPass, PushSieve,
       SieveDense, Merge, ScanNext, ScanClear, ScanEnd, EndClear, DrainPop, ClearDone,
       queueVars, masterVars
  <2> QED
    BY <1>a, <1>d, <2>1, <2>3
<1>3. CASE PushBatch(t) \/ Flush(t)
  <2>1. pc[t] \in RoundPCs \ Seen /\ pc'[t] \in RoundPCs \ Seen
    BY <1>3, <1>b DEF PushBatch, Flush
  <2>2. tests' = tests + 1 \/ tests' = tests
    BY <1>3, <1>a DEF PushBatch, Flush, PushTests
  <2> QED
    BY <1>d, <1>e, <2>1, <2>2 DEF Round!Next
<1>4. CASE ScanCheck(t) \/ DrainCheck(t)
  <2>1. pc[t] \in RoundPCs \ Seen /\ tests' = tests
    BY <1>4, <1>a DEF ScanCheck, DrainCheck, PollHeight, queueVars, masterVars
  <2>2. \/ pc'[t] \in RoundPCs \ Seen
        \/ pc'[t] \in Seen /\ block[t].height # monitor
    BY <1>4, <1>b DEF ScanCheck, DrainCheck, PollHeight
  <2> QED
    BY <1>d, <1>f, <2>1, <2>2 DEF Round!Next
<1>5. CASE Reset(t) \/ DrainReset(t)
  <2>1. pc[t] \in Seen /\ pc'[t] \in RoundPCs \ Seen
    BY <1>5, <1>b DEF Reset, DrainReset
  <2>2. Len(vwq) \in Nat
    BY DEF Safe, TypeOK
  <2>3. tests' <= tests
    BY <1>5, <1>a, <2>2 DEF Reset, DrainReset, ClearTests
  <2> QED
    BY <1>g, <2>1, <2>3 DEF Round!Next
<1>6. CASE Finish(t)
  <2>1. pc[t] \in RoundPCs /\ pc[t] \notin Seen /\ pc'[t] = "getwork"
    BY <1>6, <1>b DEF Finish
  <2>2. tests = 0 /\ tests' = tests
    BY <1>6, <1>a DEF Finish, queueVars, masterVars
  <2>3. \A u \in MinerThreads : pc'[u] \notin RoundPCs
    <3>1. \A u \in MinerThreads \ {t} : pc[u] \notin RoundPCs
      BY <2>1 DEF Safe, Control, Place, Role
    <3> QED
      BY <1>b, <2>1, <3>1
  <2>4. MinedHeader # None /\ ~Noticed
    BY <2>1, Mined
  <2>5. MinedHeader' = None /\ ~Noticed'
    BY <2>3 DEF MinedHeader, InRound, Noticed
  <2>6. InFlight({"CHECK"}) = 0 /\ InFlight({"CHECK"})' = InFlight({"CHECK"})
    BY <2>2 DEF tests
  <2>7. Noticed' = Noticed
    BY <1>b, <2>1, <2>3 DEF Noticed, Seen
  <2>8. Round!End
    BY <1>b, <2>4, <2>5, <2>6, <2>7 DEF Round!End
  <2> QED
    BY <2>8 DEF Round!Next
<1> QED
  BY <1>1, <1>2, <1>3, <1>4, <1>5, <1>6 DEF MasterStep

LEMMA RoundInit == Init => Round!Init
<1> SUFFICES ASSUME Init PROVE Round!Init
  OBVIOUS
<1>1. MinedHeader = None /\ ~Noticed
  <2>1. \A t \in MinerThreads : pc[t] \notin RoundPCs
    BY DEF Init, RoundPCs
  <2> QED
    BY <2>1, NotMined
<1>2. InFlight({"CHECK"}) = 0
  <2>1. Safe /\ Counted
    BY TypeInit, ControlInit, CountedInit DEF Safe
  <2>2. outstandingTests = 0 /\ tdq = 0
    BY DEF Init
  <2> QED
    BY <2>1, <2>2, Pending
<1> QED
  BY <1>1, <1>2 DEF Init, FeedInit, Round!Init

LEMMA RoundNext ==
  Safe /\ Safe' /\ Counted /\ Counted' /\ [Next]_vars => [Round!Next]_(Round!vars)
<1> SUFFICES ASSUME Safe, Safe', Counted, Counted', [Next]_vars
             PROVE  [Round!Next]_(Round!vars)
  OBVIOUS
<1>1. CASE MainStep
  BY <1>1, RoundMain
<1>2. ASSUME NEW t \in MinerThreads, ThreadStep(t)
      PROVE  [Round!Next]_(Round!vars)
  BY <1>2, RoundStart, RoundMaster, RoundWorker DEF ThreadStep
<1>3. CASE UNCHANGED vars
  <2>1. UNCHANGED <<pc, block, monitor, outstandingTests, tdq>>
    BY <1>3 DEF vars, mainVars, queueVars, masterVars
  <2> QED
    BY <2>1, RoundStutter
<1> QED
  BY <1>1, <1>2, <1>3 DEF Next

(***************************************************************************)
(* riecoin_process and verify_thread implement MiningRound: one header at  *)
(* a time, every batch answered unless the height was seen to differ, and  *)
(* no return while a batch is out (lines 533-865).                         *)
(***************************************************************************)
THEOREM MinerImplementsRound == Spec => ImplementsRound
<1>1. Init => Round!Init
  BY RoundInit
<1>2. Safe /\ Safe' /\ Counted /\ Counted' /\ [Next]_vars => [Round!Next]_(Round!vars)
  BY RoundNext
<1> QED
  BY <1>1, <1>2, SafeAlways, CountedAlways, PTL DEF Spec, ImplementsRound, Round!Spec
=============================================================================
